------------------------------ MODULE StockReview ------------------------------
(***************************************************************************)
(* What a stock reconciliation promises whoever reviews it and however old *)
(* what he read is: it is counted once, then approved or rejected, perhaps *)
(* again, and never pending again; its variance goes to the ledger in the  *)
(* step that approves it, no approval is without it, and nothing takes it  *)
(* back.                                                                   *)
(***************************************************************************)
EXTENDS Naturals

CONSTANT Variances

VARIABLES status, variance,
          posted    \* number of adjustments in the ledger

VInit == status = "absent" /\ variance = "none" /\ posted = 0

CountStock(v) ==
    /\ status = "absent"
    /\ status' = "pending"
    /\ variance' = v
    /\ UNCHANGED posted

Post ==
    /\ status # "absent" /\ variance # "none"
    /\ status' = "approved"
    /\ posted' = posted + 1
    /\ UNCHANGED variance

Approve ==
    /\ status # "absent" /\ (variance = "none" \/ posted > 0)
    /\ status' = "approved"
    /\ UNCHANGED <<variance, posted>>

Reject ==
    /\ status # "absent"
    /\ status' = "rejected"
    /\ UNCHANGED <<variance, posted>>

VNext == (\E v \in Variances : CountStock(v)) \/ Post \/ Approve \/ Reject

VStep == VNext \/ UNCHANGED <<status, variance, posted>>

VSpec == VInit /\ [][VNext]_<<status, variance, posted>>
=============================================================================
