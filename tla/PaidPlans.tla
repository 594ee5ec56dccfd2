------------------------------ MODULE PaidPlans ------------------------------
(***************************************************************************)
(* What billing promises, whatever its sessions do at the same time: the   *)
(* plan is bought with an order the provider has captured, each time for a *)
(* whole period from that day, and the order gets one invoice; the plan is *)
(* lost only when a failed payment has been stored for the days of grace;  *)
(* and nothing else moves the plan, the end of its period or the invoices. *)
(***************************************************************************)
EXTENDS Naturals

CONSTANTS Orders, None, Period, Grace, FreePlan, PaidPlan

VARIABLES day,
          captured,  \* orders the provider has captured a payment for
          invoices,  \* number of invoices of each order
          failures,  \* days on which a failed payment was stored
          plan,
          until      \* end of the period that was paid

PInit ==
    /\ day = 0
    /\ captured = {}
    /\ invoices = [o \in Orders |-> 0]
    /\ failures = {}
    /\ plan = FreePlan
    /\ until = None

Capture(o) ==
    /\ o \notin captured
    /\ captured' = captured \cup {o}
    /\ UNCHANGED <<day, invoices, failures, plan, until>>

Dawn ==
    /\ day' = day + 1
    /\ UNCHANGED <<captured, invoices, failures, plan, until>>

Buy(o) ==
    /\ o \in captured
    /\ plan' = PaidPlan
    /\ until' = day + Period
    /\ invoices' = [invoices EXCEPT ![o] = 1]
    /\ UNCHANGED <<day, captured, failures>>

StoreFailure ==
    /\ failures' = failures \cup {day}
    /\ UNCHANGED <<day, captured, invoices, plan, until>>

Lose ==
    /\ plan' = FreePlan
    /\ \E d \in failures : d + Grace <= day
    /\ UNCHANGED <<day, captured, invoices, failures, until>>

PNext == \/ \E o \in Orders : Capture(o) \/ Buy(o)
         \/ Dawn
         \/ StoreFailure
         \/ Lose

PSpec == PInit /\ [][PNext]_<<day, captured, invoices, failures, plan, until>>
=============================================================================
