--------------------------- MODULE DeliveryNotices ---------------------------
(***************************************************************************)
(* What the table of alerts promises about a recipient's message, whatever *)
(* sends it, reports on it and recovers it: the provider takes it once at  *)
(* most.  What is shown of it is what the provider told of it, or that it  *)
(* failed, when it was given up before anything was shown; only something  *)
(* else that the provider told replaces it, and nothing takes it away.     *)
(***************************************************************************)
EXTENDS Naturals

CONSTANTS Messages, Reported, None

VARIABLES taken,  \* number of times the provider took a message
          told,   \* statuses it reported of the message
          shown   \* the one its row shows, None before any

NInit ==
    /\ taken = [m \in Messages |-> 0]
    /\ told = [m \in Messages |-> {}]
    /\ shown = [m \in Messages |-> None]

Deliver(m) ==
    /\ taken[m] = 0
    /\ taken' = [taken EXCEPT ![m] = 1]
    /\ UNCHANGED <<told, shown>>

Tell(m, status) ==
    /\ taken[m] = 1
    /\ told' = [told EXCEPT ![m] = @ \cup {status}]
    /\ UNCHANGED <<taken, shown>>

Show(m, status) ==
    /\ status \in told[m]
    /\ shown' = [shown EXCEPT ![m] = status]
    /\ UNCHANGED <<taken, told>>

\* Messages of which nothing is shown are given up.
Abandon(given) ==
    /\ UNCHANGED <<taken, told>>
    /\ \A m \in given : shown[m] = None
    /\ shown' = [m \in Messages |-> IF m \in given THEN "failed" ELSE shown[m]]

NNext ==
    \/ \E given \in SUBSET Messages : Abandon(given)
    \/ \E m \in Messages :
          Deliver(m) \/ \E status \in Reported : Tell(m, status) \/ Show(m, status)

NSpec == NInit /\ [][NNext]_<<taken, told, shown>>
=============================================================================
