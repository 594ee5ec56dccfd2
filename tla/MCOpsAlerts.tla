---------------------------- MODULE MCOpsAlerts -----------------------------
(***************************************************************************)
(* Small instances of OpsAlerts for TLC.                                   *)
(***************************************************************************)
EXTENDS OpsAlertsProperties, TLC

\* Every alert goes to every recipient.
Everybody == [a \in Alerts |-> Recipients]

\* Recipients are interchangeable, and so are webhook threads.
Alike == Permutations(Recipients) \cup Permutations(Handlers)
=============================================================================
