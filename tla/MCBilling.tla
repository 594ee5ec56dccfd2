----------------------------- MODULE MCBilling -----------------------------
(***************************************************************************)
(* Small instances of Billing for TLC.                                     *)
(***************************************************************************)
EXTENDS BillingProperties, TLC

\* The sessions are interchangeable.
SameCalls == Permutations(Calls)
=============================================================================
