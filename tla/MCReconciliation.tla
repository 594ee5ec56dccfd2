-------------------------- MODULE MCReconciliation --------------------------
(***************************************************************************)
(* Small instances of Reconciliation for TLC.                              *)
(***************************************************************************)
EXTENDS ReconciliationProperties, TLC

MCRoleOf == [u \in Users |-> "admin"]
=============================================================================
