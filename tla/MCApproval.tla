----------------------------- MODULE MCApproval -----------------------------
(***************************************************************************)
(* Small instances of ApprovalEngine for TLC.                              *)
(***************************************************************************)
EXTENDS ApprovalProperties, TLC

CONSTANTS owner, manager, clerk

MCRoleOf == [u \in Users |-> CASE u = owner   -> "owner"
                               [] u = manager -> "admin"
                               [] OTHER       -> "staff"]
=============================================================================
