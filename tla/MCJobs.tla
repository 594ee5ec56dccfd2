------------------------------- MODULE MCJobs -------------------------------
(***************************************************************************)
(* Small instances of BackgroundJobs for TLC.                              *)
(***************************************************************************)
EXTENDS JobProperties, TLC
=============================================================================
