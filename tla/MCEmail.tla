------------------------------- MODULE MCEmail -------------------------------
(***************************************************************************)
(* Small instances of EmailQueue for TLC.                                  *)
(***************************************************************************)
EXTENDS EmailProperties
=============================================================================
