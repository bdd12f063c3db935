---------------------------- MODULE MCInputRelay -----------------------------
(***************************************************************************)
(* An instance of InputRelay for TLC.                                      *)
(***************************************************************************)
EXTENDS InputRelay
=============================================================================
