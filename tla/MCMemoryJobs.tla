---------------------------- MODULE MCMemoryJobs ----------------------------
(***************************************************************************)
(* An instance of MemoryJobs for TLC.                                      *)
(***************************************************************************)
EXTENDS MemoryJobs

CONSTANTS a, s1, s2
=============================================================================
