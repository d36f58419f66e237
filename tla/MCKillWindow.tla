---------------------------- MODULE MCKillWindow ----------------------------
(* KillWindow for TLC.  No symmetry: the run checks a liveness property. *)
EXTENDS KillWindow
=============================================================================
