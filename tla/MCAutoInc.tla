----------------------------- MODULE MCAutoInc -----------------------------
(* AutoInc for TLC. *)
EXTENDS AutoInc
=============================================================================
