--------------------------- MODULE MCSessionConfig ---------------------------
(* SessionConfig for TLC. *)
EXTENDS SessionConfig, TLC

Symmetry == Permutations(Schemas)
=============================================================================
