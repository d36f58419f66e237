----------------------------- MODULE MCCatalog -----------------------------
(* A small instance of Catalog. *)
EXTENDS Catalog, TLC

Symmetry == Permutations(Names)
=============================================================================
