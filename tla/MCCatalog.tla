----------------------------- MODULE MCCatalog -----------------------------
(* Three calls at once on a table of two rows at most; all properties are   *)
(* of safety, so that the calls may change places.                          *)
EXTENDS Catalog, TLC

Symmetry == Permutations(Calls)
=============================================================================
