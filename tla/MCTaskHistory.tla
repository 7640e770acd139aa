--------------------------- MODULE MCTaskHistory ---------------------------
(* Two runs; all properties are of safety, so that they may change places.  *)
EXTENDS TaskHistory, TLC

Symmetry == Permutations(Runs)
=============================================================================
