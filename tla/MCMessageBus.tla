---- MODULE MCMessageBus ----
EXTENDS MessageBus, TLC

CONSTANTS c1, c2, c3, c4, m1, m2

Symmetry == Permutations(Calls) \cup Permutations(Messages)
=============================================================================
