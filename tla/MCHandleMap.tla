---------------------------- MODULE MCHandleMap ----------------------------
EXTENDS HandleMap, TLC

Symmetry == Permutations(Threads) \cup Permutations(Values)
=============================================================================
