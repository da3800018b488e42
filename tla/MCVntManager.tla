---- MODULE MCVntManager ----
EXTENDS VntManager, TLC
CONSTANTS k1, k2
Symmetry == Permutations(Key)
====
