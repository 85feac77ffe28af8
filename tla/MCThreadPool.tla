---------------------------- MODULE MCThreadPool ----------------------------
EXTENDS ThreadPool, TLC

CONSTANTS w1, w2, main

Two == {w1, w2}
One == {w1}
Symmetry == Permutations(Workers)
=============================================================================
