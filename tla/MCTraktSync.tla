---------------------------- MODULE MCTraktSync ----------------------------
EXTENDS TraktSync, TLC

CONSTANTS n1, n2, x1, x2
Symmetry == Permutations(Nodes) \cup Permutations(Items)
=============================================================================
