------------------------------- MODULE MCGuard -------------------------------
EXTENDS ReentrancyGuard, TLC
CONSTANTS t1, t2
Symm == Permutations(Tabs)
=============================================================================
