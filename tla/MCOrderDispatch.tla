-------------------------- MODULE MCOrderDispatch --------------------------
EXTENDS OrderDispatch, TLC
Symmetry == Permutations(Workers)
=============================================================================
