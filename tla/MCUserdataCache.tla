-------------------------- MODULE MCUserdataCache ---------------------------
EXTENDS UserdataCache, TLC

Symmetry == Permutations(Obj) \cup Permutations(Block)
=============================================================================
