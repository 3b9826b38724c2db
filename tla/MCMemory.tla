------------------------------ MODULE MCMemory ------------------------------
EXTENDS Memory, TLC
Symmetric == Permutations(Req)
=============================================================================
