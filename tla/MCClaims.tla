------------------------------ MODULE MCClaims ------------------------------
EXTENDS Claims, TLC
Durations == {-1, 2}
Symmetric == Permutations(Req) \cup Permutations(Resource)
=============================================================================
