------------------------------ MODULE MCUserWS ------------------------------
\* Two fills and one order, two connection objects.
EXTENDS UserWS, TLC

AnyName == Permutations(Conns) \cup Permutations(Fills)
=============================================================================
