--------------------------- MODULE MCSessionStore ---------------------------
\* Two keys, two goroutines.
EXTENDS SessionStore, TLC

AnyName == Permutations(Keys) \cup Permutations(Procs)
=============================================================================
