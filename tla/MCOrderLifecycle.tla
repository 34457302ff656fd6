-------------------------- MODULE MCOrderLifecycle --------------------------
\* One intent with a deterministic id, and a post-only one with an id alone.
EXTENDS OrderLifecycle, TLC

AnyReplica == Permutations(Replicas)

\* Some order of the list; it is cut into pages of one.
MCPlace == CHOOSE place \in [Orders -> 1..Cardinality(Orders)] :
                \A o, p \in Orders : place[o] = place[p] => o = p
=============================================================================
