------------------------------ MODULE MCWSConn ------------------------------
\* Two connection objects: the session's and one whose goroutines linger.
EXTENDS WSConn, TLC

MCData == {"book", "trade"}
AnyConn == Permutations(Conns)
=============================================================================
