SPECIFICATION Spec
CONSTANTS
    Conns = {c1, c2}
    NoConn = NoConn
    Pong = Pong
    NoFrame = NoFrame
    Data = {"book"}
    HasDeadman = FALSE
    HasReconnect = FALSE
    Timeout = 1
    MaxInbox = 1
    tokenIDs <- MCTokenIDs
    BatchSize = 2
    AppTokens <- MCAppTokens
    Apps = {a1, a2}
    Run = Run
    Nobody = Nobody
SYMMETRY AnyName
INVARIANTS
    OneWriter
    ViewAgrees
PROPERTIES
    PublishedSubscribed
    EachTokenOnce
CHECK_DEADLOCK FALSE
