SPECIFICATION ConnSpec
CONSTANTS
    Conns = {c1, c2}
    NoConn = NoConn
    Pong = Pong
    NoFrame = NoFrame
    Data <- MCData
    HasDeadman = TRUE
    HasReconnect = TRUE
    Timeout = 2
    MaxInbox = 2
SYMMETRY AnyConn
INVARIANTS
    ConnTypeOK
    NoSocketLeak
PROPERTIES
    KillsOnlySilent
    OwnDeadmanOnly
    ImplementsFeed
CHECK_DEADLOCK FALSE
