SPECIFICATION UserSpec
CONSTANTS
    Conns = {c1, c2}
    NoConn = NoConn
    Pong = Pong
    NoFrame = NoFrame
    Fills = {f1, f2}
    Orders = {o1}
    Data <- UserFrames
    HasDeadman = FALSE
    HasReconnect = TRUE
    Timeout = 1
    MaxInbox = 2
SYMMETRY AnyName
INVARIANTS
    NoFillLost
CHECK_DEADLOCK FALSE
