SPECIFICATION FairConnSpec
CONSTANTS
    Conns = {c1}
    NoConn = NoConn
    Pong = Pong
    NoFrame = NoFrame
    Data = {"book"}
    HasDeadman = TRUE
    HasReconnect = TRUE
    Timeout = 2
    MaxInbox = 2
PROPERTIES
    SilenceDetected
    CancelStops
    GoroutinesEnd
CHECK_DEADLOCK FALSE
