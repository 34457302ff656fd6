SPECIFICATION FairSpec
CONSTANTS
    Conns = {c1}
    NoConn = NoConn
    Pong = Pong
    NoFrame = NoFrame
    Data = {"book"}
    HasDeadman = TRUE
    HasReconnect = FALSE
    Timeout = 1
    MaxInbox = 1
    tokenIDs <- MCOneToken
    BatchSize = 1
    AppTokens <- MCAppTokens
    Apps = {a1}
    Run = Run
    Nobody = Nobody
PROPERTIES
    CallsReturn
CHECK_DEADLOCK FALSE
