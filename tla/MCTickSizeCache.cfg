SPECIFICATION FairSpec
CONSTANTS
    Tokens = {"t1", "t2"}
    TickSizes = {s1, s2}
    Empty = Empty
    None = None
    Error = Error
    tokenIDs <- MCTokenIDs
    Apps = {a1}
    AppTokens = {"t1"}
    MaxChanges = 1
INVARIANTS
    GivenWasServed
    OneBatch
    Accounted
PROPERTIES
    PrefetchReturns
CHECK_DEADLOCK FALSE
