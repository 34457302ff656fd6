SPECIFICATION FairSpec
CONSTANTS
    MaxKeys = 2
    NTokens = 3
    Capacity = 2
    pageSize = 2
    ServerPage = 3
    NRows = 5
    MaxRemoved = 2
    MaxAdded = 1
INVARIANTS
    RatesJoined
    RowsBounded
    LastAnswerDecides
PROPERTIES
    CredsValid
    CallsReturn
