SPECIFICATION FairSpec
CONSTANTS
    MarginMin = 50
    MarginBps = 1500
    GuardReserve = 350
    PreGuard = 25
    TxBase = 21
    ZeroGas = 4
    NonZeroGas = 16
    DefaultOuter = 10000
    ConfiguredOuter = 0
    Callers = {c1, c2}
    Spenders = {adapter}
    Estimates <- MCEstimates
    Payloads <- MCPayloads
    NoQuote = NoQuote
    NoRequest = NoRequest
    MaxTxs = 1
    MaxOps = 2
INVARIANTS
    SentFitsGuard
    RefusedIsNotSent
    WholeApprovals
    CachedWasTaken
    VerdictIsFinal
PROPERTIES
    CacheEndsApprovals
    CallsEnd
