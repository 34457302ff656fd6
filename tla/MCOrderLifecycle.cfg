SPECIFICATION Spec
CONSTANTS
    Replicas = {r1, r2}
    Intents = {i1, i2}
    Deterministic = {i1}
    PostOnly = {i2}
    MaxBatch = 1
    NoRequest = NoRequest
    Times = {"t1"}
    ServerPage = 1
    Place <- MCPlace
SYMMETRY AnyReplica
INVARIANTS
    OncePerId
PROPERTIES
    ForgetsOnlyEnded
    DropsOnlyCanceled
    PostOnlyKept
