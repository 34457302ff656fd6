SPECIFICATION Spec
CONSTANTS
    Keys = {k1, k2}
    Procs = {p1, p2, p3}
    NoFile = NoFile
    Nobody = Nobody
    MaxTemps = 2
SYMMETRY AnyName
INVARIANTS
    CleanMeansSaved
    TempOwned
PROPERTIES
    ImplementsSnapshot
CHECK_DEADLOCK FALSE
