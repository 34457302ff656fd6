SPECIFICATION BuildSpec
CONSTANTS
    Sizes <- MCSizes
    Prices = {55}
    Ticks = {"0.01"}
    Rates = {}
    RefPrices = {}
    FeeTicks = {}
INVARIANTS
    FastPathParity
CHECK_DEADLOCK FALSE
