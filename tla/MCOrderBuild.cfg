SPECIFICATION BuildSpec
CONSTANTS
    Sizes <- MCSizes
    Prices = {7, 55, 93}
    Ticks = {"0.01", "0.001", "0.5"}
    Rates = {0, 72, 3000}
    RefPrices = {0, 20, 55}
    FeeTicks = {"0.01", "x"}
INVARIANTS
    QuartersParity
    MinimumKept
    NetKept
CHECK_DEADLOCK FALSE
