SPECIFICATION Spec
CONSTANTS
    s1 = s1
    s2 = s2
    Symbols = {s1, s2}
    Prices = {10, 40}
    DefaultPrices <- MCDefaultPrices
    RefreshTicks = 2
    Retries = 1
    MaxTicks = 3
    Scenarios <- MCScenarios
    Drifts <- MCDrifts
    Offsets <- MCOffsets
    PriceVariance = 5000
    MeanThreshold = 100
    Quantities = {1}
    VolumeQuantities = {500}
    TrendWindow = 2
    TrendMinSamples = 1
    MeanWindow = 2
    MeanMinSamples = 1
CHECK_DEADLOCK FALSE
INVARIANTS
    PricesAcceptable
    RepeatsExplained
    SharesGranted
