SPECIFICATION FairSpec
CONSTANTS
    u1 = u1
    u2 = u2
    u3 = u3
    s1 = s1
    o1 = o1
    o2 = o2
    o3 = o3
    w1 = w1
    w2 = w2
    Users <- MCUsers
    Symbols <- MCSymbols
    OrderIds <- TwoOrders
    PriceMills <- MCPriceMills
    Quantities <- MCQuantities
    InitialBalance <- MCBalance
    InitialShares <- MCShares
    InitialCost <- MCCost
    Workers <- MCWorkers
    Inputs <- CrashInputs
    Deletable <- None
    Depth = 100
    MaxAttempts = 2
    MaxFaults = 0
    MaxCrashes = 1
    LockMayExpire = FALSE
INVARIANTS
    EngineTypeOK
    OneRunPerSymbol
    BookIndexed
    NoMissedMatch
PROPERTIES
    EveryOrderHandled
