SPECIFICATION Spec
CONSTANTS
    u1 = u1
    u2 = u2
    u3 = u3
    s1 = s1
    o1 = o1
    o2 = o2
    o3 = o3
    w1 = w1
    w2 = w2
    Users <- MCUsers
    Symbols <- MCSymbols
    OrderIds <- MCOrderIds
    PriceMills <- MCPriceMills
    Quantities <- MCQuantities
    InitialBalance <- MCBalance
    InitialShares <- MCShares
    InitialCost <- MCCost
    Workers <- OneWorker
    Inputs <- MCInputs
    Deletable <- None
    Depth = 100
    MaxAttempts = 2
    MaxFaults = 0
    MaxCrashes = 0
    LockMayExpire = FALSE
SYMMETRY OrderSymmetry
INVARIANTS
    NoLostLiquidity
    NoMissedMatch
    BookShowsFills
PROPERTIES
    PriceTimePriority
