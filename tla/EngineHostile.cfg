SPECIFICATION Spec
CONSTANTS
    u1 = u1
    u2 = u2
    u3 = u3
    s1 = s1
    o1 = o1
    o2 = o2
    o3 = o3
    w1 = w1
    w2 = w2
    Users <- MCUsers
    Symbols <- MCSymbols
    OrderIds <- TwoOrders
    PriceMills <- MCPriceMills
    Quantities <- MCQuantities
    InitialBalance <- MCBalance
    InitialShares <- MCShares
    InitialCost <- MCCost
    Workers <- MCWorkers
    Inputs <- FewInputs
    Deletable <- TwoOrders
    Depth = 100
    MaxAttempts = 2
    MaxFaults = 1
    MaxCrashes = 0
    LockMayExpire = TRUE
SYMMETRY TwoOrderSymmetry
PROPERTIES
    ClosedIsFinal
