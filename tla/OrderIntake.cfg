SPECIFICATION FairIntakeSpec
CONSTANTS
    u1 = u1
    u2 = u2
    s1 = s1
    o1 = o1
    o2 = o2
    r1 = r1
    r2 = r2
    r3 = r3
    r4 = r4
    k1 = k1
    Users <- MCUsers
    Symbols <- MCSymbols
    OrderIds <- MCOrderIds
    PriceMills <- MCPriceMills
    Quantities <- MCQuantities
    InitialBalance <- MCBalance
    InitialShares <- MCShares
    InitialCost <- MCCost
    Requests <- MCRequests
    Body <- MCBody
    StartClock = 10
    MaxClock = 11
    MaxAttempts = 3
    MaxFaults = 1
CHECK_DEADLOCK FALSE
INVARIANTS
    IntakeTypeOK
    OneOrderPerKey
    AcceptedHasTimer
    NoneOpenPastClose
PROPERTIES
    LimitOrdersEnd
