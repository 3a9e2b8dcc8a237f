SPECIFICATION Spec
CONSTANTS
    s1 = s1
    s2 = s2
    o1 = o1
    o2 = o2
    o3 = o3
    Symbols = {s1, s2}
    FirstSymbol = s1
    Orders = {o1, o2, o3}
    SideOf <- MCSideOf
    Rank <- MCRank
    BookDepth = 1
    TapeLimit = 2
    MaxSockets = 1
    MaxLoads = 2
    Scenarios <- MCScenarios
CHECK_DEADLOCK FALSE
INVARIANTS
    MarketTypeOK
    ViewOfSelection
    TapeExplained
    BookShowsRested
