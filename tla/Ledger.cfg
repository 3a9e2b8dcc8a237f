SPECIFICATION LedgerSpec
CONSTANTS
    u1 = u1
    u2 = u2
    s1 = s1
    o1 = o1
    o2 = o2
    o3 = o3
    Users <- MCUsers
    Symbols <- MCSymbols
    OrderIds <- MCOrderIds
    PriceMills <- MCPriceMills
    Quantities <- MCQuantities
    InitialBalance <- MCBalance
    InitialShares <- MCShares
    InitialCost <- MCCost
SYMMETRY Symmetry
INVARIANTS
    NoOverdraft
    StatusAgreesWithFill
    PairTradesOnce
    FillsMatchTrades
    BooksBalance
    CostBasisBounded
