SPECIFICATION Spec
CONSTANTS
    KR = KR
    US = US
    k = k
    u = u
    a = a
    NoOrder = NoOrder
    Markets <- MCMarkets
    Tickers <- MCTickers
    Orders <- MCOrders
    MarketOf <- MCMarketOf
    TickerOf <- MCTickerOf
    MaxOps = 2
    MaxTicks = 1
    MaxResumes = 1
    MaxCrashes = 1
INVARIANTS
    TypeOK
    EscalationHeld
    RestartKeepsBlocks
