SPECIFICATION HistorySpec
CONSTANTS
    MaxTime = 4
    c = c
    h1 = h1
    Markets = {m1}
    Market = m1
    TradingEnd = 4
    SettlementDeadline = 5
    ProposedFailGrace = 1
    ResolverFeeShareBps = 5000
    FeesAtClose = {0}
    Deposit = 1
    Holders <- MCHolders
    Creator = c
    WAD = 100
    Scale = 2
    MaxQ = 9
    FeeBps = 5000
    MinTradeTokens = 1
    SeedTokens = 1
    SweepAfter = 9
    TradeSizes = {3}
    Offers = {3}
    Lambdas = {}
    MaxHeld = 8
    FirstLogIndex = 9
    MaxTrades = 3
    MaxMoved = 1
    Day = 1
    TapeLimit = 2
    CoordScale = 50
    PlotWidth = 60
    PlotHeight = 200
    MinGap = 12
    OtherSummary <- MCOtherSummary
    OtherTape <- MCOtherTape
    Free <- MCFree
INVARIANTS
    HoldingsAreRebuilt
    ChartIsTheTape
    BoardsAgreeWithTheChain
CHECK_DEADLOCK FALSE
