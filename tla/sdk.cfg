SPECIFICATION AgentSpec
CONSTANTS
    MaxTime = 3
    Markets = {m1}
    Market = m1
    TradingEnd = 2
    SettlementDeadline = 3
    ProposedFailGrace = 0
    ResolverFeeShareBps = 5000
    FeesAtClose = {0}
    Deposit = 0
    Holders = {a, o}
    Creator = o
    Agent = a
    WAD = 100
    Scale = 3
    MaxQ = 100
    FeeBps = 1000
    MinTradeTokens = 1
    SeedTokens = 20
    SweepAfter = 9
    TradeSizes = {4}
    Offers = {}
    Lambdas = {}
    MaxHeld = 60
    MaxImpactBps = 2000
    SlippageBps = 2500
    BankrollCap = 25
    CreatorFeeShareBps = 4000
    FreeAtStart = 40
    Beliefs = {36, 60}
    MaxRuns = 2
    MaxOthers = 1
INVARIANT
    FillIsItsOwn
PROPERTY
    BuysOnlyItsEdge
CHECK_DEADLOCK FALSE
