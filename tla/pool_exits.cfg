SPECIFICATION Spec
CONSTANTS
    MaxTime = 3
    Markets = {m1}
    Market = m1
    TradingEnd = 2
    SettlementDeadline = 3
    ProposedFailGrace = 1
    ResolverFeeShareBps = 5000
    FeesAtClose = {0}
    Deposit = 1
    Holders = {c, h1}
    Creator = c
    WAD = 4
    Scale = 3
    MaxQ = 8
    FeeBps = 5000
    MinTradeTokens = 1
    SeedTokens = 1
    SweepAfter = 1
    TradeSizes = {2, 3}
    Offers = {1, 2}
    Lambdas = {2}
    MaxHeld = 5
INVARIANTS
    Solvent
    SupplyIsHeld
    SeedFloor
    ClaimsAreCovered
    OnlyDustRemains
    OfferCoversCharge
