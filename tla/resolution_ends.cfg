SPECIFICATION FairSpec
CONSTANTS
    MaxTime = 8
    Markets = {m1}
    TradingEnd = 2
    SettlementDeadline = 5
    ProposedFailGrace = 2
    ResolverFeeShareBps = 5000
    FeesAtClose = {3}
    Deposit = 4
    Agents = {a1, a2, a3}
    InitialStake = 100
    MaxStake = 130
    TopUps = {30}
    UnstakeAmounts = {}
    UnstakeCooldown = 2
    SpareKeys = {NoKey}
    NoKey = NoKey
    CommitWindow = 1
    RevealWindow = 1
    DisputeWindow = 1
    TierShapes <- AllowedTierShapes
    DisputeShape <- TwoOfThree
    VoteChoices = {1}
    MinResolverStake = 50
    NoShowSlashBps = 2000
    DisagreeSlashBps = 1000
    OverturnSlashBps = 5000
    DisputeBond = 5
    Challengers = {c1}
    Nobody = Nobody
    AllowlistOpen = FALSE
    SweepAmounts = {}
PROPERTIES
    EveryMarketEnds
