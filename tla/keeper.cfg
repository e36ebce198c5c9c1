SPECIFICATION KeptSpec
CONSTANTS
    MaxTime = 6
    Markets = {m1}
    TradingEnd = 2
    SettlementDeadline = 5
    ProposedFailGrace = 1
    ResolverFeeShareBps = 5000
    FeesAtClose = {3}
    Deposit = 4
    Agents = {a1, a2, a3, a4, a5, a6}
    InitialStake = 100
    MaxStake = 100
    TopUps = {}
    UnstakeAmounts = {}
    UnstakeCooldown = 2
    SpareKeys = {NoKey}
    NoKey = NoKey
    CommitWindow = 0
    RevealWindow = 1
    DisputeWindow = 0
    TierShapes <- ValidTierShapes
    DisputeShape <- TwoOfThree
    VoteChoices = {1}
    MinResolverStake = 50
    NoShowSlashBps = 2000
    DisagreeSlashBps = 1000
    OverturnSlashBps = 5000
    DisputeBond = 5
    Challengers = {c1}
    Nobody = Nobody
    AllowlistOpen = FALSE
    SweepAmounts = {}
    Keepers = {k1}
    Soon = 1
    Ceiling = 2
    NoView = NoView
    NoOutcome = 9
    Subject = m1
    HeldKeys = {a3, a4, a5, a6}
    Scripts = {"resolve"}
    MaxRuns = 0
INVARIANTS
    AbortsOnlyWhenOvertaken
PROPERTIES
    KeeperEndsMarkets
