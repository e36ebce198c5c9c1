SPECIFICATION Spec
CONSTANTS
    MaxTime = 5
    Markets = {m1, m2}
    TradingEnd = 1
    SettlementDeadline = 5
    ProposedFailGrace = 0
    ResolverFeeShareBps = 5000
    FeesAtClose = {3}
    Deposit = 4
    Agents = {a1, a2, a3}
    InitialStake = 100
    MaxStake = 100
    TopUps = {}
    UnstakeAmounts = {}
    UnstakeCooldown = 2
    SpareKeys = {}
    NoKey = NoKey
    CommitWindow = 1
    RevealWindow = 1
    DisputeWindow = 1
    TierShapes <- AllowedTierShapes
    DisputeShape <- TwoOfThree
    VoteChoices = {1}
    MinResolverStake = 50
    NoShowSlashBps = 2000
    DisagreeSlashBps = 1000
    OverturnSlashBps = 5000
    DisputeBond = 5
    Challengers = {}
    Nobody = Nobody
    AllowlistOpen = TRUE
    SweepAmounts = {4}
SYMMETRY AgentSymmetry
INVARIANTS
    LedgerCovered
