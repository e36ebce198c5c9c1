SPECIFICATION Spec
CONSTANTS
    MaxTime = 10
    Markets = {m1}
    TradingEnd = 2
    SettlementDeadline = 7
    ProposedFailGrace = 2
    ResolverFeeShareBps = 5000
    FeesAtClose = {3}
    Deposit = 4
    Agents = {a1, a2, a3, a4, a5, a6}
    InitialStake = 100
    MaxStake = 100
    TopUps = {}
    UnstakeAmounts = {}
    UnstakeCooldown = 2
    SpareKeys = {}
    NoKey = NoKey
    CommitWindow = 1
    RevealWindow = 1
    DisputeWindow = 1
    TierShapes <- AllowedTierShapes
    DisputeShape <- TwoOfThree
    VoteChoices = {0, 1, 2}
    MinResolverStake = 50
    NoShowSlashBps = 2000
    DisagreeSlashBps = 1000
    OverturnSlashBps = 5000
    DisputeBond = 5
    Challengers = {c1}
    Nobody = Nobody
    AllowlistOpen = FALSE
    SweepAmounts = {}
SYMMETRY AgentSymmetry
INVARIANTS
    StatusFollowsRound
    VerdictCarriedOut
    RoundTwoIsFresh
    DrawMatchesRound
    VerdictIsMajority
    BondFollowsVerdict
    ReputationIsEarned
PROPERTIES
    VerdictOutlivesDeadline
    AbsenteesHadTheirTime
    ImplementsJudgement
