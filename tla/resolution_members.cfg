SPECIFICATION Spec
CONSTANTS
    MaxTime = 5
    Markets = {m1}
    TradingEnd = 1
    SettlementDeadline = 5
    ProposedFailGrace = 0
    ResolverFeeShareBps = 5000
    FeesAtClose = {0}
    Deposit = 0
    Agents = {a1, a2, a3}
    InitialStake = 100
    MaxStake = 100
    TopUps = {}
    UnstakeAmounts = {60}
    UnstakeCooldown = 2
    SpareKeys = {k1}
    NoKey = NoKey
    CommitWindow = 1
    RevealWindow = 1
    DisputeWindow = 1
    TierShapes <- AllowedTierShapes
    DisputeShape <- TwoOfThree
    VoteChoices = {0, 1}
    MinResolverStake = 50
    NoShowSlashBps = 2000
    DisagreeSlashBps = 1000
    OverturnSlashBps = 5000
    DisputeBond = 5
    Challengers = {}
    Nobody = Nobody
    AllowlistOpen = FALSE
    SweepAmounts = {}
SYMMETRY AgentSymmetry
INVARIANTS
    TypeOK
PROPERTIES
    CommitmentsPrecedeReveals
    SlashesAreDeserved
