CONSTANTS
    p1 = p1
    p2 = p2
    v1 = v1
    v2 = v2
    None = None
    Acceptor = {a1, a2, a3}
    Proposer = {p1, p2}
    Value = {v1, v2}
    MaxNumber = 3
    Proposals <- TwoRounds
    Participant = {r1, r2, r3}
    Process = {x, y, z}
    Sender = {x, y}
    Server = {s1, s2, s3, s4}
    Founders = {s1, s2, s3}
    OutboxEvent = {e1, e2}
    Committed <- FourEntries
    LeaderLogs <- TwoLeaders
    FirstLogs <- Followers
    Steps = 4
    Replicas = 3
    Writer = {1, 2}
    Window = 1
    MaxBallot = 3
    MaxSlot = 2
    MaxMessages = 3
    MaxTs = 3
    MaxVersion = 2
    MaxCrashes = 2
SPECIFICATION MCSpec
INVARIANTS
    ChosenIsFinal
    AppliedStands
    CompactionIsInvisible
    SplitNeedsHaste
    RecoveryKeepsPromise
    EffectivelyOnce
    OrderKept
    ReadsNeverGoBack
    DecisionsOverlap
PROPERTIES
    ImplementsConsensus
    UnrivalledProposerChooses
    HandoffCatchesUp
    ImplementsTCommit
    ImplementsSaga
CHECK_DEADLOCK FALSE
