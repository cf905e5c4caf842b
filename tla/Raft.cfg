CONSTANTS
    s1 = s1
    s2 = s2
    s3 = s3
    Server = {s1, s2, s3}
    None = None
    MaxTerm = 4
    MaxLog = 2
    MaxRequests = 4
    MayTimeOut <- LateCandidacies
SPECIFICATION MCSpec
INVARIANTS
    TypeOK
    OneLeaderPerTerm
    LeaderWasElected
    LogMatching
    LeaderCompleteness
    CommittedAgree
    MatchIsHeld
PROPERTIES
    VoteIsFinal
CHECK_DEADLOCK FALSE
