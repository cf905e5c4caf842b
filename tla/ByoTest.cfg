CONSTANTS
    Track = {shell}
    Stage = {1}
    dirA = dirA
    dirB = dirB
    Path = {dirA, dirB}
    Note = {n1}
    NoNote = NoNote
    MaxTests = 1
    MaxRuns = 2
    MaxClock = 2
    Proc = {p1, p2}
    Reports <- GreenAndRed
    UserJson = TRUE
    CopyFails = TRUE
    MaxTestRuns = 3
    MaxPosts = 1
    MaxEdits = 1
SPECIFICATION MixSpec
INVARIANTS
    RunHasItsOwnReport
    RunKeepsItsProject
    RecordedOnce
PROPERTIES
    RefinesProgressDb
    EveryTestEnds
CHECK_DEADLOCK FALSE
