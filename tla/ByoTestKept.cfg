CONSTANTS
    Track = {shell}
    Stage = {1}
    Path = {dirA}
    Note = {n1}
    NoNote = NoNote
    MaxTests = 1
    MaxRuns = 2
    MaxClock = 1
    Proc = {p1, p2}
    Reports <- OneReport
    UserJson = FALSE
    CopyFails = FALSE
    MaxTestRuns = 2
    MaxPosts = 0
    MaxEdits = 0
SPECIFICATION Spec
INVARIANTS
    KeptReportIsLatest
CHECK_DEADLOCK FALSE
