CONSTANTS
    shell = shell
    Track = {shell}
    TrackIds <- OneTrack
    Stage = {1}
    Path = {dirA}
    Note = {n1}
    NoNote = NoNote
    Reports <- OneReport
    MaxTests = 1
    MaxRuns = 2
    MaxClock = 1
    MaxWrites = 2
    MaxCommands = 2
SPECIFICATION MCSpec
INVARIANTS
    TypeOK
    DoneAtIffDone
    LastRunIsNewestMover
    StateFollowsLatestRun
PROPERTIES
    DoneAtStable
    ScreenCatchesUp
    NewRunIsShown
CHECK_DEADLOCK FALSE
