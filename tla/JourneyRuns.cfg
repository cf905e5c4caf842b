CONSTANTS
    shell = shell
    Track = {shell}
    TrackIds <- OneTrack
    Stage = {1}
    Path = {dirA}
    Note = {n1}
    NoNote = NoNote
    Reports <- OneReport
    MaxTests = 1
    MaxRuns = 2
    MaxClock = 1
    MaxWrites = 0
    MaxCommands = 1
SPECIFICATION Spec
PROPERTIES
    RunGetsShown
CHECK_DEADLOCK FALSE
