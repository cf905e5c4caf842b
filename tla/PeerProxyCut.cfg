SPECIFICATION Spec
CONSTANTS
    m1 = m1
    m2 = m2
    Member = {m1, m2}
    Conn = {c1}
    Route <- OneWay
    Requests <- OneRequest
    Answers <- OneAnswer
    Faults <- DelayOrDrop
    MaxOps = 2
CHECK_DEADLOCK FALSE
INVARIANT CutStopsChunks
INVARIANT PartitionHolds
