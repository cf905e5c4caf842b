SPECIFICATION Spec
CONSTANTS
    m1 = m1
    m2 = m2
    Member = {m1, m2}
    Conn = {c1}
    Route <- OneWay
    Requests <- OneRequest
    Answers <- NoAnswer
    Faults <- MangledOrCut
    MaxOps = 2
CHECK_DEADLOCK FALSE
INVARIANT NothingCrosses
