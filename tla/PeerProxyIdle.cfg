SPECIFICATION Spec
CONSTANTS
    m1 = m1
    m2 = m2
    Member = {m1, m2}
    Conn = {c1}
    Route <- OneWay
    Requests <- OneRequest
    Answers <- NoAnswer
    Faults <- CutOnly
    MaxOps = 1
CHECK_DEADLOCK FALSE
PROPERTY CutClosesOpen
