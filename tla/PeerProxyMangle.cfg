SPECIFICATION Spec
CONSTANTS
    m1 = m1
    m2 = m2
    Member = {m1, m2}
    Conn = {c1}
    Route <- OneWay
    Requests <- Mixed
    Answers <- NoAnswer
    Faults <- MangledOnly
    MaxOps = 1
CHECK_DEADLOCK FALSE
INVARIANT AtMostOneSlotLate
INVARIANT NothingLostOrTorn
PROPERTY HeldGoesOut
PROPERTY EveryUnitGoesOut
