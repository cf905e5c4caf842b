CONSTANTS
    Participant = {r1, r2, r3}
    ByTheBook = FALSE
SPECIFICATION Spec
INVARIANT NeverSplit
CHECK_DEADLOCK FALSE
