SPECIFICATION Spec
CONSTANTS
    c1 = c1
    c2 = c2
    t1 = t1
    t2 = t2
    w1 = w1
    w2 = w2
    Conv = {c1, c2}
    Turn = {t1, t2}
    Worker = {w1, w2}
    Threshold = 1
    MaxTime = 3
    MaxCalls = 5
SYMMETRY Interchangeable
INVARIANTS TypeOK NoTurnOutlivesConversation
PROPERTIES EndTimeIsSet ArchivedForGood GoneForGood
CHECK_DEADLOCK FALSE
