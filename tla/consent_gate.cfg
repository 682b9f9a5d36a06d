SPECIFICATION Spec
CONSTANTS
    w1 = w1
    w2 = w2
    x1 = x1
    x2 = x2
    g = g
    Writer = {w1, w2}
    Gate = {g}
    Txn = {x1, x2}
    Recorded <- ConsentEvents
    MaxTime = 2
    MaxCalls = 4
INVARIANTS TypeOK GateNeedsConsent GateNeedsSubscription GateOpensWhenActive
CHECK_DEADLOCK FALSE
