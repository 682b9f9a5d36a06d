SPECIFICATION Spec
CONSTANTS
    emotions = emotions
    rules = rules
    w1 = w1
    w2 = w2
    Item = {emotions, rules}
    Observation <- Some
    Worker = {w1, w2}
    MaxCalls = 4
    MaxRows = 5
INVARIANTS TypeOK StateIsBacked StateIsAggregate
PROPERTIES SerialStatusNeverRegresses
CHECK_DEADLOCK FALSE
