SPECIFICATION Spec
CONSTANTS
    t1 = t1
    t2 = t2
    t3 = t3
    profile = profile
    facts = facts
    db = db
    NoThread = NoThread
    Thread = {t1, t2, t3}
    Key = {profile, facts}
    Conn = {db}
    ConnOf <- OneDatabase
    Closer = {t3}
    Builder = {}
    MaxCalls = 4
INVARIANTS OneEnginePerConnection
CHECK_DEADLOCK FALSE
