SPECIFICATION FairSpec
CONSTANTS
    t1 = t1
    t2 = t2
    t3 = t3
    profile = profile
    facts = facts
    db = db
    NoThread = NoThread
    Thread = {t1, t2, t3}
    Key = {profile, facts}
    Conn = {db}
    ConnOf <- OneDatabase
    Closer = {t3}
    Builder = {t3}
    MaxCalls = 3
INVARIANTS TypeOK SchemaReadyBeforeUse OneInstancePerKey OneEngineUntilClosed NoKeyError
PROPERTIES ActsAsRegistry CallsReturn
CHECK_DEADLOCK FALSE
