----------------------- MODULE DatastoreFactoryProofs -----------------------
(***************************************************************************)
(* What holds of the datastore factory for any threads, keys, connections  *)
(* and number of calls.                                                    *)
(***************************************************************************)
EXTENDS DatastoreFactory, TLAPS

\* The steps of a constructor; those in which it already has its engine.
WithEngine == {"schemaFast", "schemaLock", "schemaCheck", "createAll",
               "schemaAdd", "publish"}
Building == {"engineLock", "engineCheck", "engineStore"} \cup WithEngine
Closing  == {"closeLock", "clear", "disposeLock", "dispose", "resetLock", "reset"}
Reading  == {"getCheck", "getRead", "fast", "fastRead", "lock", "check"}

\* What a thread is doing agrees with the call it is in.
OpInv ==
    \A t \in Thread :
        /\ pc[t] \in Reading => op[t] \in {"create", "get"}
        /\ pc[t] \in Building => op[t] \in {"create", "get", "direct"}
        /\ pc[t] \in Closing => op[t] = "close" /\ t \in Closer

\* Each lock is held by the thread that is inside its `with` block.
InFactory(t) == \/ pc[t] \in {"check", "clear"}
                \/ pc[t] \in Building /\ op[t] # "direct"
InEngines(t) == pc[t] \in {"engineCheck", "engineStore", "dispose"}
InSchema(t)  == pc[t] \in {"schemaCheck", "createAll", "schemaAdd", "reset"}

LockInv ==
    \A t \in Thread :
        /\ InFactory(t) <=> instLock = t
        /\ InEngines(t) <=> engineLock = t
        /\ InSchema(t)  <=> schemaLock = t

\* A constructor that is past its engine has one.
EngineInv == \A t \in Thread : pc[t] \in WithEngine => engine[t] # 0

\* The factory constructs only what is not in the cache.
AbsentInv ==
    \A t \in Thread :
        pc[t] \in Building /\ op[t] # "direct" => ~Cached(key[t])

\* A connection that is marked, or that a constructor has seen marked, has
\* its tables.
SchemaInv ==
    /\ schema \subseteq created
    /\ \A t \in Thread : pc[t] \in {"schemaAdd", "publish"} => conn(t) \in created
    /\ SchemaReadyBeforeUse

IInv == TypeOK /\ OpInv /\ LockInv /\ EngineInv /\ AbsentInv /\ SchemaInv
-----------------------------------------------------------------------------
USE DEF PC, Op, Reading, Building, WithEngine, Closing, history

(***************************************************************************)
(* In the initial states nothing runs, so every part holds of nothing.     *)
(***************************************************************************)
LEMMA InitIInv == Init => IInv
  BY ThreadAssumption, ConnAssumption, CallsAssumption
  DEF Init, IInv, TypeOK, OpInv, LockInv, EngineInv, AbsentInv, SchemaInv,
      SchemaReadyBeforeUse, InFactory, InEngines, InSchema, Cached, None, Instance

(***************************************************************************)
(* A step touches the thread that takes it: no other thread changes its    *)
(* step, its call, its key or its engine.                                  *)
(***************************************************************************)
Untouched(u) == /\ pc'[u] = pc[u] /\ op'[u] = op[u]
                /\ key'[u] = key[u] /\ engine'[u] = engine[u]

LEMMA OthersStand ==
  ASSUME TypeOK, NEW t \in Thread, Starts(t) \/ Continues(t)
  PROVE  \A u \in Thread \ {t} : Untouched(u)
<1>1. CASE Starts(t)
  BY <1>1 DEF Starts, CreateDatastore, GetDatastore, Construct, CloseAll, Call,
     Goto, TypeOK, Untouched
<1>2. CASE GetCheck(t) \/ GetRead(t)
  BY <1>2 DEF GetCheck, GetRead, ReadCache, Ends, Goto, TypeOK, Untouched, locals
<1>3. CASE Creates(t)
  BY <1>3 DEF Creates, FastCheck, FastRead, LockInstances, DoubleCheck,
     LockEngines, EngineCheck, EngineStore, EngineFails, SchemaFast, LockSchema,
     SchemaCheck, CreateAll, SchemaAdd, CreateAllFails, Publish, CreateReturns,
     Ends, Goto, TypeOK, Untouched, locals
<1>4. CASE Closes(t)
  BY <1>4 DEF Closes, CloseLock, Clear, DisposeLock, Dispose, ResetLock, Reset,
     Goto, TypeOK, Untouched, locals
<1>5. QED
  BY <1>1, <1>2, <1>3, <1>4 DEF Continues

(***************************************************************************)
(* Types. Only Publish makes an instance, out of the engine that EngineInv *)
(* says it has; only EngineStore makes an engine.                          *)
(***************************************************************************)
LEMMA TypeStep ==
  ASSUME TypeOK, EngineInv, NEW t \in Thread, Starts(t) \/ Continues(t)
  PROVE  TypeOK'
<1> USE ThreadAssumption, ConnAssumption, CallsAssumption
<1>1. CASE Starts(t)
  BY <1>1 DEF Starts, CreateDatastore, GetDatastore, Construct, CloseAll, Call,
     Goto, TypeOK, shared, locks
<1>2. CASE GetCheck(t) \/ GetRead(t)
  BY <1>2 DEF GetCheck, GetRead, ReadCache, Ends, Goto, TypeOK, shared, locks,
     locals
<1>3. CASE Publish(t)
  <2> DEFINE new == [id |-> made + 1, engine |-> engine[t]]
  <2>1. new \in Instance
    BY <1>3 DEF Publish, TypeOK, EngineInv, Instance
  <2>2. instances' \in [Key -> Instance \cup {None}]
    BY <1>3, <2>1 DEF Publish, TypeOK
  <2>3. got' \in [Thread -> Instance \cup {None, KeyError, DatastoreError}]
    BY <1>3, <2>1 DEF Publish, CreateReturns, Ends, TypeOK
  <2>4. QED
    BY <1>3, <2>2, <2>3 DEF Publish, CreateReturns, LeaveFactory, Ends, Goto, TypeOK
<1>4. CASE EngineCheck(t) \/ EngineStore(t)
  BY <1>4 DEF EngineCheck, EngineStore, Goto, TypeOK, conn, shared
<1>5. CASE SchemaAdd(t) \/ CreateAll(t)
  BY <1>5 DEF SchemaAdd, CreateAll, Goto, TypeOK, conn, shared, locks, locals
<1>6. CASE FastCheck(t) \/ FastRead(t) \/ LockInstances(t) \/ DoubleCheck(t)
  BY <1>6 DEF FastCheck, FastRead, LockInstances, DoubleCheck, CreateReturns,
     LeaveFactory, Ends, Goto, TypeOK, shared, locks, locals
<1>7. CASE LockEngines(t) \/ EngineFails(t) \/ SchemaFast(t) \/ LockSchema(t)
           \/ SchemaCheck(t) \/ CreateAllFails(t)
  BY <1>7 DEF LockEngines, EngineFails, SchemaFast, LockSchema, SchemaCheck,
     CreateAllFails, LeaveFactory, Ends, Goto, TypeOK, shared, locks, locals
<1>8. CASE Closes(t)
  BY <1>8 DEF Closes, CloseLock, Clear, DisposeLock, Dispose, ResetLock, Reset,
     Goto, TypeOK, shared, locals
<1>9. QED
  BY <1>1, <1>2, <1>3, <1>4, <1>5, <1>6, <1>7, <1>8 DEF Continues, Creates

(***************************************************************************)
(* The calls keep to their own steps, and hold exactly the locks of the    *)
(* `with` blocks they are in, whichever way they leave them.               *)
(***************************************************************************)
LEMMA OpStep ==
  ASSUME TypeOK, OpInv, NEW t \in Thread, Starts(t) \/ Continues(t)
  PROVE  OpInv'
<1>1. CASE Starts(t)
  BY <1>1 DEF Starts, CreateDatastore, GetDatastore, Construct, CloseAll, Call,
     Goto, TypeOK, OpInv
<1>2. CASE GetCheck(t) \/ GetRead(t)
  BY <1>2 DEF GetCheck, GetRead, ReadCache, Ends, Goto, TypeOK, OpInv, locals
<1>3. CASE Creates(t)
  BY <1>3 DEF Creates, FastCheck, FastRead, LockInstances, DoubleCheck,
     LockEngines, EngineCheck, EngineStore, EngineFails, SchemaFast, LockSchema,
     SchemaCheck, CreateAll, SchemaAdd, CreateAllFails, Publish, CreateReturns,
     Ends, Goto, TypeOK, OpInv, locals
<1>4. CASE Closes(t)
  BY <1>4 DEF Closes, CloseLock, Clear, DisposeLock, Dispose, ResetLock, Reset,
     Goto, TypeOK, OpInv, locals
<1>5. QED
  BY <1>1, <1>2, <1>3, <1>4 DEF Continues

LEMMA LockStep ==
  ASSUME TypeOK, OpInv, LockInv, NEW t \in Thread, Starts(t) \/ Continues(t)
  PROVE  LockInv'
<1> USE ThreadAssumption DEF LockInv, InFactory, InEngines, InSchema
<1>1. CASE Starts(t)
  BY <1>1 DEF Starts, CreateDatastore, GetDatastore, Construct, CloseAll, Call,
     Goto, TypeOK, OpInv, locks
<1>2. CASE GetCheck(t) \/ GetRead(t)
  BY <1>2 DEF GetCheck, GetRead, ReadCache, Ends, Goto, TypeOK, locals, locks
\* Taking a lock: it was free, so nobody else was inside.
<1>3. CASE LockInstances(t) \/ LockEngines(t) \/ LockSchema(t)
  BY <1>3 DEF LockInstances, LockEngines, LockSchema, Goto, TypeOK, OpInv, locals
\* Leaving: by a return, by an exception, or by the end of the block.
<1>4. CASE DoubleCheck(t) \/ EngineFails(t) \/ CreateAllFails(t) \/ Publish(t)
  BY <1>4 DEF DoubleCheck, EngineFails, CreateAllFails, Publish, CreateReturns,
     LeaveFactory, Ends, Goto, TypeOK, OpInv
<1>5. CASE EngineCheck(t) \/ EngineStore(t) \/ SchemaCheck(t) \/ SchemaAdd(t)
  BY <1>5 DEF EngineCheck, EngineStore, SchemaCheck, SchemaAdd, Goto, TypeOK,
     OpInv, locals
\* Neither.
<1>6. CASE FastCheck(t) \/ FastRead(t) \/ SchemaFast(t) \/ CreateAll(t)
  BY <1>6 DEF FastCheck, FastRead, SchemaFast, CreateAll, CreateReturns, Ends,
     Goto, TypeOK, OpInv, locals, locks
<1>7. CASE Closes(t)
  BY <1>7 DEF Closes, CloseLock, Clear, DisposeLock, Dispose, ResetLock, Reset,
     Goto, TypeOK, OpInv, locals
<1>8. QED
  BY <1>1, <1>2, <1>3, <1>4, <1>5, <1>6, <1>7 DEF Continues, Creates

(***************************************************************************)
(* A constructor's engine is set before it leaves the engine's block.      *)
(***************************************************************************)
LEMMA EngineStep ==
  ASSUME TypeOK, EngineInv, NEW t \in Thread, Starts(t) \/ Continues(t)
  PROVE  EngineInv'
<1>1. \A u \in Thread \ {t} : Untouched(u)
  BY OthersStand
<1>2. SUFFICES pc'[t] \in WithEngine => engine'[t] # 0
  BY <1>1 DEF EngineInv, Untouched
<1>3. CASE EngineCheck(t) \/ EngineStore(t)
  BY <1>3, ConnAssumption DEF EngineCheck, EngineStore, Goto, TypeOK, EngineInv, conn
<1>4. CASE Starts(t) \/ GetCheck(t) \/ GetRead(t) \/ Closes(t)
  BY <1>4 DEF Starts, CreateDatastore, GetDatastore, Construct, CloseAll, Call,
     GetCheck, GetRead, ReadCache, Closes, CloseLock, Clear, DisposeLock, Dispose,
     ResetLock, Reset, Ends, Goto, TypeOK
<1>5. CASE FastCheck(t) \/ FastRead(t) \/ LockInstances(t) \/ DoubleCheck(t)
           \/ LockEngines(t) \/ EngineFails(t) \/ CreateAllFails(t) \/ Publish(t)
  BY <1>5 DEF FastCheck, FastRead, LockInstances, DoubleCheck, LockEngines,
     EngineFails, CreateAllFails, Publish, CreateReturns, Ends, Goto, TypeOK
<1>6. CASE SchemaFast(t) \/ LockSchema(t) \/ SchemaCheck(t) \/ CreateAll(t)
           \/ SchemaAdd(t)
  BY <1>6 DEF SchemaFast, LockSchema, SchemaCheck, CreateAll, SchemaAdd, Goto,
     TypeOK, EngineInv, locals
<1>7. QED
  BY <1>2, <1>3, <1>4, <1>5, <1>6 DEF Continues, Creates

(***************************************************************************)
(* Only a factory call that holds the lock adds to the cache, so what it   *)
(* saw missing under the lock is missing until it publishes.               *)
(***************************************************************************)
LEMMA AbsentStep ==
  ASSUME TypeOK, OpInv, LockInv, AbsentInv,
         NEW t \in Thread, Starts(t) \/ Continues(t)
  PROVE  AbsentInv'
<1>1. \A u \in Thread \ {t} : Untouched(u)
  BY OthersStand
<1>2. CASE Publish(t)
  \* Nobody else is inside the factory; a direct constructor caches nothing.
  <2>1. \A u \in Thread \ {t} :
          InFactory(u) => UNCHANGED instances
    BY <1>2 DEF Publish, LockInv, InFactory, OpInv
  <2>2. pc'[t] \notin Building
    BY <1>2 DEF Publish, CreateReturns, Ends, Goto, TypeOK
  <2>3. QED
    BY <1>1, <2>1, <2>2 DEF AbsentInv, Untouched, InFactory, Cached
<1>3. CASE Clear(t)
  BY <1>3, <1>1 DEF Clear, Goto, TypeOK, AbsentInv, Untouched, Cached, locals
<1>4. CASE DoubleCheck(t)
  BY <1>4, <1>1 DEF DoubleCheck, CreateReturns, Ends, Goto, TypeOK, AbsentInv,
     Untouched, Cached, shared
<1>5. CASE Starts(t) \/ GetCheck(t) \/ GetRead(t)
  BY <1>5, <1>1 DEF Starts, CreateDatastore, GetDatastore, Construct, CloseAll,
     Call, GetCheck, GetRead, ReadCache, Ends, Goto, TypeOK, AbsentInv,
     Untouched, Cached, shared, locals
<1>6. CASE FastCheck(t) \/ FastRead(t) \/ LockInstances(t)
           \/ EngineFails(t) \/ CreateAllFails(t)
  BY <1>6, <1>1 DEF FastCheck, FastRead, LockInstances, EngineFails,
     CreateAllFails, CreateReturns, Ends, Goto, TypeOK, AbsentInv, Untouched,
     Cached, shared, locals
<1>7. CASE LockEngines(t) \/ EngineCheck(t) \/ EngineStore(t) \/ SchemaFast(t)
           \/ LockSchema(t) \/ SchemaCheck(t) \/ CreateAll(t) \/ SchemaAdd(t)
  BY <1>7, <1>1 DEF LockEngines, EngineCheck, EngineStore, SchemaFast,
     LockSchema, SchemaCheck, CreateAll, SchemaAdd, Goto, TypeOK, AbsentInv,
     Untouched, Cached, shared, locals
<1>8. CASE CloseLock(t) \/ DisposeLock(t) \/ Dispose(t) \/ ResetLock(t) \/ Reset(t)
  BY <1>8, <1>1 DEF CloseLock, DisposeLock, Dispose, ResetLock, Reset, Goto,
     TypeOK, AbsentInv, Untouched, Cached, shared, locals
<1>9. QED
  BY <1>2, <1>3, <1>4, <1>5, <1>6, <1>7, <1>8 DEF Continues, Creates, Closes

(***************************************************************************)
(* A mark follows create_all, and tables are never dropped: whoever reads  *)
(* the mark, with the lock or without it, may use the connection.          *)
(***************************************************************************)
LEMMA SchemaStep ==
  ASSUME TypeOK, OpInv, SchemaInv, NEW t \in Thread, Starts(t) \/ Continues(t)
  PROVE  SchemaInv'
<1> USE DEF SchemaInv, SchemaReadyBeforeUse
<1>1. \A u \in Thread \ {t} : Untouched(u)
  BY OthersStand
<1>2. CASE Publish(t)
  BY <1>1, <1>2 DEF Publish, CreateReturns, Ends, Goto, TypeOK, OpInv, Untouched,
     Cached, conn
<1>3. CASE CreateAll(t) \/ SchemaAdd(t)
  BY <1>1, <1>3 DEF CreateAll, SchemaAdd, Goto, TypeOK, Untouched, Cached, conn,
     shared, locals
<1>4. CASE SchemaFast(t) \/ SchemaCheck(t)
  BY <1>1, <1>4 DEF SchemaFast, SchemaCheck, Goto, TypeOK, Untouched, Cached,
     conn, shared, locals
<1>5. CASE Closes(t)
  BY <1>1, <1>5 DEF Closes, CloseLock, Clear, DisposeLock, Dispose, ResetLock,
     Reset, Goto, TypeOK, Untouched, Cached, conn, shared, locals
<1>6. CASE Starts(t) \/ GetCheck(t) \/ GetRead(t)
  BY <1>1, <1>6 DEF Starts, CreateDatastore, GetDatastore, Construct, CloseAll,
     Call, GetCheck, GetRead, ReadCache, Ends, Goto, TypeOK, Untouched, Cached,
     conn, shared, locals
<1>7. CASE FastCheck(t) \/ FastRead(t) \/ LockInstances(t) \/ DoubleCheck(t)
           \/ LockEngines(t) \/ LockSchema(t)
  BY <1>1, <1>7 DEF FastCheck, FastRead, LockInstances, DoubleCheck, LockEngines,
     LockSchema, CreateReturns, Ends, Goto, TypeOK, Untouched, Cached, conn,
     shared, locals
<1>8. CASE EngineCheck(t) \/ EngineStore(t) \/ EngineFails(t) \/ CreateAllFails(t)
  BY <1>1, <1>8 DEF EngineCheck, EngineStore, EngineFails, CreateAllFails, Ends,
     Goto, TypeOK, Untouched, Cached, conn, shared
<1>9. QED
  BY <1>2, <1>3, <1>4, <1>5, <1>6, <1>7, <1>8 DEF Continues, Creates

-----------------------------------------------------------------------------
LEMMA IInvInductive == IInv /\ [Next]_vars => IInv'
<1> SUFFICES ASSUME IInv, [Next]_vars PROVE IInv'
  OBVIOUS
<1>1. CASE Next
  <2>1. PICK t \in Thread : Starts(t) \/ Continues(t)
    BY <1>1 DEF Next
  <2>2. QED
    BY <2>1, TypeStep, OpStep, LockStep, EngineStep, AbsentStep, SchemaStep DEF IInv
<1>2. CASE UNCHANGED vars
  BY <1>2 DEF vars, shared, locks, locals, IInv, TypeOK, OpInv, LockInv, EngineInv,
     AbsentInv, SchemaInv, SchemaReadyBeforeUse, InFactory, InEngines, InSchema,
     Cached, conn
<1>3. QED
  BY <1>1, <1>2

LEMMA IInvHolds == Spec => []IInv
<1>1. QED
  BY InitIInv, IInvInductive, PTL DEF Spec

(***************************************************************************)
(* The factory's type invariant (datastore_factory.py, base_datastore.py). *)
(***************************************************************************)
THEOREM TypeCorrect == Spec => []TypeOK
<1>1. IInv => TypeOK
  BY DEF IInv
<1>2. QED
  BY IInvHolds, <1>1, PTL

(***************************************************************************)
(* No two threads are inside the same `with` block, with close_all or      *)
(* without it, and an exception gives the locks back.                      *)
(***************************************************************************)
MutualExclusion ==
    \A t, u \in Thread :
        \/ InFactory(t) /\ InFactory(u)
        \/ InEngines(t) /\ InEngines(u)
        \/ InSchema(t) /\ InSchema(u)
        => t = u

THEOREM OneThreadPerBlock == Spec => []MutualExclusion
<1>1. IInv => MutualExclusion
  BY DEF IInv, LockInv, MutualExclusion
<1>2. QED
  BY IInvHolds, <1>1, PTL

(***************************************************************************)
(* No threads wait for each other: the factory's lock is held while the    *)
(* other two are asked for, and those two only for a block that asks for   *)
(* none. So while a call is under way some thread is not waiting.          *)
(***************************************************************************)
AwaitsInstances(t) == pc[t] \in {"lock", "closeLock"} /\ instLock # NoThread
AwaitsEngines(t)   == pc[t] \in {"engineLock", "disposeLock"} /\ engineLock # NoThread
AwaitsSchema(t)    == pc[t] \in {"schemaLock", "resetLock"} /\ schemaLock # NoThread
Waits(t) == AwaitsInstances(t) \/ AwaitsEngines(t) \/ AwaitsSchema(t)

SomebodyMoves ==
    (\E t \in Thread : pc[t] # "idle") => \E t \in Thread : pc[t] # "idle" /\ ~Waits(t)

LEMMA InnerLocksMove ==
  ASSUME IInv, NEW t \in Thread, AwaitsEngines(t) \/ AwaitsSchema(t)
  PROVE  \E u \in Thread : pc[u] # "idle" /\ ~Waits(u)
<1> USE DEF IInv, TypeOK, LockInv, InEngines, InSchema, Waits, AwaitsInstances,
        AwaitsEngines, AwaitsSchema
<1>1. CASE AwaitsEngines(t)
  <2>1. PICK u \in Thread : engineLock = u
    BY <1>1
  <2>2. InEngines(u)
    BY <2>1
  <2>3. QED
    BY <2>2
<1>2. CASE AwaitsSchema(t)
  <2>1. PICK u \in Thread : schemaLock = u
    BY <1>2
  <2>2. InSchema(u)
    BY <2>1
  <2>3. QED
    BY <2>2
<1>3. QED
  BY <1>1, <1>2

THEOREM NoDeadlock == Spec => []SomebodyMoves
<1>1. IInv => SomebodyMoves
  <2> SUFFICES ASSUME IInv, NEW t \in Thread, pc[t] # "idle"
               PROVE  \E u \in Thread : pc[u] # "idle" /\ ~Waits(u)
    BY DEF SomebodyMoves
  <2>1. CASE ~Waits(t)
    BY <2>1
  <2>2. CASE AwaitsEngines(t) \/ AwaitsSchema(t)
    BY <2>2, InnerLocksMove
  <2>3. CASE AwaitsInstances(t)
    <3>1. PICK u \in Thread : instLock = u
      BY <2>3 DEF AwaitsInstances, IInv, TypeOK
    <3>2. InFactory(u)
      BY <3>1 DEF IInv, LockInv
    <3>3. CASE AwaitsEngines(u) \/ AwaitsSchema(u)
      BY <3>3, InnerLocksMove
    <3>4. CASE ~(AwaitsEngines(u) \/ AwaitsSchema(u))
      BY <3>2, <3>4 DEF InFactory, Waits, AwaitsInstances
    <3>5. QED
      BY <3>3, <3>4
  <2>4. QED
    BY <2>1, <2>2, <2>3 DEF Waits
<1>2. QED
  BY IInvHolds, <1>1, PTL

(***************************************************************************)
(* An instance in the cache can be used: create_all completed on its       *)
(* connection before it was cached, close_all or not.                      *)
(***************************************************************************)
THEOREM CachedIsUsable == Spec => []SchemaReadyBeforeUse
<1>1. IInv => SchemaReadyBeforeUse
  BY DEF IInv, SchemaInv
<1>2. QED
  BY IInvHolds, <1>1, PTL

(***************************************************************************)
(* An instance in the cache is never replaced by another (create_datastore *)
(* looks again under the lock): only close_all takes it out.               *)
(***************************************************************************)
LEMMA StepReplacesNothing ==
  ASSUME IInv, [Next]_vars
  PROVE  \A k \in Key : Cached(k) => instances'[k] \in {instances[k], None}
<1>1. CASE UNCHANGED instances
  BY <1>1
<1>2. CASE Next
  <2>1. PICK t \in Thread : Starts(t) \/ Continues(t)
    BY <1>2 DEF Next
  <2>2. CASE Publish(t)
    BY <2>2 DEF Publish, IInv, TypeOK, OpInv, AbsentInv
  <2>3. CASE Clear(t)
    BY <2>3 DEF Clear
  <2>4. CASE ~Publish(t) /\ ~Clear(t)
    <3>1. UNCHANGED instances
      BY <2>1, <2>4 DEF Starts, CreateDatastore, GetDatastore, Construct,
         CloseAll, Call, Continues, GetCheck, GetRead, Creates, FastCheck,
         FastRead, LockInstances, DoubleCheck, LockEngines, EngineCheck,
         EngineStore, EngineFails, SchemaFast, LockSchema, SchemaCheck,
         CreateAll, SchemaAdd, CreateAllFails, Closes, CloseLock, DisposeLock,
         Dispose, ResetLock, Reset, shared
    <3>2. QED
      BY <3>1
  <2>5. QED
    BY <2>2, <2>3, <2>4
<1>3. QED
  BY <1>1, <1>2 DEF vars, shared

THEOREM CacheIsStable == Spec => InstanceNeverReplaced
<1>1. IInv /\ [Next]_vars
      => [\A k \in Key : Cached(k) => instances'[k] \in {instances[k], None}]_vars
  BY StepReplacesNothing
<1>2. QED
  BY IInvHolds, <1>1, PTL DEF Spec, InstanceNeverReplaced

-----------------------------------------------------------------------------
(***************************************************************************)
(* While nothing calls close_all. The table of engines and the cache only  *)
(* grow; what a thread read of them stays true until it uses it.           *)
(***************************************************************************)
EnginesInv ==
    /\ \A t \in Thread :
          /\ pc[t] = "engineStore" => engines[conn(t)] = 0
          /\ pc[t] \in WithEngine => engine[t] = engines[conn(t)]
    /\ OneEnginePerConnection

ReturnedIsCached(t) == Cached(key[t]) /\ got[t] = instances[key[t]]

ResultsInv ==
    /\ \A t \in Thread :
          /\ pc[t] \in {"getRead", "fastRead"} => Cached(key[t])
          /\ Returned(t) => ReturnedIsCached(t)
    /\ \A t \in Thread : got[t] # KeyError

\* A thread in close_all has called it.
ClosedInv == \A t \in Thread : pc[t] \in Closing => ~NeverClosed

QuietInv == ClosedInv /\ (NeverClosed => EnginesInv /\ ResultsInv)

LEMMA InitQuiet == Init => QuietInv
  BY DEF Init, QuietInv, ClosedInv, EnginesInv, ResultsInv, OneEnginePerConnection,
     Returned, Cached, None, KeyError

LEMMA ClosesAreCounted ==
  ASSUME TypeOK, NEW t \in Thread, Starts(t) \/ Continues(t)
  PROVE  /\ ~NeverClosed => ~NeverClosed'
         /\ CloseAll(t) => ~NeverClosed'
<1>1. CASE Starts(t)
  BY <1>1 DEF Starts, CreateDatastore, GetDatastore, Construct, CloseAll, Call,
     TypeOK, NeverClosed
<1>2. CASE Continues(t)
  <2>1. calls' = calls
    BY <1>2 DEF Continues, GetCheck, GetRead, Creates, FastCheck, FastRead,
       LockInstances, DoubleCheck, LockEngines, EngineCheck, EngineStore,
       EngineFails, SchemaFast, LockSchema, SchemaCheck, CreateAll, SchemaAdd,
       CreateAllFails, Publish, Closes, CloseLock, Clear, DisposeLock, Dispose,
       ResetLock, Reset
  <2>2. ~CloseAll(t)
    BY <2>1 DEF CloseAll, Call, TypeOK
  <2>3. QED
    BY <2>1, <2>2 DEF NeverClosed
<1>3. QED
  BY <1>1, <1>2

LEMMA ClosedStep ==
  ASSUME TypeOK, ClosedInv, NEW t \in Thread, Starts(t) \/ Continues(t)
  PROVE  ClosedInv'
<1>1. \A u \in Thread \ {t} : Untouched(u)
  BY OthersStand
<1>2. SUFFICES pc'[t] \in Closing => ~NeverClosed'
  BY <1>1, ClosesAreCounted DEF ClosedInv, Untouched
<1>3. CASE Starts(t)
  BY <1>3, ClosesAreCounted DEF Starts, CreateDatastore, GetDatastore, Construct,
     Call, Goto, TypeOK
<1>4. CASE GetCheck(t) \/ GetRead(t)
  BY <1>4 DEF GetCheck, GetRead, ReadCache, Ends, Goto, TypeOK
<1>5. CASE Creates(t)
  BY <1>5 DEF Creates, FastCheck, FastRead, LockInstances, DoubleCheck,
     LockEngines, EngineCheck, EngineStore, EngineFails, SchemaFast, LockSchema,
     SchemaCheck, CreateAll, SchemaAdd, CreateAllFails, Publish, CreateReturns,
     Ends, Goto, TypeOK
<1>6. CASE Closes(t)
  BY <1>6, ClosesAreCounted DEF Closes, CloseLock, Clear, DisposeLock, Dispose,
     ResetLock, Reset, ClosedInv
<1>7. QED
  BY <1>3, <1>4, <1>5, <1>6 DEF Continues

LEMMA Distinct == /\ None \notin Instance /\ KeyError \notin Instance
                  /\ DatastoreError \notin Instance
                  /\ None # KeyError /\ None # DatastoreError
                  /\ KeyError # DatastoreError
  BY DEF None, KeyError, DatastoreError, Instance

LEMMA NobodyCloses ==
  ASSUME TypeOK, ClosedInv, NEW t \in Thread, Starts(t) \/ Continues(t), NeverClosed'
  PROVE  ~Closes(t) /\ ~CloseAll(t) /\ NeverClosed
<1>1. NeverClosed /\ ~CloseAll(t)
  BY ClosesAreCounted
<1>2. QED
  BY <1>1 DEF ClosedInv, Closes, CloseLock, Clear, DisposeLock, Dispose, ResetLock,
     Reset

(***************************************************************************)
(* Engines. EngineStore writes where, its holder saw under the lock, there *)
(* was none; nobody could have held that engine, since engines are not 0.  *)
(***************************************************************************)
LEMMA EnginesStep ==
  ASSUME NeverClosed', ClosedInv, IInv, EnginesInv, NEW t \in Thread, Starts(t) \/ Continues(t)
  PROVE  EnginesInv'
<1> USE ConnAssumption DEF IInv, TypeOK, EnginesInv, OneEnginePerConnection
<1>1. \A u \in Thread \ {t} : Untouched(u)
  BY OthersStand
<1>2. CASE EngineStore(t)
  <2>1. \A u \in Thread : pc[u] \in WithEngine => conn(u) # conn(t)
    BY <1>2 DEF EngineStore, EngineInv
  <2>2. \A u \in Thread \ {t} : pc[u] # "engineStore"
    BY <1>2 DEF EngineStore, LockInv, InEngines
  <2>3. \A k \in Key : Cached(k) => ConnOf[k] # conn(t)
    BY <1>2 DEF EngineStore, Instance, Cached
  <2>4. QED
    BY <1>1, <1>2, <2>1, <2>2, <2>3
    DEF EngineStore, Goto, Untouched, Cached, conn
<1>3. CASE EngineCheck(t)
  BY <1>1, <1>3 DEF EngineCheck, Goto, Untouched, Cached, conn, shared
<1>4. CASE Publish(t)
  <2>1. \A k \in Key : Cached(k)' =>
          \/ Cached(k) /\ instances'[k] = instances[k]
          \/ k = key[t] /\ instances'[k].engine = engine[t]
    BY <1>4 DEF Publish, Cached
  <2>2. pc'[t] \in {"getRead", "idle"}
    BY <1>4 DEF Publish, CreateReturns, Ends, Goto
  <2>3. QED
    BY <1>1, <1>4, <2>1, <2>2 DEF Publish, Untouched, conn
<1>5. CASE Starts(t) \/ GetCheck(t) \/ GetRead(t)
  BY <1>1, <1>5 DEF Starts, CreateDatastore, GetDatastore, Construct, CloseAll,
     Call, GetCheck, GetRead, ReadCache, Ends, Goto, Untouched, Cached, conn,
     shared, locals
<1>6. CASE FastCheck(t) \/ FastRead(t) \/ LockInstances(t) \/ DoubleCheck(t)
           \/ LockEngines(t) \/ EngineFails(t) \/ CreateAllFails(t)
  BY <1>1, <1>6 DEF FastCheck, FastRead, LockInstances, DoubleCheck, LockEngines,
     EngineFails, CreateAllFails, CreateReturns, Ends, Goto, Untouched, Cached,
     conn, shared, locals
<1>7. CASE SchemaFast(t) \/ LockSchema(t) \/ SchemaCheck(t) \/ CreateAll(t)
           \/ SchemaAdd(t)
  BY <1>1, <1>7 DEF SchemaFast, LockSchema, SchemaCheck, CreateAll, SchemaAdd,
     Goto, Untouched, Cached, conn, shared, locals
<1>8. QED
  BY <1>2, <1>3, <1>4, <1>5, <1>6, <1>7, NobodyCloses DEF Continues, Creates

(***************************************************************************)
(* Results. A key that was seen cached is still cached when it is read,    *)
(* and a result stays the cached one, since no other replaces it.          *)
(***************************************************************************)
LEMMA CacheOnlyGrows ==
  ASSUME NeverClosed', ClosedInv, IInv, NEW t \in Thread, Starts(t) \/ Continues(t)
  PROVE  \A k \in Key : Cached(k) => instances'[k] = instances[k]
<1>1. CASE Publish(t)
  BY <1>1 DEF Publish, IInv, TypeOK, OpInv, AbsentInv
<1>2. CASE Starts(t) \/ GetCheck(t) \/ GetRead(t)
  BY <1>2 DEF Starts, CreateDatastore, GetDatastore, Construct, CloseAll, Call,
     GetCheck, GetRead, shared
<1>3. CASE Creates(t) /\ ~Publish(t)
  BY <1>3 DEF Creates, FastCheck, FastRead, LockInstances, DoubleCheck,
     LockEngines, EngineCheck, EngineStore, EngineFails, SchemaFast, LockSchema,
     SchemaCheck, CreateAll, SchemaAdd, CreateAllFails, shared
<1>4. QED
  BY <1>1, <1>2, <1>3, NobodyCloses DEF IInv, Continues

LEMMA ResultsStep ==
  ASSUME NeverClosed', ClosedInv, IInv, ResultsInv, NEW t \in Thread, Starts(t) \/ Continues(t)
  PROVE  ResultsInv'
<1> USE Distinct DEF IInv, TypeOK, ResultsInv, Returned, ReturnedIsCached
<1>1. \A u \in Thread \ {t} : Untouched(u) /\ got'[u] = got[u]
  <2>1. \A u \in Thread \ {t} : got'[u] = got[u]
    BY NobodyCloses DEF Starts, CreateDatastore, GetDatastore, Construct, Call,
       Continues, GetCheck, GetRead, ReadCache, Creates, FastCheck, FastRead,
       LockInstances, DoubleCheck, LockEngines, EngineCheck, EngineStore,
       EngineFails, SchemaFast, LockSchema, SchemaCheck, CreateAll, SchemaAdd,
       CreateAllFails, Publish, CreateReturns, Ends, locals
  <2>2. QED
    BY <2>1, OthersStand
<1>2. \A k \in Key : Cached(k) => instances'[k] = instances[k] /\ Cached(k)'
  BY CacheOnlyGrows DEF Cached
<1>3. \A u \in Thread \ {t} :
        /\ pc'[u] \in {"getRead", "fastRead"} => Cached(key[u])'
        /\ Returned(u)' => ReturnedIsCached(u)'
        /\ got'[u] # KeyError
  BY <1>1, <1>2 DEF Untouched
<1>4. SUFFICES /\ pc'[t] \in {"getRead", "fastRead"} => Cached(key[t])'
               /\ Returned(t)' => ReturnedIsCached(t)'
               /\ got'[t] # KeyError
  BY <1>3
<1>5. CASE Publish(t)
  <2> DEFINE new == [id |-> made + 1, engine |-> engine[t]]
  <2>1. new \in Instance
    BY <1>5 DEF Publish, EngineInv, Instance
  <2>2. key'[t] = key[t] /\ op'[t] = op[t]
    BY <1>5 DEF Publish
  <2>3. CASE op[t] = "direct"
    BY <1>5, <2>1, <2>2, <2>3 DEF Publish, CreateReturns, Ends, Goto
  <2>4. CASE op[t] # "direct"
    <3>1. instances'[key[t]] = new /\ Cached(key[t])'
      BY <1>5, <2>1, <2>2, <2>4 DEF Publish, Cached
    <3>2. CASE op[t] = "get"
      BY <1>5, <2>2, <3>1, <3>2 DEF Publish, CreateReturns, Goto
    <3>3. CASE op[t] # "get"
      BY <1>5, <2>1, <2>2, <3>1, <3>3 DEF Publish, CreateReturns, Ends, Goto
    <3>4. QED
      BY <3>2, <3>3
  <2>5. QED
    BY <2>3, <2>4
<1>6. CASE FastRead(t) \/ DoubleCheck(t) \/ GetRead(t)
  <2>1. key'[t] = key[t] /\ op'[t] = op[t] /\ UNCHANGED instances
    BY <1>6 DEF FastRead, DoubleCheck, GetRead, shared
  <2>2. instances[key[t]] \in Instance \cup {None}
    OBVIOUS
  <2>3. CASE FastRead(t)
    BY <2>1, <2>2, <2>3 DEF FastRead, CreateReturns, Ends, Goto, Cached
  <2>4. CASE DoubleCheck(t)
    BY <2>1, <2>2, <2>4 DEF DoubleCheck, CreateReturns, Ends, Goto, Cached
  <2>5. CASE GetRead(t)
    BY <2>1, <2>2, <2>5 DEF GetRead, ReadCache, Ends, Goto, Cached
  <2>6. QED
    BY <1>6, <2>3, <2>4, <2>5
<1>7. CASE FastCheck(t) \/ GetCheck(t)
  BY <1>7 DEF FastCheck, GetCheck, Goto, Cached, shared, locals
<1>8. CASE Starts(t)
  BY <1>8, NobodyCloses DEF Starts, CreateDatastore, GetDatastore, Construct,
     Call, Goto
<1>9. CASE LockInstances(t) \/ LockEngines(t) \/ EngineCheck(t) \/ EngineStore(t)
           \/ EngineFails(t) \/ CreateAllFails(t)
  BY <1>9 DEF LockInstances, LockEngines, EngineCheck, EngineStore, EngineFails,
     CreateAllFails, Ends, Goto, OpInv, locals
<1>10. CASE SchemaFast(t) \/ LockSchema(t) \/ SchemaCheck(t) \/ CreateAll(t)
            \/ SchemaAdd(t)
  BY <1>10 DEF SchemaFast, LockSchema, SchemaCheck, CreateAll, SchemaAdd, Goto,
     locals
<1>11. QED
  BY <1>5, <1>6, <1>7, <1>8, <1>9, <1>10, NobodyCloses DEF Continues, Creates

LEMMA QuietHolds == Spec => []QuietInv
<1>1. IInv /\ QuietInv /\ [Next]_vars => QuietInv'
  <2> SUFFICES ASSUME IInv, QuietInv, [Next]_vars PROVE QuietInv'
    OBVIOUS
  <2>1. CASE Next
    <3>1. PICK t \in Thread : Starts(t) \/ Continues(t)
      BY <2>1 DEF Next
    <3>2. QED
      BY <3>1, ClosedStep, NobodyCloses, EnginesStep, ResultsStep DEF QuietInv, IInv
  <2>2. CASE UNCHANGED vars
    BY <2>2 DEF vars, shared, locks, locals, QuietInv, ClosedInv, NeverClosed,
       EnginesInv, ResultsInv, OneEnginePerConnection, Returned, ReturnedIsCached,
       Cached, conn
  <2>3. QED
    BY <2>1, <2>2
<1>2. QED
  BY IInvHolds, InitQuiet, <1>1, PTL DEF Spec

(***************************************************************************)
(* "One engine per connection string across all datastore types"           *)
(* (base_datastore.py), for as long as nothing disposes of the engines.    *)
(***************************************************************************)
THEOREM SharedEngine == Spec => []OneEngineUntilClosed
<1>1. QuietInv => OneEngineUntilClosed
  BY DEF QuietInv, EnginesInv, OneEngineUntilClosed
<1>2. QED
  BY QuietHolds, <1>1, PTL

(***************************************************************************)
(* Two calls with one key return one instance (create_datastore: "Get or   *)
(* create a datastore instance (singleton per type + connection params)"). *)
(***************************************************************************)
THEOREM Singletons == Spec => []OneInstancePerKey
<1>1. QuietInv => OneInstancePerKey
  BY DEF QuietInv, ResultsInv, ReturnedIsCached, OneInstancePerKey
<1>2. QED
  BY QuietHolds, <1>1, PTL

(***************************************************************************)
(* get_datastore never raises KeyError before something closes the factory. *)
(***************************************************************************)
THEOREM GetFindsItsInstance == Spec => []NoKeyError
<1>1. QuietInv => NoKeyError
  BY DEF QuietInv, ResultsInv, NoKeyError
<1>2. QED
  BY QuietHolds, <1>1, PTL

-----------------------------------------------------------------------------
(***************************************************************************)
(* The factory is a Registry, with close_all or without. A call looks      *)
(* without a lock, and what it saw may have gone when it reads: the        *)
(* Registry lets it fail then, if its table was emptied during the call.   *)
(***************************************************************************)
BehindInv ==
    \A t \in Thread : pc[t] \in {"getRead", "fastRead"} => Cached(key[t]) \/ t \in behind

\* Identities are used once: what is made next is nobody's yet.
IdsInv ==
    /\ \A k \in Key : instances[k].id <= made
    /\ \A t \in Thread : got[t].id <= made

\* close_all answers nothing.
CloserInv == \A t \in Thread : pc[t] \in Closing => got[t] = None

TableInv == IInv /\ BehindInv /\ IdsInv /\ CloserInv

LEMMA InitTable == Init => TableInv /\ Table!Init
<1> SUFFICES ASSUME Init PROVE TableInv /\ Table!Init
  OBVIOUS
<1>1. TableInv
  BY InitIInv DEF Init, TableInv, BehindInv, IdsInv, CloserInv, None
<1>2. Table!Init
  BY DEF Init, Table!Init, Doings, Doing
<1>3. QED
  BY <1>1, <1>2

(***************************************************************************)
(* A key that was seen in the cache leaves it only by Clear, which leaves  *)
(* every thread behind.                                                    *)
(***************************************************************************)
LEMMA BehindStep ==
  ASSUME IInv, BehindInv, NEW t \in Thread, Starts(t) \/ Continues(t)
  PROVE  BehindInv'
<1> USE DEF IInv, TypeOK, BehindInv
<1>1. \A u \in Thread \ {t} : Untouched(u)
  BY OthersStand
<1>2. CASE Clear(t)
  BY <1>2 DEF Clear
<1>3. CASE Publish(t)
  <2>1. \A k \in Key : Cached(k) => instances'[k] = instances[k]
    BY <1>3 DEF Publish, OpInv, AbsentInv
  <2>2. pc'[t] \in {"getRead", "fastRead"} => Cached(key[t])'
    BY <1>3 DEF Publish, CreateReturns, Ends, Goto, Cached, None
  <2>3. QED
    BY <1>1, <1>3, <2>1, <2>2 DEF Publish, Untouched, Cached
<1>4. CASE Starts(t)
  BY <1>1, <1>4 DEF Starts, CreateDatastore, GetDatastore, Construct, CloseAll,
     Call, Goto, Untouched, Cached, shared
<1>5. CASE GetCheck(t) \/ GetRead(t) \/ FastCheck(t) \/ FastRead(t) \/ DoubleCheck(t)
  BY <1>1, <1>5 DEF GetCheck, GetRead, ReadCache, FastCheck, FastRead, DoubleCheck,
     CreateReturns, Ends, Goto, Untouched, Cached, shared, locals
<1>6. CASE LockInstances(t) \/ LockEngines(t) \/ EngineCheck(t) \/ EngineStore(t)
           \/ EngineFails(t) \/ CreateAllFails(t)
  BY <1>1, <1>6 DEF LockInstances, LockEngines, EngineCheck, EngineStore,
     EngineFails, CreateAllFails, Ends, Goto, Untouched, Cached, shared, locals
<1>7. CASE SchemaFast(t) \/ LockSchema(t) \/ SchemaCheck(t) \/ CreateAll(t)
           \/ SchemaAdd(t)
  BY <1>1, <1>7 DEF SchemaFast, LockSchema, SchemaCheck, CreateAll, SchemaAdd,
     Goto, Untouched, Cached, shared, locals
<1>8. CASE CloseLock(t) \/ DisposeLock(t) \/ Dispose(t) \/ ResetLock(t) \/ Reset(t)
  BY <1>1, <1>8 DEF CloseLock, DisposeLock, Dispose, ResetLock, Reset, Goto,
     Untouched, Cached, shared, locals
<1>9. QED
  BY <1>2, <1>3, <1>4, <1>5, <1>6, <1>7, <1>8 DEF Continues, Creates, Closes

LEMMA IdsStep ==
  ASSUME IInv, IdsInv, NEW t \in Thread, Starts(t) \/ Continues(t)
  PROVE  IdsInv'
<1> USE DEF IInv, TypeOK, IdsInv, None, KeyError, DatastoreError, Instance
<1>1. CASE Publish(t)
  <2> DEFINE new == [id |-> made + 1, engine |-> engine[t]]
  <2>1. made' = made + 1
    BY <1>1 DEF Publish
  <2>2. \A k \in Key : instances'[k] \in {instances[k], new}
    BY <1>1 DEF Publish
  <2>3. \A u \in Thread : got'[u] \in {got[u], new}
    BY <1>1 DEF Publish, CreateReturns, Ends
  <2>4. \A i \in Instance \cup {None, KeyError, DatastoreError} :
          i.id <= made => i.id <= made + 1
    OBVIOUS
  <2>5. new.id <= made + 1
    OBVIOUS
  <2> HIDE DEF new
  <2>6. \A k \in Key : instances'[k].id <= made + 1
    BY <2>2, <2>4, <2>5
  <2>7. \A u \in Thread : got'[u].id <= made + 1
    BY <2>3, <2>4, <2>5
  <2>8. QED
    BY <2>1, <2>6, <2>7
<1>2. CASE Clear(t)
  <2>1. /\ \A k \in Key : instances'[k] = None
        /\ UNCHANGED <<got, made>>
    BY <1>2 DEF Clear, locals
  <2>2. None.id <= made
    OBVIOUS
  <2>3. QED
    BY <2>1, <2>2
<1>3. CASE Starts(t)
  BY <1>3 DEF Starts, CreateDatastore, GetDatastore, Construct, CloseAll, Call,
     shared
<1>4. CASE GetCheck(t) \/ GetRead(t) \/ FastCheck(t) \/ FastRead(t) \/ DoubleCheck(t)
  <2>1. UNCHANGED <<instances, made>>
    BY <1>4 DEF GetCheck, GetRead, FastCheck, FastRead, DoubleCheck, shared
  <2>2. \A u \in Thread : got'[u] \in {got[u], instances[key[t]], KeyError}
    BY <1>4 DEF GetCheck, GetRead, ReadCache, FastCheck, FastRead, DoubleCheck,
       CreateReturns, Ends, locals
  <2>3. instances[key[t]].id <= made /\ KeyError.id <= made
    OBVIOUS
  <2>4. \A u \in Thread : got'[u].id <= made
    BY <2>2, <2>3
  <2>5. QED
    BY <2>1, <2>4
<1>5. CASE LockInstances(t) \/ LockEngines(t) \/ EngineCheck(t) \/ EngineFails(t)
           \/ CreateAllFails(t)
  <2>1. /\ UNCHANGED <<instances, made>>
        /\ \A u \in Thread : got'[u] \in {got[u], DatastoreError}
    BY <1>5 DEF LockInstances, LockEngines, EngineCheck, EngineFails,
       CreateAllFails, Ends, shared, locals
  <2>2. DatastoreError.id <= made
    OBVIOUS
  <2>3. QED
    BY <2>1, <2>2
<1>6. CASE EngineStore(t)
  <2>1. made' = made + 1 /\ UNCHANGED <<instances, got>>
    BY <1>6 DEF EngineStore
  <2>2. \A i \in Instance \cup {None, KeyError, DatastoreError} :
          i.id <= made => i.id <= made + 1
    OBVIOUS
  <2>3. QED
    BY <2>1, <2>2
<1>7. CASE SchemaFast(t) \/ LockSchema(t) \/ SchemaCheck(t) \/ CreateAll(t)
           \/ SchemaAdd(t)
  BY <1>7 DEF SchemaFast, LockSchema, SchemaCheck, CreateAll, SchemaAdd,
     shared, locals
<1>8. CASE CloseLock(t) \/ DisposeLock(t) \/ Dispose(t) \/ ResetLock(t) \/ Reset(t)
  BY <1>8 DEF CloseLock, DisposeLock, Dispose, ResetLock, Reset, shared, locals
<1>9. QED
  BY <1>1, <1>2, <1>3, <1>4, <1>5, <1>6, <1>7, <1>8 DEF Continues, Creates, Closes

LEMMA CloserStep ==
  ASSUME IInv, CloserInv, NEW t \in Thread, Starts(t) \/ Continues(t)
  PROVE  CloserInv'
<1> USE DEF IInv, TypeOK, CloserInv
<1>1. \A u \in Thread \ {t} : Untouched(u) /\ got'[u] = got[u]
  BY OthersStand DEF Starts, CreateDatastore, GetDatastore, Construct, CloseAll, Call,
     Continues, GetCheck, GetRead, ReadCache, Creates, FastCheck, FastRead,
     LockInstances, DoubleCheck, LockEngines, EngineCheck, EngineStore, EngineFails,
     SchemaFast, LockSchema, SchemaCheck, CreateAll, SchemaAdd, CreateAllFails, Publish,
     Closes, CloseLock, Clear, DisposeLock, Dispose, ResetLock, Reset, CreateReturns,
     Ends, locals
<1>2. SUFFICES pc'[t] \in Closing => got'[t] = None
  BY <1>1 DEF Untouched
<1>3. CASE Starts(t)
  BY <1>3 DEF Starts, CreateDatastore, GetDatastore, Construct, CloseAll, Call, Goto
<1>4. CASE GetCheck(t) \/ GetRead(t) \/ Creates(t)
  <2>1. pc'[t] \notin Closing
    BY <1>4 DEF GetCheck, GetRead, ReadCache, Creates, FastCheck, FastRead,
       LockInstances, DoubleCheck, LockEngines, EngineCheck, EngineStore, EngineFails,
       SchemaFast, LockSchema, SchemaCheck, CreateAll, SchemaAdd, CreateAllFails,
       Publish, CreateReturns, Ends, Goto
  <2>2. QED
    BY <2>1
<1>5. CASE Closes(t)
  BY <1>5 DEF Closes, CloseLock, Clear, DisposeLock, Dispose, ResetLock, Reset, Goto,
     locals
<1>6. QED
  BY <1>3, <1>4, <1>5 DEF Continues

(***************************************************************************)
(* A step changes what its own thread is doing and no other's.             *)
(***************************************************************************)
LEMMA DoingsStep ==
  ASSUME TypeOK, NEW t \in Thread, Starts(t) \/ Continues(t)
  PROVE  Doings' = [Doings EXCEPT ![t] = Doing(t)']
<1>1. \A u \in Thread \ {t} : Doing(u)' = Doing(u)
  BY OthersStand DEF Untouched, Doing
<1>2. QED
  BY <1>1 DEF Doings

LEMMA DoingOf == ASSUME NEW t \in Thread PROVE Doings[t] = Doing(t)
  BY DEF Doings

(***************************************************************************)
(* Where each call takes effect: a look that succeeds at the read, a       *)
(* construction where it is published, close_all where it clears.          *)
(***************************************************************************)
TableIdle == UNCHANGED <<instances, Doings, key, got, behind>>

LEMMA NoEffect ==
  ASSUME TypeOK, NEW t \in Thread, Starts(t) \/ Continues(t),
         UNCHANGED <<instances, key, got, behind>>, Doing(t)' = Doing(t)
  PROVE  TableIdle
<1>1. Doings' = [Doings EXCEPT ![t] = Doings[t]]
  BY DoingsStep, DoingOf
<1>2. QED
  BY <1>1 DEF Doings, TableIdle

LEMMA CallAsks ==
  ASSUME IInv, NEW t \in Thread, Starts(t)
  PROVE  Table!Ask(t)
<1>1. PICK name \in {"create", "get", "direct", "close"}, k \in Key,
           label \in {"fast", "getCheck", "engineLock", "closeLock"} :
        Call(t, name, k, label)
  BY DEF Starts, CreateDatastore, GetDatastore, Construct, CloseAll
<1>2. Doings[t] = "nothing" /\ Doing(t)' = name
  BY <1>1, DoingOf DEF Call, Goto, Doing, Emptied, IInv, TypeOK
<1>3. Doings' = [Doings EXCEPT ![t] = name]
  BY <1>2, DoingsStep DEF IInv
<1>4. QED
  BY <1>1, <1>2, <1>3 DEF Call, Table!Ask, shared

\* A call that ends in its thread's answer.
LEMMA EndsAnswers ==
  ASSUME IInv, NEW t \in Thread, Starts(t) \/ Continues(t), NEW result, Ends(t, result)
  PROVE  Table!Answers(t, result)
<1>1. Doing(t)' = "nothing"
  BY DEF Ends, Goto, Doing, IInv, TypeOK
<1>2. QED
  BY <1>1, DoingsStep DEF Ends, Table!Answers, IInv

LEMMA ReadFinds ==
  ASSUME TableInv, NEW t \in Thread, GetRead(t) \/ FastRead(t) \/ DoubleCheck(t)
  PROVE  Table!Find(t) \/ Table!Miss(t) \/ TableIdle
<1> USE DEF TableInv, IInv
<1>1. Continues(t) /\ UNCHANGED <<instances, key, behind>>
  BY DEF Continues, Creates, GetRead, FastRead, DoubleCheck, shared
<1>2. Doings[t] \in {"create", "get"} /\ Doing(t) = op[t]
  BY DoingOf DEF Doing, Emptied, OpInv, GetRead, FastRead, DoubleCheck
<1>3. CASE Cached(key[t]) /\ Ends(t, instances[key[t]])
  BY <1>1, <1>2, <1>3, EndsAnswers DEF Table!Find, Table!Looks, Table!Here, Cached
<1>4. CASE ~Cached(key[t]) /\ Ends(t, KeyError) /\ t \in behind
  BY <1>1, <1>2, <1>4, EndsAnswers DEF Table!Miss, Table!Looks, Table!Here, Cached
\* Inside get_datastore: the cache is read again.
<1>5. CASE Goto(t, "getRead") \/ Goto(t, "engineLock")
  <2>1. UNCHANGED <<got, op>>
    BY <1>5 DEF GetRead, ReadCache, FastRead, DoubleCheck, CreateReturns, Ends, Goto,
       TypeOK
  <2>2. Doing(t)' = Doing(t)
    BY <1>2, <1>5, <2>1 DEF Goto, Doing, Emptied, TypeOK
  <2>3. QED
    BY <1>1, <2>1, <2>2, NoEffect
<1>6. QED
  BY <1>3, <1>4, <1>5 DEF GetRead, ReadCache, FastRead, DoubleCheck, CreateReturns,
     BehindInv

LEMMA PublishMakes ==
  ASSUME TableInv, NEW t \in Thread, Publish(t)
  PROVE  Table!Make(t) \/ Table!Build(t)
<1> USE DEF TableInv, IInv, TypeOK
<1> DEFINE new == [id |-> made + 1, engine |-> engine[t]]
<1>1. Continues(t) /\ UNCHANGED <<key, op, behind>>
  BY DEF Continues, Creates, Publish
<1>2. Doings[t] = op[t] /\ op[t] \in {"create", "get", "direct"}
  BY DoingOf DEF Doing, Emptied, OpInv, Publish
<1>3. Table!New(new)
  <2>1. new \in Instance
    BY DEF Publish, EngineInv, Instance
  <2>2. \A i \in Instance \cup {None, KeyError, DatastoreError} : i.id <= made => i # new
    BY DEF None, KeyError, DatastoreError, Instance
  <2>3. QED
    BY <2>1, <2>2 DEF Table!New, IdsInv
<1> HIDE DEF new
<1>4. CASE op[t] = "direct"
  <2>1. Ends(t, new) /\ got'[t] = new /\ UNCHANGED instances
    BY <1>4 DEF Publish, CreateReturns, Ends, new
  <2>2. QED
    BY <1>1, <1>2, <1>3, <1>4, <2>1, EndsAnswers DEF Table!Build
<1>5. CASE op[t] # "direct"
  <2>1. /\ instances[key[t]] = None
        /\ instances' = [instances EXCEPT ![key[t]] = new]
        /\ instances'[key[t]] = new
    BY <1>5 DEF Publish, AbsentInv, Cached, new
  <2>2. CASE op[t] = "create"
    <3>1. Ends(t, new)
      BY <2>2 DEF Publish, CreateReturns, new
    <3>2. QED
      BY <1>1, <1>2, <1>3, <2>1, <2>2, <3>1, EndsAnswers
      DEF Table!Make, Table!Looks, Table!Here
  <2>3. CASE op[t] = "get"
    <3>1. UNCHANGED got /\ Doing(t)' = Doing(t)
      BY <2>3 DEF Publish, CreateReturns, Goto, Doing, Emptied
    <3>2. Doings' = [Doings EXCEPT ![t] = Doings[t]]
      BY <1>1, <3>1, DoingsStep, DoingOf
    <3>3. UNCHANGED Doings
      BY <3>2 DEF Doings
    <3>4. QED
      BY <1>1, <1>2, <1>3, <2>1, <2>3, <3>1, <3>3
      DEF Table!Make, Table!Looks, Table!Here
  <2>4. QED
    BY <1>2, <1>5, <2>2, <2>3
<1>6. QED
  BY <1>4, <1>5

\* It holds the lock, so there is still no instance when it fails.
LEMMA FailureFails ==
  ASSUME TableInv, NEW t \in Thread, EngineFails(t) \/ CreateAllFails(t)
  PROVE  Table!Fail(t)
<1> USE DEF TableInv, IInv
<1>1. Continues(t) /\ UNCHANGED <<instances, key, behind>> /\ Ends(t, DatastoreError)
  BY DEF Continues, Creates, EngineFails, CreateAllFails, shared
<1>2. Doings[t] = op[t] /\ op[t] \in {"create", "get", "direct"}
  BY DoingOf DEF Doing, Emptied, OpInv, EngineFails, CreateAllFails
<1>3. op[t] # "direct" => instances[key[t]] = None
  BY DEF AbsentInv, Cached, EngineFails, CreateAllFails
<1>4. QED
  BY <1>1, <1>2, <1>3, EndsAnswers DEF Table!Fail, Table!Looks, Table!Here

LEMMA ClosingEmpties ==
  ASSUME TableInv, NEW t \in Thread, Closes(t)
  PROVE  Table!Empty(t) \/ Table!Closed(t) \/ TableIdle
<1> USE DEF TableInv, IInv, TypeOK, Closes
<1>1. Continues(t) /\ UNCHANGED <<key, op, got>>
  BY DEF Continues, CloseLock, Clear, DisposeLock, Dispose, ResetLock, Reset, locals
<1>2. op[t] = "close"
  BY DEF OpInv, CloseLock, Clear, DisposeLock, Dispose, ResetLock, Reset
<1>3. CASE Clear(t)
  <2>1. Doings[t] = "close" /\ Doing(t)' = "closed"
    BY <1>2, <1>3, DoingOf DEF Clear, Doing, Emptied, Goto
  <2>2. QED
    BY <1>1, <1>3, <2>1, DoingsStep DEF Clear, Table!Empty
<1>4. CASE Reset(t)
  <2>1. Doings[t] = "closed" /\ Doing(t)' = "nothing"
    BY <1>4, DoingOf DEF Reset, Doing, Emptied, Goto
  <2>2. got[t] = None
    BY <1>4 DEF Reset, CloserInv
  <2>3. QED
    BY <1>1, <1>4, <2>1, <2>2, DoingsStep DEF Reset, Table!Closed, Table!Answers
<1>5. CASE CloseLock(t) \/ DisposeLock(t) \/ Dispose(t) \/ ResetLock(t)
  <2>1. UNCHANGED <<instances, behind>> /\ Doing(t)' = Doing(t)
    BY <1>2, <1>5 DEF CloseLock, DisposeLock, Dispose, ResetLock, Doing, Emptied,
       Goto, shared, locals
  <2>2. QED
    BY <1>1, <2>1, NoEffect
<1>6. QED
  BY <1>3, <1>4, <1>5

LEMMA RestIsIdle ==
  ASSUME TableInv, NEW t \in Thread,
         \/ GetCheck(t) \/ FastCheck(t) \/ LockInstances(t) \/ LockEngines(t)
         \/ EngineCheck(t) \/ EngineStore(t) \/ SchemaFast(t) \/ LockSchema(t)
         \/ SchemaCheck(t) \/ CreateAll(t) \/ SchemaAdd(t)
  PROVE  TableIdle
<1> USE DEF TableInv, IInv, TypeOK
<1>1. Continues(t)
  BY DEF Continues, Creates
<1>2. UNCHANGED <<instances, key, op, got, behind>>
  BY DEF GetCheck, FastCheck, LockInstances, LockEngines, EngineCheck, EngineStore,
     SchemaFast, LockSchema, SchemaCheck, CreateAll, SchemaAdd, shared, locals
<1>3. Doing(t) = op[t] /\ Doing(t)' = op'[t]
  BY DEF GetCheck, FastCheck, LockInstances, LockEngines, EngineCheck, EngineStore,
     SchemaFast, LockSchema, SchemaCheck, CreateAll, SchemaAdd, Goto, Doing, Emptied
<1>4. QED
  BY <1>1, <1>2, <1>3, NoEffect

LEMMA TableStep ==
  ASSUME TableInv, [Next]_vars
  PROVE  Table!Next \/ TableIdle
<1>1. CASE UNCHANGED vars
  BY <1>1 DEF vars, shared, locals, TableIdle, Doings, Doing
<1>2. CASE Next
  <2>1. PICK t \in Thread : Starts(t) \/ Continues(t)
    BY <1>2 DEF Next
  <2>2. QED
    BY <2>1, CallAsks, ReadFinds, PublishMakes, FailureFails, ClosingEmpties,
       RestIsIdle DEF TableInv, Continues, Creates, Table!Next
<1>3. QED
  BY <1>1, <1>2

LEMMA TableInvHolds == Spec => []TableInv
<1>1. TableInv /\ [Next]_vars => TableInv'
  <2> SUFFICES ASSUME TableInv, [Next]_vars PROVE TableInv'
    OBVIOUS
  <2>1. CASE Next
    BY <2>1, IInvInductive, BehindStep, IdsStep, CloserStep DEF TableInv, Next
  <2>2. CASE UNCHANGED vars
    BY <2>2, IInvInductive DEF vars, shared, locals, TableInv, BehindInv, IdsInv,
       CloserInv, Cached
  <2>3. QED
    BY <2>1, <2>2
<1>2. QED
  BY InitTable, <1>1, PTL DEF Spec

(***************************************************************************)
(* Every call of create_datastore, get_datastore, close_all and of a       *)
(* constructor takes effect in one step of an atomic registry, whatever    *)
(* the other threads do: the locks and the reads without one implement it. *)
(***************************************************************************)
THEOREM FactoryRefinesRegistry == Spec => ActsAsRegistry
<1>1. Init => Table!Init
  BY InitTable
<1>2. TableInv /\ [Next]_vars
      => [Table!Next]_<<instances, Doings, key, got, behind>>
  BY TableStep DEF TableIdle
<1>3. QED
  BY <1>1, <1>2, TableInvHolds, PTL DEF Spec, ActsAsRegistry, Table!Spec
=============================================================================
