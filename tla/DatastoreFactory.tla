-------------------------- MODULE DatastoreFactory --------------------------
(***************************************************************************)
(* The singleton cache of datastores (datastore_factory.py) over the       *)
(* shared engines and the once-only schema creation of base_datastore.py,  *)
(* called by the threads of one process.                                   *)
(*                                                                         *)
(* Three locks: _instances_lock around construction and close_all's clear, *)
(* _engine_lock around the engine table, _schema_lock around create_all.   *)
(* A step is what one thread does between two points where another can be  *)
(* scheduled: one dictionary or set operation, one lock operation.         *)
(*                                                                         *)
(* An instance is its identity and the engine it holds; an engine is its   *)
(* identity. Keys stand for `type|connection|encryption key`.              *)
(***************************************************************************)
EXTENDS Integers

CONSTANTS
    Thread,    \* the threads of the process
    Key,       \* cache keys of the factory
    Conn,      \* connection strings
    ConnOf,    \* key |-> the connection string in it
    Closer,    \* the threads that may call close_all
    Builder,   \* the threads that may construct a datastore directly
    NoThread,  \* a free lock
    MaxCalls   \* bound: the calls of one behaviour

ASSUME ThreadAssumption ==
    /\ Closer \subseteq Thread
    /\ Builder \subseteq Thread
    /\ NoThread \notin Thread
ASSUME ConnAssumption == ConnOf \in [Key -> Conn]
ASSUME CallsAssumption == MaxCalls \in Nat

VARIABLES
    instances,   \* DatastoreFactory._instances
    engines,     \* BaseDatastore._engines, 0 where there is none
    schema,      \* BaseDatastore._schema_initialized
    instLock, engineLock, schemaLock,
    pc,          \* the step each thread is at
    op,          \* the call it is in, or was in last
    key,         \* that call's key
    engine,      \* the engine of the datastore it is constructing
    got,         \* what its last call returned or raised
    made,        \* engines and instances made so far: the next identity
    calls,       \* calls so far, and those of close_all among them
    created,     \* history: connections on which create_all has completed
    behind       \* history: threads that have begun no call since the cache was emptied

shared == <<instances, engines, schema>>
locks  == <<instLock, engineLock, schemaLock>>
locals == <<op, key, engine, got>>
history == <<created, behind>>
vars   == <<shared, locks, pc, locals, made, calls, history>>

None          == [id |-> 0, engine |-> 0]
KeyError      == [id |-> -1, engine |-> 0]
DatastoreError == [id |-> -2, engine |-> 0]
Instance == [id : Nat \ {0}, engine : Nat \ {0}]

Op == {"none", "create", "get", "direct", "close"}
PC == {"idle", "getCheck", "getRead", "fast", "fastRead", "lock", "check",
       "engineLock", "engineCheck", "engineStore", "schemaFast", "schemaLock",
       "schemaCheck", "createAll", "schemaAdd", "publish",
       "closeLock", "clear", "disposeLock", "dispose", "resetLock", "reset"}

conn(t) == ConnOf[key[t]]
Cached(k) == instances[k] # None

Goto(t, label) == pc' = [pc EXCEPT ![t] = label]

\* The call ends: the thread has a result, or an exception.
Ends(t, result) ==
    /\ got' = [got EXCEPT ![t] = result]
    /\ Goto(t, "idle")

\* create_datastore returns; inside get_datastore its result is dropped and
\* the cache is read again.
CreateReturns(t, result) ==
    IF op[t] = "get"
    THEN Goto(t, "getRead") /\ UNCHANGED got
    ELSE Ends(t, result)

\* Leaving the constructor: the factory's lock is released, if it was taken.
LeaveFactory(t) == instLock' = IF op[t] = "direct" THEN instLock ELSE NoThread

-----------------------------------------------------------------------------
(***************************************************************************)
(* The calls.                                                              *)
(***************************************************************************)
Call(t, name, k, label) ==
    /\ pc[t] = "idle"
    /\ calls.all < MaxCalls
    /\ calls' = [all |-> calls.all + 1,
                 close |-> calls.close + IF name = "close" THEN 1 ELSE 0]
    /\ op' = [op EXCEPT ![t] = name]
    /\ key' = [key EXCEPT ![t] = k]
    /\ engine' = [engine EXCEPT ![t] = 0]
    /\ got' = [got EXCEPT ![t] = None]
    /\ Goto(t, label)
    /\ behind' = behind \ {t}
    /\ UNCHANGED <<shared, locks, made, created>>

CreateDatastore(t) == \E k \in Key : Call(t, "create", k, "fast")
GetDatastore(t)    == \E k \in Key : Call(t, "get", k, "getCheck")
\* seed_child_capability_state constructs its datastore without the factory.
Construct(t) == t \in Builder /\ \E k \in Key : Call(t, "direct", k, "engineLock")
CloseAll(t)  == t \in Closer /\ \E k \in Key : Call(t, "close", k, "closeLock")

-----------------------------------------------------------------------------
(***************************************************************************)
(* get_datastore: a check, a creation when it fails, and a read.           *)
(***************************************************************************)
GetCheck(t) ==
    /\ pc[t] = "getCheck"
    /\ Goto(t, IF Cached(key[t]) THEN "getRead" ELSE "fast")
    /\ UNCHANGED <<shared, locks, locals, made, calls, history>>

\* _instances[key] raises KeyError when the key has gone since it was seen.
ReadCache(t) ==
    Ends(t, IF Cached(key[t]) THEN instances[key[t]] ELSE KeyError)

GetRead(t) ==
    /\ pc[t] = "getRead"
    /\ ReadCache(t)
    /\ UNCHANGED <<shared, locks, op, key, engine, made, calls, history>>

(***************************************************************************)
(* create_datastore: the fast path, then the lock and a second check.      *)
(***************************************************************************)
FastCheck(t) ==
    /\ pc[t] = "fast"
    /\ Goto(t, IF Cached(key[t]) THEN "fastRead" ELSE "lock")
    /\ UNCHANGED <<shared, locks, locals, made, calls, history>>

FastRead(t) ==
    /\ pc[t] = "fastRead"
    /\ IF Cached(key[t]) THEN CreateReturns(t, instances[key[t]])
                         ELSE Ends(t, KeyError)
    /\ UNCHANGED <<shared, locks, op, key, engine, made, calls, history>>

LockInstances(t) ==
    /\ pc[t] = "lock"
    /\ instLock = NoThread
    /\ instLock' = t
    /\ Goto(t, "check")
    /\ UNCHANGED <<shared, engineLock, schemaLock, locals, made, calls, history>>

\* Mutant of DoubleCheck: the second look at the cache is missing.
NoDoubleCheck(t) ==
    /\ pc[t] = "check"
    /\ Goto(t, "engineLock")
    /\ UNCHANGED <<shared, locks, locals, made, calls, history>>

DoubleCheck(t) ==
    /\ pc[t] = "check"
    /\ IF Cached(key[t])
       THEN CreateReturns(t, instances[key[t]]) /\ LeaveFactory(t)
       ELSE Goto(t, "engineLock") /\ UNCHANGED <<instLock, got>>
    /\ UNCHANGED <<shared, engineLock, schemaLock, op, key, engine, made, calls,
                   history>>

(***************************************************************************)
(* The constructor: the shared engine of the connection string.            *)
(***************************************************************************)
\* Mutant of LockEngines: the engine table is used without waiting its turn.
LockEnginesNoWait(t) ==
    /\ pc[t] = "engineLock"
    /\ engineLock' = t
    /\ Goto(t, "engineCheck")
    /\ UNCHANGED <<shared, instLock, schemaLock, locals, made, calls, history>>

LockEngines(t) ==
    /\ pc[t] = "engineLock"
    /\ engineLock = NoThread
    /\ engineLock' = t
    /\ Goto(t, "engineCheck")
    /\ UNCHANGED <<shared, instLock, schemaLock, locals, made, calls, history>>

EngineCheck(t) ==
    /\ pc[t] = "engineCheck"
    /\ IF engines[conn(t)] = 0
       THEN Goto(t, "engineStore") /\ UNCHANGED <<engine, engineLock>>
       ELSE /\ engine' = [engine EXCEPT ![t] = engines[conn(t)]]
            /\ engineLock' = NoThread
            /\ Goto(t, "schemaFast")
    /\ UNCHANGED <<shared, instLock, schemaLock, op, key, got, made, calls,
                   history>>

\* Mutant of EngineStore: the datastore does not keep the engine it made.
StoreForgets(t) ==
    /\ pc[t] = "engineStore"
    /\ made' = made + 1
    /\ engines' = [engines EXCEPT ![conn(t)] = made + 1]
    /\ engineLock' = NoThread
    /\ Goto(t, "schemaFast")
    /\ UNCHANGED <<instances, schema, instLock, schemaLock, locals, calls,
                   history>>

EngineStore(t) ==
    /\ pc[t] = "engineStore"
    /\ made' = made + 1
    /\ engines' = [engines EXCEPT ![conn(t)] = made + 1]
    /\ engine' = [engine EXCEPT ![t] = made + 1]
    /\ engineLock' = NoThread
    /\ Goto(t, "schemaFast")
    /\ UNCHANGED <<instances, schema, instLock, schemaLock, op, key, got, calls,
                   history>>

\* create_engine raises: both locks are left by the exception.
EngineFails(t) ==
    /\ pc[t] = "engineStore"
    /\ engineLock' = NoThread
    /\ LeaveFactory(t)
    /\ Ends(t, DatastoreError)
    /\ UNCHANGED <<shared, schemaLock, op, key, engine, made, calls, history>>

(***************************************************************************)
(* _ensure_schema: create_all once per connection string.                  *)
(***************************************************************************)
SchemaFast(t) ==
    /\ pc[t] = "schemaFast"
    /\ Goto(t, IF conn(t) \in schema THEN "publish" ELSE "schemaLock")
    /\ UNCHANGED <<shared, locks, locals, made, calls, history>>

LockSchema(t) ==
    /\ pc[t] = "schemaLock"
    /\ schemaLock = NoThread
    /\ schemaLock' = t
    /\ Goto(t, "schemaCheck")
    /\ UNCHANGED <<shared, instLock, engineLock, locals, made, calls, history>>

\* Mutant of SchemaCheck: the connection is marked before create_all.
MarkFirst(t) ==
    /\ pc[t] = "schemaCheck"
    /\ IF conn(t) \in schema
       THEN schemaLock' = NoThread /\ Goto(t, "publish") /\ UNCHANGED schema
       ELSE /\ schema' = schema \cup {conn(t)}
            /\ Goto(t, "createAll")
            /\ UNCHANGED schemaLock
    /\ UNCHANGED <<instances, engines, instLock, engineLock, locals, made,
                   calls, history>>

SchemaCheck(t) ==
    /\ pc[t] = "schemaCheck"
    /\ IF conn(t) \in schema
       THEN schemaLock' = NoThread /\ Goto(t, "publish")
       ELSE Goto(t, "createAll") /\ UNCHANGED schemaLock
    /\ UNCHANGED <<shared, instLock, engineLock, locals, made, calls, history>>

CreateAll(t) ==
    /\ pc[t] = "createAll"
    /\ created' = created \cup {conn(t)}
    /\ Goto(t, "schemaAdd")
    /\ UNCHANGED <<shared, locks, locals, made, calls, behind>>

SchemaAdd(t) ==
    /\ pc[t] = "schemaAdd"
    /\ schema' = schema \cup {conn(t)}
    /\ schemaLock' = NoThread
    /\ Goto(t, "publish")
    /\ UNCHANGED <<instances, engines, instLock, engineLock, locals, made, calls,
                   history>>

\* Mutant of CreateAllFails: the factory's lock is not given back.
CreateAllFailsHolding(t) ==
    /\ pc[t] = "createAll"
    /\ schemaLock' = NoThread
    /\ Ends(t, DatastoreError)
    /\ UNCHANGED <<shared, instLock, engineLock, op, key, engine, made, calls,
                   history>>

\* The database is away: create_all raises, and both locks are left.
CreateAllFails(t) ==
    /\ pc[t] = "createAll"
    /\ schemaLock' = NoThread
    /\ LeaveFactory(t)
    /\ Ends(t, DatastoreError)
    /\ UNCHANGED <<shared, engineLock, op, key, engine, made, calls, history>>

\* Mutant of Publish: the new instance is returned but not cached.
PublishNothing(t) ==
    /\ pc[t] = "publish"
    /\ made' = made + 1
    /\ LET new == [id |-> made + 1, engine |-> engine[t]] IN
          /\ UNCHANGED instances
          /\ CreateReturns(t, new)
    /\ LeaveFactory(t)
    /\ UNCHANGED <<engines, schema, engineLock, schemaLock, op, key, engine,
                   calls, history>>

\* The constructor is done; the factory caches what it built.
Publish(t) ==
    /\ pc[t] = "publish"
    /\ made' = made + 1
    /\ LET new == [id |-> made + 1, engine |-> engine[t]] IN
          /\ IF op[t] = "direct"
             THEN UNCHANGED instances
             ELSE instances' = [instances EXCEPT ![key[t]] = new]
          /\ CreateReturns(t, new)
    /\ LeaveFactory(t)
    /\ UNCHANGED <<engines, schema, engineLock, schemaLock, op, key, engine,
                   calls, history>>

-----------------------------------------------------------------------------
(***************************************************************************)
(* close_all: the instances under their lock, then, with that lock free    *)
(* again, the engines under theirs, then the schema marks under theirs.    *)
(***************************************************************************)
CloseLock(t) ==
    /\ pc[t] = "closeLock"
    /\ instLock = NoThread
    /\ instLock' = t
    /\ Goto(t, "clear")
    /\ UNCHANGED <<shared, engineLock, schemaLock, locals, made, calls, history>>

Clear(t) ==
    /\ pc[t] = "clear"
    /\ instances' = [k \in Key |-> None]
    /\ instLock' = NoThread
    /\ behind' = Thread
    /\ Goto(t, "disposeLock")
    /\ UNCHANGED <<engines, schema, engineLock, schemaLock, locals, made, calls,
                   created>>

DisposeLock(t) ==
    /\ pc[t] = "disposeLock"
    /\ engineLock = NoThread
    /\ engineLock' = t
    /\ Goto(t, "dispose")
    /\ UNCHANGED <<shared, instLock, schemaLock, locals, made, calls, history>>

Dispose(t) ==
    /\ pc[t] = "dispose"
    /\ engines' = [c \in Conn |-> 0]
    /\ engineLock' = NoThread
    /\ Goto(t, "resetLock")
    /\ UNCHANGED <<instances, schema, instLock, schemaLock, locals, made, calls,
                   history>>

ResetLock(t) ==
    /\ pc[t] = "resetLock"
    /\ schemaLock = NoThread
    /\ schemaLock' = t
    /\ Goto(t, "reset")
    /\ UNCHANGED <<shared, instLock, engineLock, locals, made, calls, history>>

Reset(t) ==
    /\ pc[t] = "reset"
    /\ schema' = {}
    /\ schemaLock' = NoThread
    /\ Goto(t, "idle")
    /\ UNCHANGED <<instances, engines, instLock, engineLock, locals, made, calls,
                   history>>

-----------------------------------------------------------------------------
Init ==
    /\ instances = [k \in Key |-> None]
    /\ engines = [c \in Conn |-> 0]
    /\ schema = {}
    /\ instLock = NoThread
    /\ engineLock = NoThread
    /\ schemaLock = NoThread
    /\ pc = [t \in Thread |-> "idle"]
    /\ op = [t \in Thread |-> "none"]
    /\ \E k \in Key : key = [t \in Thread |-> k]
    /\ engine = [t \in Thread |-> 0]
    /\ got = [t \in Thread |-> None]
    /\ made = 0
    /\ calls = [all |-> 0, close |-> 0]
    /\ created = {}
    /\ behind = {}

Starts(t) == CreateDatastore(t) \/ GetDatastore(t) \/ Construct(t) \/ CloseAll(t)

Creates(t) ==
    \/ FastCheck(t) \/ FastRead(t) \/ LockInstances(t) \/ DoubleCheck(t)
    \/ LockEngines(t) \/ EngineCheck(t) \/ EngineStore(t) \/ EngineFails(t)
    \/ SchemaFast(t) \/ LockSchema(t) \/ SchemaCheck(t) \/ CreateAll(t)
    \/ SchemaAdd(t) \/ CreateAllFails(t) \/ Publish(t)

Closes(t) ==
    \/ CloseLock(t) \/ Clear(t) \/ DisposeLock(t) \/ Dispose(t)
    \/ ResetLock(t) \/ Reset(t)

Continues(t) == GetCheck(t) \/ GetRead(t) \/ Creates(t) \/ Closes(t)

Next == \E t \in Thread : Starts(t) \/ Continues(t)

Spec == Init /\ [][Next]_vars

\* The scheduler keeps running every thread that can take a step.
FairSpec == Spec /\ \A t \in Thread : WF_vars(Continues(t))

-----------------------------------------------------------------------------
TypeOK ==
    /\ instances \in [Key -> Instance \cup {None}]
    /\ engines \in [Conn -> Nat]
    /\ schema \subseteq Conn
    /\ {instLock, engineLock, schemaLock} \subseteq Thread \cup {NoThread}
    /\ pc \in [Thread -> PC]
    /\ op \in [Thread -> Op]
    /\ key \in [Thread -> Key]
    /\ engine \in [Thread -> Nat]
    /\ got \in [Thread -> Instance \cup {None, KeyError, DatastoreError}]
    /\ made \in Nat
    /\ calls \in [all : 0..MaxCalls, close : Nat]
    /\ created \subseteq Conn
    /\ behind \subseteq Thread

(***************************************************************************)
(* A cached instance is never replaced by another one: only close_all      *)
(* takes it out of the cache, however many threads race to construct it.   *)
(***************************************************************************)
InstanceNeverReplaced ==
    [][\A k \in Key : Cached(k) => instances'[k] \in {instances[k], None}]_vars

(***************************************************************************)
(* An instance in the cache can be used: create_all has completed on its   *)
(* connection, though its creator may have skipped create_all because      *)
(* another thread had marked the schema as created.                        *)
(***************************************************************************)
SchemaReadyBeforeUse ==
    \A k \in Key : Cached(k) => ConnOf[k] \in created

(***************************************************************************)
(* As long as nothing calls close_all, two calls with the same key return  *)
(* the same instance.                                                      *)
(***************************************************************************)
NeverClosed == calls.close = 0

Returned(t) ==
    /\ pc[t] = "idle"
    /\ op[t] \in {"create", "get"}
    /\ got[t] # DatastoreError

OneInstancePerKey ==
    NeverClosed => \A t, u \in Thread :
        Returned(t) /\ Returned(u) /\ key[t] = key[u] => got[t] = got[u]

(***************************************************************************)
(* "Shared engine pool: one engine per connection string across all        *)
(* datastore types" (base_datastore.py): every cached datastore holds the  *)
(* engine that is registered for its connection.                           *)
(***************************************************************************)
OneEnginePerConnection ==
    \A k \in Key : Cached(k) => instances[k].engine = engines[ConnOf[k]]

(***************************************************************************)
(* That is so as long as nothing calls close_all, which disposes of the    *)
(* engines after it has emptied the cache.                                 *)
(***************************************************************************)
OneEngineUntilClosed == NeverClosed => OneEnginePerConnection

(***************************************************************************)
(* get_datastore "returns an existing instance if available, or creates a  *)
(* new one if not": until close_all is called it never fails for want of   *)
(* an instance.                                                            *)
(***************************************************************************)
NoKeyError == NeverClosed => \A t \in Thread : got[t] # KeyError

(***************************************************************************)
(* Every call returns: no set of calls, failing ones included, leaves a    *)
(* lock held or two threads waiting for each other.                        *)
(***************************************************************************)
CallsReturn == \A t \in Thread : pc[t] # "idle" ~> pc[t] = "idle"

(***************************************************************************)
(* Whatever the threads do, close_all included, the factory is a Registry: *)
(* the double-checked lock and the reads without a lock let no caller see  *)
(* the cache in a state that one step for each call could not show it in.  *)
(***************************************************************************)
Emptied == {"disposeLock", "dispose", "resetLock", "reset"}
Doing(t) ==
    IF pc[t] = "idle" THEN "nothing" ELSE IF pc[t] \in Emptied THEN "closed" ELSE op[t]
Doings == [t \in Thread |-> Doing(t)]

Table == INSTANCE Registry WITH
    table  <- instances,
    doing  <- Doings,
    wanted <- key,
    answer <- got
ActsAsRegistry == Table!Spec
=============================================================================
