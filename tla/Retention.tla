------------------------------ MODULE Retention ------------------------------
(***************************************************************************)
(* The daily retention job (retention_enforcement.py) running beside the   *)
(* request path and the account-deletion cascade, over the tables that     *)
(* hold a child's data.                                                    *)
(*                                                                         *)
(* Every `with session_scope()` block of the job is one transaction and    *)
(* one action: the job reads the profile ids, then each data table, then   *)
(* deletes store by store, and anything may commit in between.             *)
(*                                                                         *)
(* Data abstraction: a table is the set of children that have a row in it; *)
(* the parent of a child is fixed, so a (parent, child) pair is the child. *)
(* The database is the production one (PostgreSQL): it enforces foreign    *)
(* keys, none of which is declared ON DELETE CASCADE.                      *)
(***************************************************************************)
EXTENDS Integers, Sequences

CONSTANTS
    Child,         \* the child ids; the sweep visits them in sorted order
    WriterTables,  \* bound: child |-> the tables its requests write
    MaxFailures    \* bound: the transient failures of one behaviour

(***************************************************************************)
(* The tables, and the ones each per-store delete empties.                 *)
(***************************************************************************)
ScanTables ==
    <<"conversations", "child_facts", "stories",
      "child_capability_observations", "child_capability_state",
      "observed_interests", "inferred_traits", "telemetry_events">>

ConversationTables == {"conversations", "conversation_turns"}
FactsTables        == {"child_facts"}
StoryTables        == {"stories"}
CapabilityTables   ==
    {"child_capability_observations", "child_capability_state"}
InterestsTables    == {"observed_interests"}
TraitsTables       == {"inferred_traits"}
TelemetryTables    == {"telemetry_events"}
ChatTables         == {"parent_chat_sessions", "parent_chat_rolling_summary"}

\* The order in which the sweep calls the stores for one orphan.
SweepOrder ==
    <<ConversationTables, FactsTables, StoryTables, CapabilityTables,
      InterestsTables, TraitsTables, TelemetryTables>>

Table == {ScanTables[i] : i \in DOMAIN ScanTables}
         \cup {"conversation_turns", "parent_chat_messages"} \cup ChatTables

\* Foreign keys: table |-> the table its rows refer to.
References ==
    [conversation_turns   |-> "conversations",
     stories              |-> "conversations",
     parent_chat_messages |-> "parent_chat_sessions"]

ASSUME ChildAssumption == Child \subseteq Nat
ASSUME WriterAssumption == WriterTables \in [Child -> SUBSET Table]
ASSUME FailuresAssumption == MaxFailures \in Nat

VARIABLES
    profile,   \* state of each child's row in child_profiles
    inflight,  \* children a request that loaded their profile is serving
    closing,   \* children whose deletion cascade has started
    rows,      \* table |-> the children that have rows in it
    pc,        \* where the retention job is
    next,      \* the table or store the job handles next
    existing,  \* the job's copy of the profile ids
    orphaned,  \* the child ids (or pairs) the job has found and not yet swept
    failures,  \* transient failures so far
    fresh,     \* history: profiles inserted since this run began
    settled    \* history: children deleted and idle when this run began

dbVars  == <<profile, inflight, closing, rows>>
jobVars == <<pc, next, existing, orphaned>>
vars    == <<dbVars, jobVars, failures, fresh, settled>>

ProfileState == {"absent", "active", "inactive", "deleted"}
PC == {"idle", "telemetry", "existing", "scan", "sweep",
       "pairsExisting", "pairsScan", "pairs"}

HasProfile(c) == profile[c] \in {"active", "inactive"}
HasRows(c, T) == \E t \in T : c \in rows[t]

\* The least id of a set: the head of sorted(S).
First(S) == CHOOSE c \in S : \A d \in S : c <= d

-----------------------------------------------------------------------------
(***************************************************************************)
(* Deleting a child's rows from the tables T in one transaction. A row of  *)
(* another table that refers to one of them makes PostgreSQL refuse it.    *)
(***************************************************************************)
Refused(c, T) ==
    \E t \in DOMAIN References :
        t \notin T /\ References[t] \in T /\ c \in rows[t]

DeleteRows(c, T) ==
    rows' = [t \in Table |-> IF t \in T THEN rows[t] \ {c} ELSE rows[t]]

-----------------------------------------------------------------------------
(***************************************************************************)
(* The request path.                                                       *)
(***************************************************************************)
CreateProfile(c) ==
    /\ profile[c] = "absent"
    /\ profile' = [profile EXCEPT ![c] = "active"]
    /\ fresh' = fresh \cup {c}
    /\ UNCHANGED <<inflight, closing, rows, jobVars, failures, settled>>

\* A soft delete: the row stays, is_active becomes False.
Deactivate(c) ==
    /\ profile[c] = "active"
    /\ profile' = [profile EXCEPT ![c] = "inactive"]
    /\ UNCHANGED <<inflight, closing, rows, jobVars, failures, fresh, settled>>

\* A request starts by loading the profile, active ones only.
BeginRequest(c) ==
    /\ profile[c] = "active"
    /\ c \notin inflight
    /\ inflight' = inflight \cup {c}
    /\ UNCHANGED <<profile, closing, rows, jobVars, failures, fresh, settled>>

\* It then writes rows, never looking at the profile again; only the foreign
\* keys are checked.
Write(c, t) ==
    /\ c \in inflight
    /\ c \notin rows[t]
    /\ t \in DOMAIN References => c \in rows[References[t]]
    /\ rows' = [rows EXCEPT ![t] = @ \cup {c}]
    /\ UNCHANGED <<profile, inflight, closing, jobVars, failures, fresh,
                   settled>>

EndRequest(c) ==
    /\ c \in inflight
    /\ inflight' = inflight \ {c}
    /\ UNCHANGED <<profile, closing, rows, jobVars, failures, fresh, settled>>

-----------------------------------------------------------------------------
(***************************************************************************)
(* The deletion cascade of the account service: sequential per-store       *)
(* deletes, not one transaction, any of which may fail and be skipped      *)
(* before the profile row goes.                                            *)
(***************************************************************************)
CascadeBegin(c) ==
    /\ HasProfile(c)
    /\ c \notin closing
    /\ closing' = closing \cup {c}
    /\ UNCHANGED <<profile, inflight, rows, jobVars, failures, fresh, settled>>

CascadeStore(c) ==
    /\ c \in closing
    /\ \E T \in {SweepOrder[k] : k \in DOMAIN SweepOrder} \cup {ChatTables} :
          /\ HasRows(c, T)
          /\ ~Refused(c, T)
          /\ DeleteRows(c, T)
    /\ UNCHANGED <<profile, inflight, closing, jobVars, failures, fresh,
                   settled>>

CascadeProfile(c) ==
    /\ c \in closing
    /\ closing' = closing \ {c}
    /\ profile' = [profile EXCEPT ![c] = "deleted"]
    /\ UNCHANGED <<inflight, rows, jobVars, failures, fresh, settled>>

-----------------------------------------------------------------------------
(***************************************************************************)
(* The retention job.                                                      *)
(***************************************************************************)
\* The job stops where it is: an exception leaves run(), or the process dies.
\* Nothing is kept; the next run starts from the top.
JobStops ==
    /\ pc' = "idle"
    /\ next' = 1
    /\ existing' = {}
    /\ orphaned' = {}
    /\ UNCHANGED <<dbVars, fresh, settled>>

RunFails ==
    /\ pc # "idle"
    /\ failures < MaxFailures
    /\ failures' = failures + 1
    /\ JobStops

\* Steps 1: facts are expired and, past the grace window, deleted. Which
\* children lose their last fact depends on ages, which are abstracted.
StartRun ==
    /\ pc = "idle"
    /\ \E aged \in SUBSET rows["child_facts"] :
          rows' = [rows EXCEPT !["child_facts"] = @ \ aged]
    /\ pc' = "telemetry"
    /\ fresh' = {}
    /\ settled' = {c \in Child : profile[c] = "deleted" /\ c \notin inflight}
    /\ UNCHANGED <<profile, inflight, closing, next, existing, orphaned,
                   failures>>

\* Step 2: telemetry rows older than the window.
DeleteOldTelemetry ==
    /\ pc = "telemetry"
    /\ \E aged \in SUBSET rows["telemetry_events"] :
          rows' = [rows EXCEPT !["telemetry_events"] = @ \ aged]
    /\ pc' = "existing"
    /\ UNCHANGED <<profile, inflight, closing, next, existing, orphaned,
                   failures, fresh, settled>>

\* Mutant of ReadExisting: only active profiles count as existing.
ReadActiveOnly ==
    /\ pc = "existing"
    /\ existing' = {c \in Child : profile[c] = "active"}
    /\ pc' = "scan"
    /\ UNCHANGED <<dbVars, next, orphaned, failures, fresh, settled>>

\* Step 3, the orphan sweep. SELECT id FROM child_profiles: active or not.
ReadExisting ==
    /\ pc = "existing"
    /\ existing' = {c \in Child : HasProfile(c)}
    /\ pc' = "scan"
    /\ UNCHANGED <<dbVars, next, orphaned, failures, fresh, settled>>

ScanTable ==
    /\ pc = "scan"
    /\ orphaned' = orphaned \cup (rows[ScanTables[next]] \ existing)
    /\ IF next < Len(ScanTables)
       THEN next' = next + 1 /\ UNCHANGED <<pc, existing>>
       ELSE /\ next' = 1
            /\ pc' = "sweep"
            /\ existing' = {}
    /\ UNCHANGED <<dbVars, failures, fresh, settled>>

\* Mutant of Advance: one store too many.
AdvanceTooFar ==
    IF next <= Len(SweepOrder)
    THEN next' = next + 1 /\ UNCHANGED orphaned
    ELSE next' = 1 /\ orphaned' = orphaned \ {First(orphaned)}

\* The position after one more store of the first orphan is done.
Advance ==
    IF next < Len(SweepOrder)
    THEN next' = next + 1 /\ UNCHANGED orphaned
    ELSE next' = 1 /\ orphaned' = orphaned \ {First(orphaned)}

SweepStore ==
    /\ pc = "sweep"
    /\ orphaned # {}
    /\ ~Refused(First(orphaned), SweepOrder[next])
    /\ DeleteRows(First(orphaned), SweepOrder[next])
    /\ Advance
    /\ UNCHANGED <<profile, inflight, closing, pc, existing, failures, fresh,
                   settled>>

\* scrub_child_data logs an exception and returns 0: the sweep goes on.
ScrubFails ==
    /\ pc = "sweep"
    /\ orphaned # {}
    /\ SweepOrder[next] = TelemetryTables
    /\ failures < MaxFailures
    /\ failures' = failures + 1
    /\ Advance
    /\ UNCHANGED <<dbVars, pc, existing, fresh, settled>>

\* Mutant of StoreRaises: every store swallows errors as the scrub does.
StoreSwallows ==
    /\ pc = "sweep"
    /\ orphaned # {}
    /\ Refused(First(orphaned), SweepOrder[next])
    /\ Advance
    /\ UNCHANGED <<dbVars, pc, existing, failures, fresh, settled>>

\* Any other store raises when the database refuses its delete.
StoreRaises ==
    /\ pc = "sweep"
    /\ orphaned # {}
    /\ Refused(First(orphaned), SweepOrder[next])
    /\ JobStops
    /\ UNCHANGED failures

SweepDone ==
    /\ pc = "sweep"
    /\ orphaned = {}
    /\ pc' = "pairsExisting"
    /\ UNCHANGED <<dbVars, next, existing, orphaned, failures, fresh, settled>>

ReadPairsExisting ==
    /\ pc = "pairsExisting"
    /\ existing' = {c \in Child : HasProfile(c)}
    /\ pc' = "pairsScan"
    /\ UNCHANGED <<dbVars, next, orphaned, failures, fresh, settled>>

\* Mutant of ScanPairs: only the rolling summaries are looked at.
ScanSummariesOnly ==
    /\ pc = "pairsScan"
    /\ orphaned' = rows["parent_chat_rolling_summary"] \ existing
    /\ existing' = {}
    /\ pc' = "pairs"
    /\ UNCHANGED <<dbVars, next, failures, fresh, settled>>

ScanPairs ==
    /\ pc = "pairsScan"
    /\ orphaned' = (rows["parent_chat_sessions"]
                       \cup rows["parent_chat_rolling_summary"]) \ existing
    /\ existing' = {}
    /\ pc' = "pairs"
    /\ UNCHANGED <<dbVars, next, failures, fresh, settled>>

\* The pairs come in whatever order the UNION returns them.
SweepPair(c) ==
    /\ pc = "pairs"
    /\ c \in orphaned
    /\ ~Refused(c, ChatTables)
    /\ DeleteRows(c, ChatTables)
    /\ orphaned' = orphaned \ {c}
    /\ UNCHANGED <<profile, inflight, closing, pc, next, existing, failures,
                   fresh, settled>>

PairRaises(c) ==
    /\ pc = "pairs"
    /\ c \in orphaned
    /\ Refused(c, ChatTables)
    /\ JobStops
    /\ UNCHANGED failures

\* The audit line is written and run() returns.
FinishRun ==
    /\ pc = "pairs"
    /\ orphaned = {}
    /\ JobStops
    /\ UNCHANGED failures

-----------------------------------------------------------------------------
Init ==
    /\ profile = [c \in Child |-> "absent"]
    /\ inflight = {}
    /\ closing = {}
    /\ rows = [t \in Table |-> {}]
    /\ pc = "idle"
    /\ next = 1
    /\ existing = {}
    /\ orphaned = {}
    /\ failures = 0
    /\ fresh = {}
    /\ settled = {}

Request(c) ==
    \/ CreateProfile(c)
    \/ Deactivate(c)
    \/ BeginRequest(c)
    \/ \E t \in WriterTables[c] : Write(c, t)
    \/ EndRequest(c)

Cascade(c) ==
    \/ CascadeBegin(c)
    \/ CascadeStore(c)
    \/ CascadeProfile(c)

\* The steps the job takes when nothing goes wrong with the database.
JobStep ==
    \/ StartRun
    \/ DeleteOldTelemetry
    \/ ReadExisting
    \/ ScanTable
    \/ SweepStore
    \/ StoreRaises
    \/ SweepDone
    \/ ReadPairsExisting
    \/ ScanPairs
    \/ \E c \in Child : SweepPair(c) \/ PairRaises(c)
    \/ FinishRun

Next ==
    \/ \E c \in Child : Request(c) \/ Cascade(c)
    \/ JobStep
    \/ RunFails
    \/ ScrubFails

Spec == Init /\ [][Next]_vars

\* The cron job runs every day and each of its steps returns; requests end.
FairSpec ==
    /\ Spec
    /\ WF_vars(JobStep)
    /\ \A c \in Child : WF_vars(EndRequest(c))

-----------------------------------------------------------------------------
TypeOK ==
    /\ profile \in [Child -> ProfileState]
    /\ inflight \subseteq Child
    /\ closing \subseteq Child
    /\ rows \in [Table -> SUBSET Child]
    /\ pc \in PC
    /\ next \in 1..Len(ScanTables)
    /\ pc = "sweep" => next \in DOMAIN SweepOrder
    /\ existing \subseteq Child
    /\ orphaned \subseteq Child
    /\ failures \in 0..MaxFailures
    /\ fresh \subseteq Child
    /\ settled \subseteq Child

(***************************************************************************)
(* A run that reaches its audit line has left nothing of a child that was  *)
(* already deleted, with no request in flight, when the run began: no row  *)
(* in a scanned table or in parent chat, and no turn or message either,    *)
(* whatever the other children, requests and cascades did meanwhile.       *)
(* Telemetry is excepted: its scrub swallows errors.                       *)
(***************************************************************************)
AuditedRunLeavesNoOrphans ==
    pc = "pairs" /\ orphaned = {} =>
        \A c \in settled : ~HasRows(c, Table \ TelemetryTables)

(***************************************************************************)
(* The sweep never deletes a row of a child whose profile exists, active   *)
(* or soft-deleted, and existed when the run began, even though it works   *)
(* from a list of profiles read many transactions earlier.                 *)
(***************************************************************************)
Sweeping == SweepStore \/ \E c \in Child : SweepPair(c)

Spared(c) == \A t \in Table : c \in rows[t] => c \in rows'[t]

SweepSparesStandingProfiles ==
    [][Sweeping => \A c \in Child \ fresh : HasProfile(c) => Spared(c)]_vars

(***************************************************************************)
(* What the docstring of sweep_orphaned_child_rows says: it deletes rows   *)
(* whose child profile no longer exists, so never those of a profile that  *)
(* does, not even of one inserted while the run was reading.               *)
(***************************************************************************)
SweepDeletesOnlyOrphans ==
    [][Sweeping => \A c \in Child : HasProfile(c) => Spared(c)]_vars

(***************************************************************************)
(* Every partly failed deletion is finished: a deleted child's rows all    *)
(* disappear in the end, provided no deleted child is left with a story or *)
(* a parent chat message, the rows that make a per-store delete fail.      *)
(***************************************************************************)
Obstructed ==
    \E d \in Child :
        /\ profile[d] = "deleted"
        /\ HasRows(d, {"stories", "parent_chat_messages"})

DeletedChildIsErasedUnlessObstructed ==
    \A c \in Child :
        profile[c] = "deleted" ~> (Obstructed \/ ~HasRows(c, Table))

(***************************************************************************)
(* What the module's docstring promises: the sweep finishes any partly     *)
(* failed deletion.                                                        *)
(***************************************************************************)
PartialDeletionIsFinished ==
    \A c \in Child :
        profile[c] = "deleted" ~> ~HasRows(c, ConversationTables \cup StoryTables)
=============================================================================
