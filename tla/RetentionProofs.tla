--------------------------- MODULE RetentionProofs ---------------------------
(***************************************************************************)
(* Proofs about Retention, for any set of children, any tables written by  *)
(* requests and any number of failures.                                    *)
(***************************************************************************)
EXTENDS Retention, WellFoundedInduction, TLAPS

(***************************************************************************)
(* A nonempty set of natural numbers has a least element, so First picks   *)
(* a member of the set: the head of sorted(orphaned) is an orphan.         *)
(***************************************************************************)
LEMMA NatIsWellFounded ==
    IsWellFoundedOn({p \in Nat \X Nat : p[1] < p[2]}, Nat)
BY NatLessThanWellFounded DEF OpToRel

LEMMA FirstIsMember ==
    ASSUME NEW S \in SUBSET Nat, S # {}
    PROVE  First(S) \in S
<1>. DEFINE R == {p \in Nat \X Nat : p[1] < p[2]}
<1>1. IsWellFoundedOn(R, Nat)
  BY NatIsWellFounded
<1>2. PICK c \in S : \A d \in S : ~(<<d, c>> \in R)
  BY <1>1, WFMin
<1>3. ASSUME NEW d \in S PROVE c <= d
  <2>1. <<d, c>> \in Nat \X Nat /\ ~(<<d, c>> \in R)
    BY <1>2
  <2>. QED
    BY <2>1
<1>. QED
  BY <1>3 DEF First

(***************************************************************************)
(* The tables, spelled out.                                                *)
(***************************************************************************)
ScannedTable == {ScanTables[i] : i \in DOMAIN ScanTables}

LEMMA TablesFacts ==
    /\ DOMAIN ScanTables = 1..8
    /\ DOMAIN SweepOrder = 1..7
    /\ Len(ScanTables) = 8
    /\ Len(SweepOrder) = 7
    /\ \A i \in 1..8 : ScanTables[i] \in Table
    /\ ScannedTable = {"conversations", "child_facts", "stories",
                       "child_capability_observations",
                       "child_capability_state", "observed_interests",
                       "inferred_traits", "telemetry_events"}
    /\ Table = ScannedTable \cup {"conversation_turns", "parent_chat_messages",
                                  "parent_chat_sessions",
                                  "parent_chat_rolling_summary"}
BY DEF ScanTables, SweepOrder, Table, ScannedTable, ChatTables

\* Every scanned table but telemetry is emptied by one of the first six stores.
LEMMA StoresCoverScannedTables ==
    ASSUME NEW t \in ScannedTable, t # "telemetry_events"
    PROVE  \E k \in 1..7 : t \in SweepOrder[k] \ TelemetryTables
<1>1. /\ t \in SweepOrder[1] \/ t \in SweepOrder[2] \/ t \in SweepOrder[3]
         \/ t \in SweepOrder[4] \/ t \in SweepOrder[5] \/ t \in SweepOrder[6]
  BY TablesFacts DEF SweepOrder, ConversationTables, FactsTables, StoryTables,
     CapabilityTables, InterestsTables, TraitsTables
<1>2. t \notin TelemetryTables
  BY DEF TelemetryTables
<1>. QED
  BY <1>1, <1>2

LEMMA ReferencesFacts ==
    /\ DOMAIN References =
          {"conversation_turns", "stories", "parent_chat_messages"}
    /\ References["conversation_turns"] = "conversations"
    /\ References["stories"] = "conversations"
    /\ References["parent_chat_messages"] = "parent_chat_sessions"
BY DEF References

-----------------------------------------------------------------------------
(***************************************************************************)
(* Type correctness.                                                       *)
(***************************************************************************)
LEMMA DeleteRowsType ==
    ASSUME NEW c, NEW T, TypeOK, DeleteRows(c, T)
    PROVE  rows' \in [Table -> SUBSET Child]
BY DEF TypeOK, DeleteRows

LEMMA AdvanceType ==
    ASSUME TypeOK, pc = "sweep", Advance
    PROVE  /\ next' \in DOMAIN SweepOrder
           /\ next' \in 1..Len(ScanTables)
           /\ orphaned' \subseteq Child
BY TablesFacts DEF TypeOK, Advance

LEMMA TypeStep == TypeOK /\ [Next]_vars => TypeOK'
<1>. SUFFICES ASSUME TypeOK, [Next]_vars PROVE TypeOK'
  OBVIOUS
<1>. USE TablesFacts
<1>1. ASSUME NEW c \in Child, Request(c) PROVE TypeOK'
  <2>1. CASE CreateProfile(c)
    BY <2>1 DEF CreateProfile, TypeOK, jobVars, ProfileState
  <2>2. CASE Deactivate(c)
    BY <2>2 DEF Deactivate, TypeOK, jobVars, ProfileState
  <2>3. CASE BeginRequest(c)
    BY <2>3 DEF BeginRequest, TypeOK, jobVars
  <2>4. ASSUME NEW t \in WriterTables[c], Write(c, t) PROVE TypeOK'
    BY <2>4, WriterAssumption DEF Write, TypeOK, jobVars
  <2>5. CASE EndRequest(c)
    BY <2>5 DEF EndRequest, TypeOK, jobVars
  <2>. QED
    BY <1>1, <2>1, <2>2, <2>3, <2>4, <2>5 DEF Request
<1>2. ASSUME NEW c \in Child, Cascade(c) PROVE TypeOK'
  <2>1. CASE CascadeBegin(c)
    BY <2>1 DEF CascadeBegin, TypeOK, jobVars
  <2>2. CASE CascadeStore(c)
    <3>1. PICK T : DeleteRows(c, T)
      BY <2>2 DEF CascadeStore
    <3>. QED
      BY <2>2, <3>1, DeleteRowsType DEF CascadeStore, TypeOK, jobVars
  <2>3. CASE CascadeProfile(c)
    BY <2>3 DEF CascadeProfile, TypeOK, jobVars, ProfileState
  <2>. QED
    BY <1>2, <2>1, <2>2, <2>3 DEF Cascade
<1>3. ASSUME JobStops, failures' \in 0..MaxFailures PROVE TypeOK'
  BY <1>3 DEF JobStops, TypeOK, PC, dbVars
<1>4. CASE RunFails
  <2>1. failures' \in 0..MaxFailures
    BY <1>4, FailuresAssumption DEF RunFails, TypeOK
  <2>. QED
    BY <1>4, <1>3, <2>1 DEF RunFails
<1>5. CASE ScrubFails
  <2>1. failures' \in 0..MaxFailures
    BY <1>5, FailuresAssumption DEF ScrubFails, TypeOK
  <2>. QED
    BY <1>5, <2>1, AdvanceType DEF ScrubFails, TypeOK, dbVars
<1>6. CASE JobStep
  <2>1. CASE StartRun
    BY <2>1 DEF StartRun, TypeOK, PC
  <2>2. CASE DeleteOldTelemetry
    BY <2>2 DEF DeleteOldTelemetry, TypeOK, PC
  <2>3. CASE ReadExisting
    BY <2>3 DEF ReadExisting, TypeOK, PC, dbVars
  <2>4. CASE ScanTable
    <3>1. rows[ScanTables[next]] \subseteq Child
      BY <2>4 DEF ScanTable, TypeOK
    <3>2. orphaned' \subseteq Child
      BY <2>4, <3>1 DEF ScanTable, TypeOK
    <3>3. next' \in 1..8 /\ (pc' = "sweep" => next' \in 1..7) /\ pc' \in PC
      BY <2>4 DEF ScanTable, TypeOK, PC
    <3>. QED
      BY <2>4, <3>2, <3>3 DEF ScanTable, TypeOK, dbVars
  <2>5. CASE SweepStore
    <3>1. rows' \in [Table -> SUBSET Child]
      BY <2>5, DeleteRowsType DEF SweepStore
    <3>. QED
      BY <2>5, <3>1, AdvanceType DEF SweepStore, TypeOK
  <2>6. CASE StoreRaises
    BY <2>6, <1>3 DEF StoreRaises, TypeOK
  <2>7. CASE SweepDone
    BY <2>7 DEF SweepDone, TypeOK, PC, dbVars
  <2>8. CASE ReadPairsExisting
    BY <2>8 DEF ReadPairsExisting, TypeOK, PC, dbVars
  <2>9. CASE ScanPairs
    BY <2>9 DEF ScanPairs, TypeOK, PC, dbVars
  <2>10. ASSUME NEW c \in Child, SweepPair(c) PROVE TypeOK'
    <3>1. rows' \in [Table -> SUBSET Child]
      BY <2>10, DeleteRowsType DEF SweepPair
    <3>. QED
      BY <2>10, <3>1 DEF SweepPair, TypeOK
  <2>11. ASSUME NEW c \in Child, PairRaises(c) PROVE TypeOK'
    BY <2>11, <1>3 DEF PairRaises, TypeOK
  <2>12. CASE FinishRun
    BY <2>12, <1>3 DEF FinishRun, TypeOK
  <2>. QED
    BY <1>6, <2>1, <2>2, <2>3, <2>4, <2>5, <2>6, <2>7, <2>8, <2>9, <2>10,
       <2>11, <2>12 DEF JobStep
<1>7. CASE UNCHANGED vars
  BY <1>7 DEF TypeOK, vars, dbVars, jobVars
<1>. QED
  BY <1>1, <1>2, <1>4, <1>5, <1>6, <1>7 DEF Next

(***************************************************************************)
(* Every variable keeps its type: in particular the job's position always  *)
(* names a table to scan or a store to call.                               *)
(***************************************************************************)
THEOREM TypeCorrect == Spec => []TypeOK
<1>1. Init => TypeOK
  BY TablesFacts, FailuresAssumption DEF Init, TypeOK, ProfileState, PC
<1>. QED
  BY <1>1, TypeStep, PTL DEF Spec

-----------------------------------------------------------------------------
(***************************************************************************)
(* The inductive invariant. What the job knows about the children that     *)
(* were already settled when its run began, and about those whose profile  *)
(* stood then, has to be carried from one of its transactions to the next. *)
(***************************************************************************)
\* The database keeps foreign keys pointing at existing rows.
RefIntegrity ==
    \A t \in DOMAIN References : rows[t] \subseteq rows[References[t]]

\* A settled child is never written again.
Quiet(c) == profile[c] = "deleted" /\ c \notin inflight
SettledInv == \A c \in settled : Quiet(c)

\* Between runs, and until the scan, the job holds no ids.
RestInv ==
    /\ pc \in {"idle", "telemetry", "existing"} => orphaned = {} /\ next = 1
    /\ pc \in {"pairsExisting", "pairsScan"} => orphaned = {}

Clean(c) == \A t \in ScannedTable \ TelemetryTables : c \notin rows[t]

\* The tables read so far have given up their settled children.
ScanInv ==
    pc = "scan" =>
        \A c \in settled :
            /\ c \notin existing
            /\ \A i \in 1..(next - 1) :
                  c \in rows[ScanTables[i]] => c \in orphaned

\* The stores called so far hold nothing of the child being swept.
SweepInv ==
    pc = "sweep" =>
        \A c \in settled :
            IF c \in orphaned
            THEN c = First(orphaned) =>
                     \A k \in 1..(next - 1) :
                        \A t \in SweepOrder[k] \ TelemetryTables : c \notin rows[t]
            ELSE Clean(c)

PairsInv ==
    /\ pc \in {"pairsExisting", "pairsScan", "pairs"} =>
           \A c \in settled : Clean(c)
    /\ pc = "pairsScan" => \A c \in settled : c \notin existing
    /\ pc = "pairs" =>
           \A c \in settled : HasRows(c, ChatTables) => c \in orphaned

\* A profile that stood when the run began is in the job's copy, and its
\* child never among the orphans.
StandingInv ==
    \A c \in Child \ fresh :
        HasProfile(c) =>
            /\ pc \in {"scan", "pairsScan"} => c \in existing
            /\ c \notin orphaned

IInv ==
    /\ TypeOK
    /\ RefIntegrity
    /\ SettledInv
    /\ RestInv
    /\ ScanInv
    /\ SweepInv
    /\ PairsInv
    /\ StandingInv

-----------------------------------------------------------------------------
(***************************************************************************)
(* What a step of a request or of a cascade may change, as the job sees    *)
(* it: not its own state, no row added for a settled child, and no profile *)
(* appearing but a fresh one.                                              *)
(***************************************************************************)
LEMMA EnvironmentFrame ==
    ASSUME TypeOK, SettledInv, NEW c \in Child, Request(c) \/ Cascade(c)
    PROVE  /\ UNCHANGED jobVars
           /\ settled' = settled
           /\ SettledInv'
           /\ \A d \in settled : \A t \in Table : d \in rows'[t] => d \in rows[t]
           /\ \A d \in Child \ fresh' :
                 HasProfile(d)' => HasProfile(d) /\ d \in Child \ fresh
<1>. USE DEF TypeOK, SettledInv, Quiet, HasProfile
<1>1. CASE CreateProfile(c)
  BY <1>1 DEF CreateProfile
<1>2. CASE Deactivate(c)
  BY <1>2 DEF Deactivate
<1>3. CASE BeginRequest(c)
  BY <1>3 DEF BeginRequest
<1>4. ASSUME NEW t \in WriterTables[c], Write(c, t)
      PROVE  /\ UNCHANGED jobVars
             /\ settled' = settled
             /\ SettledInv'
             /\ \A d \in settled : \A u \in Table : d \in rows'[u] => d \in rows[u]
             /\ \A d \in Child \ fresh' :
                   HasProfile(d)' => HasProfile(d) /\ d \in Child \ fresh
  BY <1>4, WriterAssumption DEF Write
<1>5. CASE EndRequest(c)
  BY <1>5 DEF EndRequest
<1>6. CASE CascadeBegin(c)
  BY <1>6 DEF CascadeBegin
<1>7. CASE CascadeStore(c)
  <2>1. PICK T : DeleteRows(c, T)
    BY <1>7 DEF CascadeStore
  <2>. QED
    BY <1>7, <2>1 DEF CascadeStore, DeleteRows
<1>8. CASE CascadeProfile(c)
  BY <1>8 DEF CascadeProfile
<1>. QED
  BY <1>1, <1>2, <1>3, <1>4, <1>5, <1>6, <1>7, <1>8 DEF Request, Cascade

\* What a step of the job may change: no profile, no request, no row added.
LEMMA JobFrame ==
    ASSUME TypeOK, JobStep \/ RunFails \/ ScrubFails
    PROVE  /\ UNCHANGED <<profile, inflight, closing>>
           /\ \A t \in Table : rows'[t] \subseteq rows[t]
<1>. USE DEF TypeOK, dbVars
<1>1. CASE RunFails \/ ScrubFails
  BY <1>1 DEF RunFails, ScrubFails, JobStops
<1>2. CASE StartRun \/ DeleteOldTelemetry
  BY <1>2 DEF StartRun, DeleteOldTelemetry
<1>3. CASE SweepStore
  BY <1>3 DEF SweepStore, DeleteRows
<1>4. ASSUME NEW c \in Child, SweepPair(c)
      PROVE  /\ UNCHANGED <<profile, inflight, closing>>
             /\ \A t \in Table : rows'[t] \subseteq rows[t]
  BY <1>4 DEF SweepPair, DeleteRows
<1>5. CASE \/ ReadExisting \/ ScanTable \/ StoreRaises \/ SweepDone
           \/ ReadPairsExisting \/ ScanPairs \/ FinishRun
           \/ \E c \in Child : PairRaises(c)
  BY <1>5 DEF ReadExisting, ScanTable, StoreRaises, SweepDone,
     ReadPairsExisting, ScanPairs, FinishRun, PairRaises, JobStops
<1>. QED
  BY <1>1, <1>2, <1>3, <1>4, <1>5 DEF JobStep

(***************************************************************************)
(* Foreign keys: a delete the database accepts leaves none dangling.       *)
(***************************************************************************)
LEMMA DeleteKeepsReferences ==
    ASSUME TypeOK, RefIntegrity, NEW c, NEW T, ~Refused(c, T), DeleteRows(c, T)
    PROVE  RefIntegrity'
BY TablesFacts, ReferencesFacts DEF TypeOK, RefIntegrity, Refused, DeleteRows

LEMMA RefIntegrityStep == TypeOK /\ RefIntegrity /\ [Next]_vars => RefIntegrity'
<1>. SUFFICES ASSUME TypeOK, RefIntegrity, [Next]_vars PROVE RefIntegrity'
  OBVIOUS
<1>1. CASE rows' = rows
  BY <1>1 DEF RefIntegrity
<1>2. ASSUME NEW c \in Child, NEW t \in WriterTables[c], Write(c, t)
      PROVE  RefIntegrity'
  BY <1>2, TablesFacts, ReferencesFacts, WriterAssumption
     DEF Write, TypeOK, RefIntegrity
<1>3. ASSUME NEW c \in Child, CascadeStore(c) PROVE RefIntegrity'
  BY <1>3, DeleteKeepsReferences DEF CascadeStore
<1>4. CASE StartRun \/ DeleteOldTelemetry
  BY <1>4, TablesFacts, ReferencesFacts
     DEF StartRun, DeleteOldTelemetry, TypeOK, RefIntegrity
<1>5. CASE SweepStore
  BY <1>5, DeleteKeepsReferences DEF SweepStore
<1>6. ASSUME NEW c \in Child, SweepPair(c) PROVE RefIntegrity'
  BY <1>6, DeleteKeepsReferences DEF SweepPair
<1>. QED
  BY <1>1, <1>2, <1>3, <1>4, <1>5, <1>6
     DEF Next, vars, dbVars, jobVars, Request, Cascade, JobStep, CreateProfile,
         Deactivate, BeginRequest, EndRequest, CascadeBegin, CascadeProfile,
         RunFails, ScrubFails, JobStops, ReadExisting, ScanTable, StoreRaises,
         SweepDone, ReadPairsExisting, ScanPairs, PairRaises, FinishRun

(***************************************************************************)
(* The position of the job after each kind of step.                        *)
(***************************************************************************)
LEMMA JobCases ==
    ASSUME [Next]_vars
    PROVE  \/ \E c \in Child : Request(c) \/ Cascade(c)
           \/ JobStep \/ RunFails \/ ScrubFails
           \/ UNCHANGED vars
BY DEF Next

LEMMA SettledStep == TypeOK /\ SettledInv /\ [Next]_vars => SettledInv'
<1>. SUFFICES ASSUME TypeOK, SettledInv, [Next]_vars PROVE SettledInv'
  OBVIOUS
<1>1. CASE StartRun
  BY <1>1 DEF StartRun, SettledInv, Quiet
<1>2. CASE \E c \in Child : Request(c) \/ Cascade(c)
  BY <1>2, EnvironmentFrame
<1>3. CASE (JobStep \/ RunFails \/ ScrubFails) /\ ~StartRun
  <2>1. UNCHANGED <<profile, inflight>>
    BY <1>3, JobFrame
  <2>2. settled' = settled
    BY <1>3 DEF JobStep, RunFails, ScrubFails, JobStops, DeleteOldTelemetry,
       ReadExisting, ScanTable, SweepStore, StoreRaises, SweepDone,
       ReadPairsExisting, ScanPairs, SweepPair, PairRaises, FinishRun
  <2>. QED
    BY <2>1, <2>2 DEF SettledInv, Quiet
<1>4. CASE UNCHANGED vars
  BY <1>4 DEF vars, dbVars, SettledInv, Quiet
<1>. QED
  BY <1>1, <1>2, <1>3, <1>4, JobCases

LEMMA RestStep == TypeOK /\ SettledInv /\ RestInv /\ [Next]_vars => RestInv'
<1>. SUFFICES ASSUME TypeOK, SettledInv, RestInv, [Next]_vars PROVE RestInv'
  OBVIOUS
<1>1. CASE (\E c \in Child : Request(c) \/ Cascade(c)) \/ UNCHANGED vars
  BY <1>1, EnvironmentFrame DEF RestInv, jobVars, vars
<1>2. CASE JobStep \/ RunFails \/ ScrubFails
  BY <1>2 DEF RestInv, JobStep, RunFails, ScrubFails, JobStops, StartRun,
     DeleteOldTelemetry, ReadExisting, ScanTable, SweepStore, StoreRaises,
     SweepDone, ReadPairsExisting, ScanPairs, SweepPair, PairRaises, FinishRun
<1>. QED
  BY <1>1, <1>2, JobCases

-----------------------------------------------------------------------------
(***************************************************************************)
(* The scan: each table read adds its settled children to the orphans.     *)
(***************************************************************************)
LEMMA ScanStep ==
    TypeOK /\ SettledInv /\ RestInv /\ ScanInv /\ [Next]_vars => ScanInv'
<1>. SUFFICES ASSUME TypeOK, SettledInv, RestInv, ScanInv, [Next]_vars
              PROVE  ScanInv'
  OBVIOUS
<1>1. CASE \E c \in Child : Request(c) \/ Cascade(c)
  <2>1. UNCHANGED <<pc, next, existing, orphaned, settled>>
    BY <1>1, EnvironmentFrame DEF jobVars
  <2>2. \A d \in settled : \A t \in Table : d \in rows'[t] => d \in rows[t]
    BY <1>1, EnvironmentFrame
  <2>. QED
    BY <2>1, <2>2, TablesFacts DEF ScanInv, TypeOK
<1>2. CASE ReadExisting
  BY <1>2 DEF ReadExisting, ScanInv, RestInv, SettledInv, Quiet, HasProfile
<1>3. CASE ScanTable
  <2>. SUFFICES ASSUME pc' = "scan", NEW c \in settled
                PROVE  /\ c \notin existing'
                       /\ \A i \in 1..(next' - 1) :
                             c \in rows'[ScanTables[i]] => c \in orphaned'
    BY <1>3 DEF ScanTable, ScanInv
  <2>1. /\ next' = next + 1 /\ existing' = existing /\ rows' = rows
        /\ pc = "scan"
        /\ orphaned' = orphaned \cup (rows[ScanTables[next]] \ existing)
    BY <1>3 DEF ScanTable, dbVars
  <2>2. c \notin existing
    BY <2>1 DEF ScanInv
  <2>3. ASSUME NEW i \in 1..(next' - 1), c \in rows[ScanTables[i]]
        PROVE  c \in orphaned'
    <3>1. CASE i = next
      BY <2>1, <2>2, <2>3, <3>1
    <3>2. CASE i \in 1..(next - 1)
      BY <2>1, <2>3, <3>2 DEF ScanInv
    <3>. QED
      BY <2>1, <3>1, <3>2 DEF TypeOK
  <2>. QED
    BY <2>1, <2>2, <2>3
<1>4. CASE (JobStep \/ RunFails \/ ScrubFails) /\ ~ReadExisting /\ ~ScanTable
  <2>1. pc' # "scan"
    BY <1>4 DEF JobStep, RunFails, ScrubFails, JobStops, StartRun,
       DeleteOldTelemetry, SweepStore, StoreRaises, SweepDone,
       ReadPairsExisting, ScanPairs, SweepPair, PairRaises, FinishRun
  <2>. QED
    BY <2>1 DEF ScanInv
<1>5. CASE UNCHANGED vars
  BY <1>5 DEF vars, dbVars, jobVars, ScanInv
<1>. QED
  BY <1>1, <1>2, <1>3, <1>4, <1>5, JobCases

(***************************************************************************)
(* The sweep: when the last store of an orphan is done, no scanned table   *)
(* but telemetry holds a row of it.                                        *)
(***************************************************************************)
\* The scan hands over to the sweep: a settled child is an orphan or clean.
LEMMA ScanEnds ==
    ASSUME TypeOK, ScanInv, ScanTable, pc' = "sweep", NEW c \in settled
    PROVE  next' = 1 /\ (c \in orphaned' \/ Clean(c)')
<1>1. /\ next = 8 /\ next' = 1 /\ pc = "scan" /\ rows' = rows
      /\ orphaned' = orphaned \cup (rows[ScanTables[8]] \ existing)
  BY TablesFacts DEF ScanTable, TypeOK, dbVars
<1>2. c \notin existing
  BY <1>1 DEF ScanInv
<1>3. \A i \in 1..8 : c \in rows[ScanTables[i]] => c \in orphaned'
  <2>. SUFFICES ASSUME NEW i \in 1..8, c \in rows[ScanTables[i]]
                PROVE  c \in orphaned'
    OBVIOUS
  <2>1. CASE i = 8
    BY <1>1, <1>2, <2>1
  <2>2. CASE i \in 1..7
    BY <1>1, <2>2 DEF ScanInv
  <2>. QED
    BY <2>1, <2>2
<1>4. \A t \in ScannedTable : c \in rows[t] => c \in orphaned'
  BY <1>3, TablesFacts DEF ScannedTable
<1>. QED
  BY <1>1, <1>4 DEF Clean

\* One more store of the first orphan is done, whatever it deleted.
LEMMA AdvanceKeepsSweepInv ==
    ASSUME TypeOK, SweepInv, pc = "sweep", pc' = "sweep", Advance,
           settled' = settled,
           \A t \in Table : rows'[t] \subseteq rows[t],
           \A t \in SweepOrder[next] \ TelemetryTables :
               First(orphaned) \notin rows'[t]
    PROVE  SweepInv'
<1>. DEFINE o == First(orphaned)
<1>. SUFFICES ASSUME NEW c \in settled
              PROVE  IF c \in orphaned'
                     THEN c = First(orphaned') =>
                            \A k \in 1..(next' - 1) :
                              \A t \in SweepOrder[k] \ TelemetryTables :
                                 c \notin rows'[t]
                     ELSE Clean(c)'
  BY DEF SweepInv
<1>1. \A k \in 1..7 : SweepOrder[k] \subseteq Table
  BY TablesFacts DEF SweepOrder, ConversationTables, FactsTables, StoryTables,
     CapabilityTables, InterestsTables, TraitsTables, TelemetryTables
<1>2. next \in 1..7 /\ ScannedTable \subseteq Table
  BY TablesFacts DEF TypeOK
<1>3. CASE next < Len(SweepOrder)
  <2>1. next' = next + 1 /\ orphaned' = orphaned
    BY <1>3 DEF Advance
  <2>2. CASE c \notin orphaned
    BY <1>2, <2>1, <2>2 DEF SweepInv, Clean
  <2>3. CASE c \in orphaned /\ c = o
    <3>1. ASSUME NEW k \in 1..next, NEW t \in SweepOrder[k] \ TelemetryTables
          PROVE  c \notin rows'[t]
      <4>1. CASE k = next
        BY <2>3, <3>1, <4>1
      <4>2. CASE k \in 1..(next - 1)
        <5>1. c \notin rows[t]
          BY <2>3, <3>1, <4>2 DEF SweepInv
        <5>2. t \in Table
          BY <1>1, <1>2, <4>2
        <5>. QED
          BY <5>1, <5>2
      <4>. QED
        BY <1>2, <4>1, <4>2
    <3>. QED
      BY <1>2, <2>1, <2>3, <3>1
  <2>4. CASE c \in orphaned /\ c # o
    BY <2>1, <2>4
  <2>. QED
    BY <2>2, <2>3, <2>4
<1>4. CASE ~(next < Len(SweepOrder))
  <2>1. next = 7 /\ next' = 1 /\ orphaned' = orphaned \ {o}
    BY <1>2, <1>4, TablesFacts DEF Advance
  <2>2. CASE c \notin orphaned
    BY <1>2, <2>1, <2>2 DEF SweepInv, Clean
  <2>3. CASE c \in orphaned /\ c = o
    <3>1. ASSUME NEW t \in ScannedTable \ TelemetryTables
          PROVE  c \notin rows'[t]
      <4>1. PICK k \in 1..7 : t \in SweepOrder[k] \ TelemetryTables
        BY StoresCoverScannedTables DEF TelemetryTables
      <4>2. CASE k = 7
        BY <2>1, <2>3, <4>1, <4>2
      <4>3. CASE k \in 1..6
        <5>1. c \notin rows[t]
          BY <2>1, <2>3, <4>1, <4>3 DEF SweepInv
        <5>. QED
          BY <1>2, <5>1
      <4>. QED
        BY <4>2, <4>3
    <3>. QED
      BY <2>1, <2>3, <3>1 DEF Clean
  <2>4. CASE c \in orphaned /\ c # o
    BY <2>1, <2>4
  <2>. QED
    BY <2>2, <2>3, <2>4
<1>. QED
  BY <1>3, <1>4

LEMMA SweepStep ==
    /\ TypeOK /\ SettledInv /\ ScanInv /\ SweepInv
    /\ [Next]_vars
    => SweepInv'
<1>. SUFFICES ASSUME TypeOK, SettledInv, ScanInv, SweepInv, [Next]_vars
              PROVE  SweepInv'
  OBVIOUS
<1>1. CASE \E c \in Child : Request(c) \/ Cascade(c)
  <2>1. UNCHANGED <<pc, next, existing, orphaned, settled>>
    BY <1>1, EnvironmentFrame DEF jobVars
  <2>2. \A d \in settled : \A t \in Table : d \in rows'[t] => d \in rows[t]
    BY <1>1, EnvironmentFrame
  <2>3. ScannedTable \subseteq Table
    BY TablesFacts
  <2>4. next \in 1..7 => \A k \in 1..(next - 1) : SweepOrder[k] \subseteq Table
    BY TablesFacts DEF SweepOrder, ConversationTables, FactsTables, StoryTables,
       CapabilityTables, InterestsTables, TraitsTables, TelemetryTables
  <2>5. pc = "sweep" => next \in 1..7
    BY TablesFacts DEF TypeOK
  <2>. SUFFICES ASSUME pc' = "sweep", NEW c \in settled'
                PROVE  IF c \in orphaned'
                       THEN c = First(orphaned') =>
                              \A k \in 1..(next' - 1) :
                                \A t \in SweepOrder[k] \ TelemetryTables :
                                   c \notin rows'[t]
                       ELSE Clean(c)'
    BY DEF SweepInv
  <2>6. CASE c \in orphaned'
    BY <2>1, <2>2, <2>4, <2>5, <2>6 DEF SweepInv
  <2>7. CASE c \notin orphaned'
    BY <2>1, <2>2, <2>3, <2>7 DEF SweepInv, Clean
  <2>. QED
    BY <2>6, <2>7
<1>2. CASE ScanTable
  <2>1. settled' = settled
    BY <1>2 DEF ScanTable
  <2>. QED
    BY <1>2, <2>1, ScanEnds DEF SweepInv
<1>3. CASE SweepStore
  <2>1. /\ pc = "sweep" /\ pc' = "sweep" /\ settled' = settled /\ Advance
        /\ DeleteRows(First(orphaned), SweepOrder[next])
    BY <1>3 DEF SweepStore
  <2>2. \A t \in Table : rows'[t] \subseteq rows[t]
    BY <1>3, JobFrame DEF JobStep
  <2>3. SweepOrder[next] \subseteq Table
    BY <2>1, TablesFacts DEF TypeOK, SweepOrder, ConversationTables, FactsTables,
       StoryTables, CapabilityTables, InterestsTables, TraitsTables,
       TelemetryTables
  <2>4. \A t \in SweepOrder[next] : First(orphaned) \notin rows'[t]
    BY <2>1, <2>3 DEF DeleteRows
  <2>. QED
    BY <2>1, <2>2, <2>4, AdvanceKeepsSweepInv
<1>4. CASE ScrubFails
  <2>1. /\ pc = "sweep" /\ pc' = "sweep" /\ settled' = settled /\ rows' = rows
        /\ Advance /\ SweepOrder[next] \ TelemetryTables = {}
    BY <1>4 DEF ScrubFails, dbVars
  <2>. QED
    BY <2>1, AdvanceKeepsSweepInv
<1>5. CASE (JobStep \/ RunFails) /\ ~ScanTable /\ ~SweepStore
  <2>1. pc' # "sweep"
    BY <1>5 DEF JobStep, RunFails, JobStops, StartRun, DeleteOldTelemetry,
       ReadExisting, StoreRaises, SweepDone, ReadPairsExisting, ScanPairs,
       SweepPair, PairRaises, FinishRun
  <2>. QED
    BY <2>1 DEF SweepInv
<1>6. CASE UNCHANGED vars
  BY <1>6 DEF vars, dbVars, jobVars, SweepInv, Clean
<1>. QED
  BY <1>1, <1>2, <1>3, <1>4, <1>5, <1>6, JobCases

(***************************************************************************)
(* The pair sweep, and the rows it leaves.                                 *)
(***************************************************************************)
LEMMA PairsStep ==
    /\ TypeOK /\ SettledInv /\ RestInv /\ SweepInv /\ PairsInv
    /\ [Next]_vars
    => PairsInv'
<1>. SUFFICES ASSUME TypeOK, SettledInv, RestInv, SweepInv, PairsInv,
                     [Next]_vars
              PROVE  PairsInv'
  OBVIOUS
<1>. USE TablesFacts
<1>1. CASE \E c \in Child : Request(c) \/ Cascade(c)
  <2>1. UNCHANGED <<pc, next, existing, orphaned, settled>>
    BY <1>1, EnvironmentFrame DEF jobVars
  <2>2. \A d \in settled : \A t \in Table : d \in rows'[t] => d \in rows[t]
    BY <1>1, EnvironmentFrame
  <2>. QED
    BY <2>1, <2>2 DEF PairsInv, Clean, HasRows, ChatTables
<1>2. CASE SweepDone
  BY <1>2 DEF SweepDone, dbVars, SweepInv, PairsInv, Clean
<1>3. CASE ReadPairsExisting
  <2>1. /\ rows' = rows /\ settled' = settled /\ pc = "pairsExisting"
        /\ pc' = "pairsScan" /\ existing' = {c \in Child : HasProfile(c)}
    BY <1>3 DEF ReadPairsExisting, dbVars
  <2>2. \A c \in settled : c \notin existing'
    BY <2>1 DEF SettledInv, Quiet, HasProfile
  <2>. QED
    BY <2>1, <2>2 DEF PairsInv, Clean
<1>4. CASE ScanPairs
  <2>1. /\ rows' = rows /\ settled' = settled /\ pc = "pairsScan"
        /\ pc' = "pairs"
        /\ orphaned' = (rows["parent_chat_sessions"]
                          \cup rows["parent_chat_rolling_summary"]) \ existing
    BY <1>4 DEF ScanPairs, dbVars
  <2>2. \A c \in settled : HasRows(c, ChatTables)' => c \in orphaned'
    BY <2>1 DEF PairsInv, HasRows, ChatTables
  <2>. QED
    BY <2>1, <2>2 DEF PairsInv, Clean
<1>5. ASSUME NEW c \in Child, SweepPair(c) PROVE PairsInv'
  <2>1. /\ pc = "pairs" /\ pc' = "pairs" /\ settled' = settled
        /\ DeleteRows(c, ChatTables) /\ orphaned' = orphaned \ {c}
    BY <1>5 DEF SweepPair
  <2>2. ASSUME NEW d \in settled, HasRows(d, ChatTables)'
        PROVE  d \in orphaned'
    BY <2>1, <2>2 DEF PairsInv, HasRows, DeleteRows, ChatTables
  <2>3. ASSUME NEW d \in settled PROVE Clean(d)'
    BY <2>1 DEF PairsInv, Clean, DeleteRows
  <2>. QED
    BY <2>1, <2>2, <2>3 DEF PairsInv
<1>6. CASE (JobStep \/ RunFails \/ ScrubFails) /\ ~SweepDone
             /\ ~ReadPairsExisting /\ ~ScanPairs
             /\ ~\E c \in Child : SweepPair(c)
  <2>1. pc' \notin {"pairsExisting", "pairsScan", "pairs"}
    BY <1>6 DEF JobStep, RunFails, ScrubFails, JobStops, StartRun,
       DeleteOldTelemetry, ReadExisting, ScanTable, SweepStore, StoreRaises,
       PairRaises, FinishRun
  <2>. QED
    BY <2>1 DEF PairsInv
<1>7. CASE UNCHANGED vars
  BY <1>7 DEF vars, dbVars, jobVars, PairsInv, Clean, HasRows
<1>. QED
  BY <1>1, <1>2, <1>3, <1>4, <1>5, <1>6, <1>7, JobCases

(***************************************************************************)
(* The profiles that stood when the run began.                             *)
(***************************************************************************)
LEMMA StandingStep ==
    TypeOK /\ SettledInv /\ RestInv /\ StandingInv /\ [Next]_vars => StandingInv'
<1>. SUFFICES ASSUME TypeOK, SettledInv, RestInv, StandingInv, [Next]_vars
              PROVE  StandingInv'
  OBVIOUS
<1>1. CASE \E c \in Child : Request(c) \/ Cascade(c)
  <2>1. UNCHANGED <<pc, next, existing, orphaned>>
    BY <1>1, EnvironmentFrame DEF jobVars
  <2>2. \A d \in Child \ fresh' :
            HasProfile(d)' => HasProfile(d) /\ d \in Child \ fresh
    BY <1>1, EnvironmentFrame
  <2>. QED
    BY <2>1, <2>2 DEF StandingInv
<1>2. CASE StartRun
  BY <1>2 DEF StartRun, RestInv, StandingInv
<1>3. CASE ScanTable
  BY <1>3 DEF ScanTable, dbVars, StandingInv, HasProfile
<1>4. CASE ScanPairs
  BY <1>4 DEF ScanPairs, dbVars, StandingInv, HasProfile
<1>5. CASE ReadExisting \/ ReadPairsExisting
  BY <1>5 DEF ReadExisting, ReadPairsExisting, dbVars, StandingInv, HasProfile
<1>6. CASE (JobStep \/ RunFails \/ ScrubFails) /\ ~StartRun /\ ~ScanTable
             /\ ~ScanPairs /\ ~ReadExisting /\ ~ReadPairsExisting
  <2>1. /\ orphaned' \subseteq orphaned /\ fresh' = fresh
        /\ pc' \notin {"scan", "pairsScan"}
    BY <1>6 DEF JobStep, RunFails, ScrubFails, JobStops, DeleteOldTelemetry,
       SweepStore, StoreRaises, SweepDone, SweepPair, PairRaises, FinishRun,
       Advance
  <2>2. profile' = profile
    BY <1>6, JobFrame
  <2>. QED
    BY <2>1, <2>2 DEF StandingInv, HasProfile
<1>7. CASE UNCHANGED vars
  BY <1>7 DEF vars, dbVars, jobVars, StandingInv, HasProfile
<1>. QED
  BY <1>1, <1>2, <1>3, <1>4, <1>5, <1>6, <1>7, JobCases

-----------------------------------------------------------------------------
LEMMA IInvHolds == Spec => []IInv
<1>1. Init => IInv
  BY TablesFacts, ReferencesFacts, FailuresAssumption
     DEF Init, IInv, TypeOK, ProfileState, PC, RefIntegrity, SettledInv,
         RestInv, ScanInv, SweepInv, PairsInv, StandingInv, HasProfile
<1>2. IInv /\ [Next]_vars => IInv'
  BY TypeStep, RefIntegrityStep, SettledStep, RestStep, ScanStep, SweepStep,
     PairsStep, StandingStep DEF IInv
<1>. QED
  BY <1>1, <1>2, PTL DEF Spec

(***************************************************************************)
(* A run that reaches its audit line has erased every child that was       *)
(* settled when it began, for any number of children, interleaved requests *)
(* and cascades, and failures of earlier runs.                             *)
(***************************************************************************)
THEOREM AuditedRunsAreComplete == Spec => []AuditedRunLeavesNoOrphans
<1>1. IInv => AuditedRunLeavesNoOrphans
  <2>. SUFFICES ASSUME IInv, pc = "pairs", orphaned = {}, NEW c \in settled,
                       NEW t \in Table \ TelemetryTables
                PROVE  c \notin rows[t]
    BY DEF AuditedRunLeavesNoOrphans, HasRows
  <2>1. Clean(c) /\ ~HasRows(c, ChatTables)
    BY DEF IInv, PairsInv
  <2>2. /\ rows["conversation_turns"] \subseteq rows["conversations"]
        /\ rows["parent_chat_messages"] \subseteq rows["parent_chat_sessions"]
    BY ReferencesFacts DEF IInv, RefIntegrity
  <2>3. CASE t \in ScannedTable
    BY <2>1, <2>3 DEF Clean
  <2>4. CASE t \in ChatTables
    BY <2>1, <2>4 DEF HasRows
  <2>5. CASE t = "conversation_turns"
    BY <2>1, <2>2, <2>5, TablesFacts DEF Clean, TelemetryTables
  <2>6. CASE t = "parent_chat_messages"
    BY <2>1, <2>2, <2>6 DEF HasRows, ChatTables
  <2>. QED
    BY <2>3, <2>4, <2>5, <2>6, TablesFacts DEF ChatTables
<1>. QED
  BY <1>1, IInvHolds, PTL

(***************************************************************************)
(* No run of the sweep deletes a row of a child whose profile exists and   *)
(* was there when the run began, soft-deleted or not.                      *)
(***************************************************************************)
THEOREM SweepSparesStanding == Spec => SweepSparesStandingProfiles
<1>1. ASSUME IInv, Sweeping, NEW c \in Child \ fresh, HasProfile(c)
      PROVE  Spared(c)
  <2>1. c \notin orphaned
    BY <1>1 DEF IInv, StandingInv
  <2>2. CASE SweepStore
    <3>1. First(orphaned) \in orphaned
      BY <1>1, <2>2, FirstIsMember, ChildAssumption
         DEF SweepStore, IInv, TypeOK
    <3>. QED
      BY <2>1, <2>2, <3>1 DEF SweepStore, DeleteRows, Spared
  <2>3. CASE \E d \in Child : SweepPair(d)
    BY <2>1, <2>3 DEF SweepPair, DeleteRows, Spared
  <2>. QED
    BY <1>1, <2>2, <2>3 DEF Sweeping
<1>2. IInv => [Sweeping => \A c \in Child \ fresh : HasProfile(c) => Spared(c)]_vars
  BY <1>1
<1>. QED
  BY <1>2, IInvHolds, PTL DEF SweepSparesStandingProfiles
=============================================================================
