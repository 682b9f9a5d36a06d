----------------------------- MODULE Capability -----------------------------
(***************************************************************************)
(* Capability observations of one child and the best-so-far state that is  *)
(* aggregated from them (capability_datastore.py), with the seeding of     *)
(* zero-valued state (capability_seed.py) and the deletion of both tables. *)
(*                                                                         *)
(* Transactions run at PostgreSQL's default level, READ COMMITTED. One     *)
(* that inserts an observation first sends it and reads the state row,     *)
(* then writes the row and commits: two steps. The ORM writes only the     *)
(* columns whose value differs from what it read, into the row with the    *)
(* primary key it read; if that row is gone, it raises and rolls back.     *)
(*                                                                         *)
(* Scores are in hundredths. A time of 0 is a column that is NULL.         *)
(***************************************************************************)
EXTENDS Integers, Sequences, FiniteSets

CONSTANTS
    Item,         \* the capability items of the registry
    Observation,  \* the observations there are to insert
    Worker,       \* the callers of the datastore
    MaxCalls,     \* bound: transactions of the workers
    MaxRows       \* bound: state rows ever made

Status == {"not_observed", "emerging", "demonstrated"}

ASSUME ObservationAssumption ==
    /\ Observation \subseteq
          [id : Nat, item : Item, status : Status, at : Nat \ {0}]
    /\ Observation # {}
ASSUME ItemAssumption == IsFiniteSet(Item)
ASSUME BoundsAssumption == MaxCalls \in Nat /\ MaxRows \in Nat

VARIABLES
    observations,  \* the rows of child_capability_observations
    state,         \* item |-> its row of child_capability_state
    rows,          \* rows made so far: the next primary key
    pc, call, read, inserts,  \* each worker's transaction
    erasing,       \* delete_all_for_child: the rows its first delete took
    seeding,       \* seed_child_capability_state: between its transactions
    calls,
    counted,       \* history: item |-> what its row has aggregated
    past           \* history: has a call been a recalculation, have two overlapped?

worker == <<pc, call, read, inserts>>
vars == <<observations, state, rows, worker, erasing, seeding, calls, counted, past>>

_STATUS_RANK == [not_observed |-> 0, emerging |-> 1, demonstrated |-> 2]
MASTERY_MAX == 100
MasteryDelta == [not_observed |-> 0, emerging |-> 10, demonstrated |-> 33]

Row == [id : Nat \ {0}, current_status : Status, mastery_score : 0..MASTERY_MAX,
        evidence_count : Nat, first_observed_at : Nat, last_observed_at : Nat]

\* A row of zeros, as seeding inserts it; with key 0, no row at all.
Zero(id) == [id |-> id, current_status |-> "not_observed", mastery_score |-> 0,
             evidence_count |-> 0, first_observed_at |-> 0, last_observed_at |-> 0]
NoRow == Zero(0)
Exists(i) == state[i] # NoRow

AtMost(limit, n) == IF n > limit THEN limit ELSE n

-----------------------------------------------------------------------------
(***************************************************************************)
(* Aggregation: _update_capability_state_in_session.                       *)
(***************************************************************************)
\* Mutant of Aggregate: the last status wins.
AggregateLatest(row, o) ==
    [row EXCEPT
        !.current_status = o.status,
        !.mastery_score = AtMost(MASTERY_MAX, @ + MasteryDelta[o.status]),
        !.evidence_count = @ + 1,
        !.first_observed_at = IF @ = 0 THEN o.at ELSE @,
        !.last_observed_at = o.at]

\* Mutant of Aggregate: the first time is overwritten.
AggregateFirst(row, o) ==
    [row EXCEPT
        !.current_status =
            IF _STATUS_RANK[o.status] >= _STATUS_RANK[@] THEN o.status ELSE @,
        !.mastery_score = AtMost(MASTERY_MAX, @ + MasteryDelta[o.status]),
        !.evidence_count = @ + 1,
        !.first_observed_at = o.at,
        !.last_observed_at = o.at]

\* Mutant of Aggregate: the score is not capped.
AggregateUncapped(row, o) ==
    [row EXCEPT
        !.current_status =
            IF _STATUS_RANK[o.status] >= _STATUS_RANK[@] THEN o.status ELSE @,
        !.mastery_score = @ + MasteryDelta[o.status],
        !.evidence_count = @ + 1,
        !.first_observed_at = IF @ = 0 THEN o.at ELSE @,
        !.last_observed_at = o.at]

Aggregate(row, o) ==
    [row EXCEPT
        !.current_status =
            IF _STATUS_RANK[o.status] >= _STATUS_RANK[@] THEN o.status ELSE @,
        !.mastery_score = AtMost(MASTERY_MAX, @ + MasteryDelta[o.status]),
        !.evidence_count = @ + 1,
        !.first_observed_at = IF @ = 0 THEN o.at ELSE @,
        !.last_observed_at = o.at]

\* The columns that changed since the row was read go into the row as it is.
Written(before, after, row) ==
    [c \in DOMAIN row |-> IF after[c] # before[c] THEN after[c] ELSE row[c]]

\* The transaction is over, with a commit or a rollback.
Done(w) == /\ pc' = [pc EXCEPT ![w] = "idle"]
           /\ UNCHANGED <<call, read, inserts>>

Keep(w) ==
    /\ observations' = IF inserts[w] THEN observations \cup {call[w]} ELSE observations
    /\ counted' = [counted EXCEPT ![call[w].item] = Append(@, call[w])]

-----------------------------------------------------------------------------
(***************************************************************************)
(* insert_capability_observation and update_capability_state.              *)
(***************************************************************************)
Begin(w, o, insert) ==
    /\ pc[w] = "idle"
    /\ calls < MaxCalls
    /\ calls' = calls + 1
    /\ pc' = [pc EXCEPT ![w] = "write"]
    /\ call' = [call EXCEPT ![w] = o]
    /\ inserts' = [inserts EXCEPT ![w] = insert]
    /\ read' = [read EXCEPT ![w] = state[o.item]]
    /\ past' = past \cup (IF insert THEN {} ELSE {"recalculated"})
                    \cup {h \in {"overlapped"} : \E v \in Worker : pc[v] = "write"}
    /\ UNCHANGED <<observations, state, rows, erasing, seeding, counted>>

\* The flush of the observation is refused when its id is in the table, and
\* waits while another transaction is inserting it.
BeginInsert(w) ==
    \E o \in Observation \ observations :
        /\ \A v \in Worker : pc[v] = "write" /\ inserts[v] => call[v] # o
        /\ Begin(w, o, TRUE)

\* A recalculation replays an observation of the table.
BeginUpdate(w) == \E o \in observations : Begin(w, o, FALSE)

\* Mutant of UpdateRow: the row is found by its item, not by its key.
UpdateRowByItem(w) ==
    LET o == call[w] IN
    /\ pc[w] = "write"
    /\ read[w] # NoRow
    /\ Exists(o.item)
    /\ state' = [state EXCEPT ![o.item] = Written(read[w], Aggregate(read[w], o), @)]
    /\ Keep(w)
    /\ Done(w)
    /\ UNCHANGED <<rows, erasing, seeding, calls, past>>

UpdateRow(w) ==
    LET o == call[w] IN
    /\ pc[w] = "write"
    /\ read[w] # NoRow
    /\ state[o.item].id = read[w].id
    /\ state' = [state EXCEPT ![o.item] = Written(read[w], Aggregate(read[w], o), @)]
    /\ Keep(w)
    /\ Done(w)
    /\ UNCHANGED <<rows, erasing, seeding, calls, past>>

InsertRow(w) ==
    LET o == call[w] IN
    /\ pc[w] = "write"
    /\ read[w] = NoRow
    /\ ~Exists(o.item)
    /\ rows < MaxRows
    /\ rows' = rows + 1
    /\ state' = [state EXCEPT ![o.item] = Aggregate(Zero(rows + 1), o)]
    /\ Keep(w)
    /\ Done(w)
    /\ UNCHANGED <<erasing, seeding, calls, past>>

\* The row it read is gone, a row it did not see is there (one row per child
\* and item), or the database fails: everything is rolled back.
RollBack(w) ==
    /\ pc[w] = "write"
    /\ Done(w)
    /\ UNCHANGED <<observations, state, rows, erasing, seeding, calls, counted, past>>

-----------------------------------------------------------------------------
(***************************************************************************)
(* delete_all_for_child: the observations, then the state, in one          *)
(* transaction whose two statements see what was committed before each.    *)
(***************************************************************************)
EraseObservations ==
    /\ calls < MaxCalls
    /\ calls' = calls + 1
    /\ erasing = {}
    /\ observations # {}
    /\ erasing' = observations
    /\ UNCHANGED <<observations, state, rows, worker, seeding, counted, past>>

EraseState ==
    /\ erasing # {}
    /\ observations' = observations \ erasing
    /\ state' = [i \in Item |-> NoRow]
    /\ counted' = [i \in Item |-> <<>>]
    /\ erasing' = {}
    /\ UNCHANGED <<rows, worker, seeding, calls, past>>

(***************************************************************************)
(* seed_child_capability_state: a transaction that deletes the state and   *)
(* one that inserts a row of zeros per item of the registry.               *)
(***************************************************************************)
SeedDelete ==
    /\ seeding # "insert"
    /\ rows + Cardinality(Item) <= MaxRows
    /\ state' = [i \in Item |-> NoRow]
    /\ counted' = [i \in Item |-> <<>>]
    /\ seeding' = "insert"
    /\ UNCHANGED <<observations, rows, worker, erasing, calls, past>>

SeedInsert ==
    /\ seeding = "insert"
    /\ \A i \in Item : ~Exists(i)
    /\ rows + Cardinality(Item) <= MaxRows
    /\ rows' = rows + Cardinality(Item)
    /\ \E key \in [Item -> rows + 1 .. rows'] :
          /\ \A i, j \in Item : key[i] = key[j] => i = j
          /\ state' = [i \in Item |-> Zero(key[i])]
    /\ seeding' = "returned"
    /\ UNCHANGED <<observations, worker, erasing, calls, counted, past>>

\* A row that is there already makes the whole insert fail; the error is
\* logged and the call returns.
SeedConflicts ==
    /\ seeding = "insert"
    /\ \E i \in Item : Exists(i)
    /\ seeding' = "returned"
    /\ UNCHANGED <<observations, state, rows, worker, erasing, calls, counted, past>>

\* The process stops between the two transactions.
SeedStops ==
    /\ seeding = "insert"
    /\ seeding' = "idle"
    /\ UNCHANGED <<observations, state, rows, worker, erasing, calls, counted, past>>

-----------------------------------------------------------------------------
Init ==
    /\ observations = {}
    /\ state = [i \in Item |-> NoRow]
    /\ rows = 0
    /\ pc = [w \in Worker |-> "idle"]
    /\ call = [w \in Worker |-> CHOOSE o \in Observation : TRUE]
    /\ read = [w \in Worker |-> NoRow]
    /\ inserts = [w \in Worker |-> FALSE]
    /\ erasing = {}
    /\ seeding = "idle"
    /\ calls = 0
    /\ counted = [i \in Item |-> <<>>]
    /\ past = {}

Observe(w) == \/ BeginInsert(w) \/ BeginUpdate(w)
              \/ UpdateRow(w) \/ InsertRow(w) \/ RollBack(w)
Erase == EraseObservations \/ EraseState
Seed  == SeedDelete \/ SeedInsert \/ SeedConflicts \/ SeedStops

Next == (\E w \in Worker : Observe(w)) \/ Erase \/ Seed

Spec == Init /\ [][Next]_vars

-----------------------------------------------------------------------------
TypeOK ==
    /\ observations \subseteq Observation
    /\ state \in [Item -> Row \cup {NoRow}]
    /\ rows \in 0..MaxRows
    /\ pc \in [Worker -> {"idle", "write"}]
    /\ call \in [Worker -> Observation]
    /\ read \in [Worker -> Row \cup {NoRow}]
    /\ inserts \in [Worker -> BOOLEAN]
    /\ erasing \subseteq Observation
    /\ seeding \in {"idle", "insert", "returned"}
    /\ calls \in 0..MaxCalls
    /\ counted \in [Item -> Seq(Observation)]
    /\ past \subseteq {"recalculated", "overlapped"}

(***************************************************************************)
(* The state never claims more than the observations that are in the table *)
(* support: not a better status, not more evidence, not a higher score.    *)
(* Each observation counts once, however often its insert is retried and   *)
(* however many updates are lost, and nothing survives the deletion of     *)
(* what it was computed from. Only a recalculation counts an observation   *)
(* again.                                                                  *)
(***************************************************************************)
Of(i, s) == Cardinality({o \in observations : o.item = i /\ o.status = s})

StateIsBacked ==
    "recalculated" \notin past => \A i \in Item : Exists(i) =>
        /\ state[i].current_status = "not_observed" \/ Of(i, state[i].current_status) > 0
        /\ state[i].evidence_count <= Cardinality({o \in observations : o.item = i})
        /\ state[i].mastery_score <= 33 * Of(i, "demonstrated") + 10 * Of(i, "emerging")

(***************************************************************************)
(* The aggregation rules of CAPABILITY_FRAMEWORK.md, as a function of the  *)
(* whole history of a row: the best status, the capped sum of the deltas,  *)
(* the number of observations, the first time and the last one. Each row   *)
(* is that function as long as the callers come one at a time.             *)
(***************************************************************************)
Times(h, s) == Cardinality({n \in DOMAIN h : h[n].status = s})

Best(h) ==
    CHOOSE s \in Status :
        /\ s = "not_observed" \/ Times(h, s) > 0
        /\ \A n \in DOMAIN h : _STATUS_RANK[h[n].status] <= _STATUS_RANK[s]

AggregateOf(h) ==
    [current_status |-> Best(h),
     mastery_score |-> AtMost(100, 33 * Times(h, "demonstrated") + 10 * Times(h, "emerging")),
     evidence_count |-> Len(h),
     first_observed_at |-> IF h = <<>> THEN 0 ELSE h[1].at,
     last_observed_at |-> IF h = <<>> THEN 0 ELSE h[Len(h)].at]

StateIsAggregate ==
    "overlapped" \notin past => \A i \in Item : Exists(i) =>
        \A c \in DOMAIN AggregateOf(<<>>) : state[i][c] = AggregateOf(counted[i])[c]

(***************************************************************************)
(* "Best status seen (never regresses)" (DATABASE_SCHEMA.md), for as long  *)
(* as the row is there: whatever the callers do, and if they come one at a *)
(* time.                                                                   *)
(***************************************************************************)
Regresses ==
    \E i \in Item :
        /\ Exists(i)
        /\ state'[i].id = state[i].id
        /\ ~(_STATUS_RANK[state'[i].current_status] >= _STATUS_RANK[state[i].current_status])

StatusNeverRegresses == [][~Regresses]_vars

SerialStatusNeverRegresses == []["overlapped" \notin past => ~Regresses]_vars
=============================================================================
