-------------------------- MODULE CapabilityProofs --------------------------
(***************************************************************************)
(* What the capability state may claim, for any items, observations and    *)
(* number of concurrent callers: no more than the observations support.    *)
(***************************************************************************)
EXTENDS Capability, FiniteSetTheorems, TLAPS

LEMMA BestMonotone ==
  ASSUME NEW S, NEW T, IsFiniteSet(T), S \subseteq T
  PROVE  Cardinality(S) \in Nat /\ Cardinality(T) \in Nat
         /\ Cardinality(S) <= Cardinality(T)
  BY FS_Subset, FS_CardinalityType

(***************************************************************************)
(* The observations of one kind, in a set; adding one of the kind adds one *)
(* to their number.                                                        *)
(***************************************************************************)
Among(S, i, s) == {o \in S : o.item = i /\ o.status = s}
About(S, i) == {o \in S : o.item = i}

LEMMA CountsGrow ==
  ASSUME NEW S, NEW T, IsFiniteSet(T), S \subseteq T, NEW i, NEW s
  PROVE  /\ Cardinality(About(S, i)) \in Nat
         /\ Cardinality(Among(S, i, s)) \in Nat
         /\ Cardinality(About(S, i)) <= Cardinality(About(T, i))
         /\ Cardinality(Among(S, i, s)) <= Cardinality(Among(T, i, s))
<1>1. /\ About(S, i) \subseteq About(T, i) /\ About(T, i) \subseteq T
      /\ Among(S, i, s) \subseteq Among(T, i, s) /\ Among(T, i, s) \subseteq T
  BY DEF About, Among
<1>2. IsFiniteSet(About(T, i)) /\ IsFiniteSet(Among(T, i, s))
  BY <1>1, FS_Subset
<1>3. QED
  BY <1>1, <1>2, BestMonotone

LEMMA CountsAdd ==
  ASSUME NEW S, IsFiniteSet(S), NEW o, o \notin S
  PROVE  /\ IsFiniteSet(S \cup {o})
         /\ Cardinality(About(S \cup {o}, o.item)) = Cardinality(About(S, o.item)) + 1
         /\ Cardinality(Among(S \cup {o}, o.item, o.status))
               = Cardinality(Among(S, o.item, o.status)) + 1
<1>1. /\ About(S \cup {o}, o.item) = About(S, o.item) \cup {o}
      /\ Among(S \cup {o}, o.item, o.status) = Among(S, o.item, o.status) \cup {o}
      /\ o \notin About(S, o.item) /\ o \notin Among(S, o.item, o.status)
      /\ About(S, o.item) \subseteq S /\ Among(S, o.item, o.status) \subseteq S
  BY DEF About, Among
<1>2. IsFiniteSet(About(S, o.item)) /\ IsFiniteSet(Among(S, o.item, o.status))
  BY <1>1, FS_Subset
<1>3. QED
  BY <1>1, <1>2, FS_AddElement

-----------------------------------------------------------------------------
(***************************************************************************)
(* Aggregation keeps a row a row.                                          *)
(***************************************************************************)
LEMMA ZeroType == ASSUME NEW id \in Nat \ {0} PROVE Zero(id) \in Row /\ Zero(id).id = id
  BY DEF Zero, Row, Status, MASTERY_MAX

LEMMA KeyTells == \A r \in Row \cup {NoRow} : r = NoRow <=> r.id = 0
  BY DEF Row, NoRow, Zero

LEMMA AggregateType ==
  ASSUME NEW row \in Row, NEW o \in Observation
  PROVE  /\ Aggregate(row, o) \in Row
         /\ Aggregate(row, o).id = row.id
         /\ Aggregate(row, o).evidence_count = row.evidence_count + 1
         /\ Aggregate(row, o).mastery_score <= row.mastery_score + MasteryDelta[o.status]
         /\ Aggregate(row, o).current_status \in {row.current_status, o.status}
<1>1. o.status \in Status /\ o.at \in Nat
  BY ObservationAssumption
<1>2. MasteryDelta[o.status] \in {0, 10, 33}
  BY <1>1 DEF MasteryDelta, Status
<1>3. AtMost(MASTERY_MAX, row.mastery_score + MasteryDelta[o.status]) \in 0..MASTERY_MAX
  BY <1>2 DEF AtMost, MASTERY_MAX, Row
<1>4. AtMost(MASTERY_MAX, row.mastery_score + MasteryDelta[o.status])
        <= row.mastery_score + MasteryDelta[o.status]
  BY <1>2 DEF AtMost, MASTERY_MAX, Row
<1>5. PICK best \in {row.current_status, o.status}, first \in {row.first_observed_at, o.at} :
        Aggregate(row, o) =
          [id |-> row.id, current_status |-> best,
           mastery_score |-> AtMost(MASTERY_MAX, row.mastery_score + MasteryDelta[o.status]),
           evidence_count |-> row.evidence_count + 1,
           first_observed_at |-> first, last_observed_at |-> o.at]
  <2> DEFINE best == IF _STATUS_RANK[o.status] >= _STATUS_RANK[row.current_status]
                     THEN o.status ELSE row.current_status
             first == IF row.first_observed_at = 0 THEN o.at ELSE row.first_observed_at
  <2>1. Aggregate(row, o) =
          [row EXCEPT !.current_status = best,
             !.mastery_score = AtMost(MASTERY_MAX, @ + MasteryDelta[o.status]),
             !.evidence_count = @ + 1, !.first_observed_at = first,
             !.last_observed_at = o.at]
    BY DEF Aggregate, Row
  <2>2. best \in {row.current_status, o.status} /\ first \in {row.first_observed_at, o.at}
    OBVIOUS
  <2> HIDE DEF best, first
  <2>3. QED
    BY <2>1, <2>2 DEF Row
<1>6. QED
  BY <1>1, <1>3, <1>4, <1>5 DEF Row

LEMMA WrittenType ==
  ASSUME NEW before \in Row, NEW row \in Row, NEW after \in Row
  PROVE  /\ Written(before, after, row) \in Row
         /\ after.id = before.id => Written(before, after, row).id = row.id
         /\ Written(before, after, row).evidence_count
               \in {after.evidence_count, row.evidence_count}
         /\ Written(before, after, row).mastery_score
               \in {after.mastery_score, row.mastery_score}
         /\ Written(before, after, row).current_status
               \in {after.current_status, row.current_status}
         /\ after.current_status = before.current_status =>
               Written(before, after, row).current_status = row.current_status
<1>1. DOMAIN row = {"id", "current_status", "mastery_score", "evidence_count",
                    "first_observed_at", "last_observed_at"}
  BY DEF Row
<1>2. Written(before, after, row) =
        [id |-> IF after.id # before.id THEN after.id ELSE row.id,
         current_status |-> IF after.current_status # before.current_status
                            THEN after.current_status ELSE row.current_status,
         mastery_score |-> IF after.mastery_score # before.mastery_score
                           THEN after.mastery_score ELSE row.mastery_score,
         evidence_count |-> IF after.evidence_count # before.evidence_count
                            THEN after.evidence_count ELSE row.evidence_count,
         first_observed_at |-> IF after.first_observed_at # before.first_observed_at
                               THEN after.first_observed_at ELSE row.first_observed_at,
         last_observed_at |-> IF after.last_observed_at # before.last_observed_at
                              THEN after.last_observed_at ELSE row.last_observed_at]
  BY <1>1 DEF Written
<1>3. QED
  BY <1>2 DEF Row

-----------------------------------------------------------------------------
(***************************************************************************)
(* A row is supported by a set of observations when it claims no more      *)
(* evidence and no higher score than they give, and its status was seen    *)
(* among them.                                                             *)
(***************************************************************************)
Limit(S, i) == 33 * Cardinality(Among(S, i, "demonstrated"))
               + 10 * Cardinality(Among(S, i, "emerging"))

Supported(S, i, row) ==
    /\ row.evidence_count <= Cardinality(About(S, i))
    /\ row.mastery_score <= Limit(S, i)

Seen(S, i, s) == s = "not_observed" \/ Cardinality(Among(S, i, s)) > 0

LEMMA SupportGrows ==
  ASSUME NEW S, NEW T, IsFiniteSet(T), S \subseteq T, NEW i,
         NEW row \in Row \cup {NoRow}
  PROVE  /\ Supported(S, i, row) => Supported(T, i, row)
         /\ \A s \in Status : Seen(S, i, s) => Seen(T, i, s)
<1>1. row.evidence_count \in Nat /\ row.mastery_score \in Nat
  BY DEF Row, NoRow, Zero, MASTERY_MAX
<1>2. /\ Cardinality(About(S, i)) \in Nat
      /\ Cardinality(About(T, i)) \in Nat
      /\ Cardinality(About(S, i)) <= Cardinality(About(T, i))
  BY CountsGrow
<1>3. \A s : /\ Cardinality(Among(S, i, s)) \in Nat
             /\ Cardinality(Among(T, i, s)) \in Nat
             /\ Cardinality(Among(S, i, s)) <= Cardinality(Among(T, i, s))
  BY CountsGrow
<1>4. Limit(S, i) \in Nat /\ Limit(T, i) \in Nat /\ Limit(S, i) <= Limit(T, i)
  BY <1>3 DEF Limit
<1>5. QED
  BY <1>1, <1>2, <1>3, <1>4 DEF Supported, Seen

LEMMA AggregateSupported ==
  ASSUME NEW S, IsFiniteSet(S), NEW o \in Observation, o \notin S,
         NEW row \in Row, Supported(S, o.item, row)
  PROVE  /\ Supported(S \cup {o}, o.item, Aggregate(row, o))
         /\ Seen(S \cup {o}, o.item, o.status)
<1> DEFINE T == S \cup {o}
<1>1. /\ IsFiniteSet(T) /\ S \subseteq T
      /\ Cardinality(About(T, o.item)) = Cardinality(About(S, o.item)) + 1
      /\ Cardinality(Among(T, o.item, o.status))
            = Cardinality(Among(S, o.item, o.status)) + 1
  BY CountsAdd
<1>2. \A s : /\ Cardinality(Among(S, o.item, s)) \in Nat
             /\ Cardinality(Among(T, o.item, s)) \in Nat
             /\ Cardinality(Among(S, o.item, s)) <= Cardinality(Among(T, o.item, s))
  BY <1>1, CountsGrow
<1>3. Cardinality(About(S, o.item)) \in Nat
  BY <1>1, CountsGrow
<1>4. o.status \in Status
  BY ObservationAssumption
<1> HIDE DEF T
<1>5. Limit(T, o.item) >= Limit(S, o.item) + MasteryDelta[o.status]
  <2>1. CASE o.status = "demonstrated"
    BY <1>1, <1>2, <2>1 DEF Limit, MasteryDelta
  <2>2. CASE o.status = "emerging"
    BY <1>1, <1>2, <2>2 DEF Limit, MasteryDelta
  <2>3. CASE o.status = "not_observed"
    BY <1>2, <2>3 DEF Limit, MasteryDelta
  <2>4. QED
    BY <1>4, <2>1, <2>2, <2>3 DEF Status
<1>6. Limit(S, o.item) \in Nat /\ Limit(T, o.item) \in Nat
  BY <1>2 DEF Limit
<1>7. MasteryDelta[o.status] \in Nat
  BY <1>4 DEF MasteryDelta, Status
<1>8. row.mastery_score \in Nat /\ row.evidence_count \in Nat
  BY DEF Row, MASTERY_MAX
<1>9. Aggregate(row, o).mastery_score \in Nat
  BY AggregateType DEF Row, MASTERY_MAX
<1>10. Supported(T, o.item, Aggregate(row, o))
  <2>1. /\ Aggregate(row, o).evidence_count = row.evidence_count + 1
        /\ Aggregate(row, o).mastery_score
             <= row.mastery_score + MasteryDelta[o.status]
    BY AggregateType
  <2>2. /\ row.evidence_count <= Cardinality(About(S, o.item))
        /\ row.mastery_score <= Limit(S, o.item)
    BY DEF Supported
  <2>3. Aggregate(row, o).evidence_count <= Cardinality(About(T, o.item))
    BY <1>1, <1>3, <1>8, <2>1, <2>2
  <2>4. Aggregate(row, o).mastery_score <= Limit(T, o.item)
    BY <1>5, <1>6, <1>7, <1>8, <1>9, <2>1, <2>2
  <2>5. QED
    BY <2>3, <2>4 DEF Supported
<1>11. Seen(T, o.item, o.status)
  BY <1>1, <1>2 DEF Seen
<1>12. QED
  BY <1>10, <1>11 DEF T

(***************************************************************************)
(* Even when the row has moved on since it was read, what is written into  *)
(* it is supported: every column is its own or the aggregate's.            *)
(***************************************************************************)
LEMMA WrittenSupported ==
  ASSUME NEW S, IsFiniteSet(S), NEW o \in Observation, o \notin S,
         NEW before \in Row, NEW row \in Row,
         Supported(S, o.item, before), Supported(S, o.item, row),
         Seen(S, o.item, row.current_status)
  PROVE  /\ Written(before, Aggregate(before, o), row) \in Row
         /\ Written(before, Aggregate(before, o), row).id = row.id
         /\ Supported(S \cup {o}, o.item, Written(before, Aggregate(before, o), row))
         /\ Seen(S \cup {o}, o.item,
                 Written(before, Aggregate(before, o), row).current_status)
<1> DEFINE after == Aggregate(before, o)
           new == Written(before, after, row)
<1>1. after \in Row /\ after.id = before.id
      /\ after.current_status \in {before.current_status, o.status}
  BY AggregateType
<1>2. IsFiniteSet(S \cup {o}) /\ S \subseteq S \cup {o}
  BY FS_AddElement
<1>3. Supported(S \cup {o}, o.item, after) /\ Seen(S \cup {o}, o.item, o.status)
  BY AggregateSupported
<1>4. row.current_status \in Status
  BY DEF Row
<1>5. Supported(S \cup {o}, o.item, row) /\ Seen(S \cup {o}, o.item, row.current_status)
  BY <1>2, <1>4, SupportGrows
<1> HIDE DEF after
<1>6. /\ new \in Row /\ new.id = row.id
      /\ new.evidence_count \in {after.evidence_count, row.evidence_count}
      /\ new.mastery_score \in {after.mastery_score, row.mastery_score}
      /\ new.current_status \in {after.current_status, row.current_status}
      /\ after.current_status = before.current_status =>
            new.current_status = row.current_status
  BY <1>1, WrittenType
<1>7. new.current_status \in {o.status, row.current_status}
  BY <1>1, <1>6
<1> HIDE DEF new
<1>8. Supported(S \cup {o}, o.item, new)
  BY <1>3, <1>5, <1>6 DEF Supported
<1>9. Seen(S \cup {o}, o.item, new.current_status)
  BY <1>3, <1>5, <1>7
<1>10. QED
  BY <1>6, <1>8, <1>9 DEF new, after

-----------------------------------------------------------------------------
(***************************************************************************)
(* The inductive invariant, when observations only come by insertion. Keys *)
(* of rows are never used again, so the row a transaction read is still    *)
(* there exactly when a row with its key is; and as long as it is there,   *)
(* the observations it was aggregated from are in the table.               *)
(***************************************************************************)
Writing(w) == pc[w] = "write"

KeysInv ==
    /\ \A i \in Item : state[i].id <= rows
    /\ \A w \in Worker : read[w].id <= rows

InsertsInv ==
    /\ \A w \in Worker : Writing(w) => inserts[w] /\ call[w] \notin observations
    /\ \A v, w \in Worker : Writing(v) /\ Writing(w) /\ v # w => call[v] # call[w]

Backed(i, row) == Supported(observations, i, row)

BackedInv ==
    /\ \A i \in Item : Exists(i) =>
          Backed(i, state[i]) /\ Seen(observations, i, state[i].current_status)
    /\ \A w \in Worker :
          /\ Writing(w)
          /\ read[w] # NoRow
          /\ state[call[w].item].id = read[w].id
          => Backed(call[w].item, read[w])

Types ==
    /\ observations \subseteq Observation
    /\ IsFiniteSet(observations)
    /\ state \in [Item -> Row \cup {NoRow}]
    /\ rows \in 0..MaxRows
    /\ pc \in [Worker -> {"idle", "write"}]
    /\ call \in [Worker -> Observation]
    /\ read \in [Worker -> Row \cup {NoRow}]
    /\ inserts \in [Worker -> BOOLEAN]
    /\ erasing \subseteq Observation
    /\ seeding \in {"idle", "insert", "returned"}
    /\ calls \in 0..MaxCalls
    /\ counted \in [Item -> Seq(Observation)]
    /\ past \subseteq {"recalculated", "overlapped"}

LEMMA ItemOfObservation == \A o \in Observation : o.item \in Item
  BY ObservationAssumption

LEMMA InitTypes == Init => Types
<1> USE ObservationAssumption, BoundsAssumption
<1>1. (CHOOSE o \in Observation : TRUE) \in Observation
  OBVIOUS
<1>2. QED
  BY <1>1, FS_EmptySet DEF Init, Types

LEMMA SeedCount == Cardinality(Item) \in Nat
  BY ItemAssumption, FS_CardinalityType

LEMMA Histories ==
  /\ <<>> \in Seq(Observation)
  /\ \A h \in Seq(Observation), o \in Observation : Append(h, o) \in Seq(Observation)
  OBVIOUS

LEMMA TypesStep == Types /\ [Next]_vars => Types'
<1> SUFFICES ASSUME Types, [Next]_vars PROVE Types'
  OBVIOUS
<1> USE BoundsAssumption DEF Types
<1>1. ASSUME NEW w \in Worker, BeginInsert(w) \/ BeginUpdate(w) PROVE Types'
  <2>1. PICK o \in Observation, insert \in BOOLEAN : Begin(w, o, insert)
    BY <1>1 DEF BeginInsert, BeginUpdate
  <2>2. state[o.item] \in Row \cup {NoRow}
    BY ItemOfObservation
  <2>3. /\ pc' \in [Worker -> {"idle", "write"}]
        /\ call' \in [Worker -> Observation]
        /\ read' \in [Worker -> Row \cup {NoRow}]
        /\ inserts' \in [Worker -> BOOLEAN]
        /\ calls' \in 0..MaxCalls
    BY <2>1, <2>2 DEF Begin
  <2>4. QED
    BY <2>1, <2>3 DEF Begin
<1>2. ASSUME NEW w \in Worker, Keep(w) PROVE
        /\ observations' \subseteq Observation /\ IsFiniteSet(observations')
        /\ counted' \in [Item -> Seq(Observation)]
  <2>1. call[w] \in Observation /\ call[w].item \in Item
    BY ItemOfObservation
  <2>2. counted' \in [Item -> Seq(Observation)]
    <3>1. Append(counted[call[w].item], call[w]) \in Seq(Observation)
      BY <2>1, Histories
    <3>2. QED
      BY <1>2, <3>1 DEF Keep
  <2>3. IsFiniteSet(observations \cup {call[w]})
    BY FS_AddElement
  <2>4. QED
    BY <1>2, <2>1, <2>2, <2>3 DEF Keep
<1>3. ASSUME NEW w \in Worker, UpdateRow(w) PROVE Types'
  <2>1. state[call[w].item] \in Row /\ read[w] \in Row
    BY <1>3, KeyTells, ItemOfObservation DEF UpdateRow
  <2>2. Written(read[w], Aggregate(read[w], call[w]), state[call[w].item]) \in Row
    BY <2>1, AggregateType, WrittenType
  <2>3. state' \in [Item -> Row \cup {NoRow}]
    BY <1>3, <2>2 DEF UpdateRow
  <2>4. QED
    BY <1>2, <1>3, <2>3 DEF UpdateRow, Done
<1>4. ASSUME NEW w \in Worker, InsertRow(w) PROVE Types'
  <2>1. Aggregate(Zero(rows + 1), call[w]) \in Row
    <3>1. rows + 1 \in Nat \ {0} /\ call[w] \in Observation
      OBVIOUS
    <3> HIDE DEF Types
    <3>2. Zero(rows + 1) \in Row
      BY <3>1, ZeroType
    <3>3. QED
      BY <3>1, <3>2, AggregateType
  <2>2. state' \in [Item -> Row \cup {NoRow}]
    BY <1>4, <2>1 DEF InsertRow
  <2>3. rows' \in 0..MaxRows
    BY <1>4 DEF InsertRow
  <2>4. QED
    BY <1>2, <1>4, <2>2, <2>3 DEF InsertRow, Done
<1>5. ASSUME NEW w \in Worker, RollBack(w) PROVE Types'
  BY <1>5 DEF RollBack, Done
<1>6. CASE Erase
  <2>1. IsFiniteSet(observations \ erasing)
    BY FS_Subset
  <2>2. CASE EraseObservations
    BY <2>2 DEF EraseObservations, worker
  <2>3. CASE EraseState
    <3>1. counted' \in [Item -> Seq(Observation)]
      BY <2>3, Histories DEF EraseState
    <3>2. QED
      BY <2>1, <2>3, <3>1 DEF EraseState, worker
  <2>4. QED
    BY <1>6, <2>2, <2>3 DEF Erase
<1>7. CASE SeedInsert
  <2>1. PICK key \in [Item -> rows + 1 .. rows'] : state' = [i \in Item |-> Zero(key[i])]
    BY <1>7 DEF SeedInsert
  <2>2. \A i \in Item : key[i] \in Nat \ {0}
    BY SeedCount, <1>7 DEF SeedInsert
  <2>3. state' \in [Item -> Row \cup {NoRow}]
    BY <2>1, <2>2, ZeroType
  <2>4. QED
    BY <1>7, <2>3, SeedCount DEF SeedInsert, worker
<1>8. CASE SeedDelete \/ SeedConflicts \/ SeedStops
  <2>1. counted' \in [Item -> Seq(Observation)]
    BY <1>8, Histories DEF SeedDelete, SeedConflicts, SeedStops
  <2>2. QED
    BY <1>8, <2>1 DEF SeedDelete, SeedConflicts, SeedStops, worker
<1>9. CASE UNCHANGED vars
  BY <1>9 DEF vars, worker
<1>10. QED
  BY <1>1, <1>3, <1>4, <1>5, <1>6, <1>7, <1>8, <1>9 DEF Next, Observe, Seed

(***************************************************************************)
(* The capability datastore's type invariant: the score stays within its   *)
(* CHECK constraint, whatever is lost on the way.                          *)
(***************************************************************************)
THEOREM TypeCorrect == Spec => []TypeOK
<1>1. Types => TypeOK
  BY DEF Types, TypeOK
<1>2. QED
  BY InitTypes, TypesStep, <1>1, PTL DEF Spec

-----------------------------------------------------------------------------
Recalculated == "recalculated" \in past
Overlapped == "overlapped" \in past

LEMMA PastStays ==
  [Next]_vars => past \subseteq past'
  BY DEF Next, vars, Observe, BeginInsert, BeginUpdate, Begin, UpdateRow, InsertRow,
     RollBack, Erase, EraseObservations, EraseState, Seed, SeedDelete, SeedInsert,
     SeedConflicts, SeedStops

IInv == Types /\ KeysInv /\ (~Recalculated => InsertsInv /\ BackedInv)

LEMMA InitIInv == Init => IInv
<1> SUFFICES ASSUME Init PROVE IInv
  OBVIOUS
<1>1. NoRow.id = 0
  BY DEF NoRow, Zero
<1>2. QED
  BY <1>1, InitTypes DEF Init, IInv, KeysInv, InsertsInv, BackedInv, Exists, Writing

LEMMA KeysStep == Types /\ KeysInv /\ [Next]_vars => KeysInv'
<1> SUFFICES ASSUME Types, KeysInv, [Next]_vars PROVE KeysInv'
  OBVIOUS
<1> USE DEF Types, KeysInv
<1>1. /\ rows \in Nat
      /\ \A i \in Item : state[i].id \in Nat
      /\ \A w \in Worker : read[w].id \in Nat
  BY BoundsAssumption DEF Row, NoRow, Zero
<1>2. NoRow.id = 0
  BY DEF NoRow, Zero
<1>3. ASSUME NEW w \in Worker, BeginInsert(w) \/ BeginUpdate(w) PROVE KeysInv'
  <2>1. PICK o \in Observation, insert \in BOOLEAN : Begin(w, o, insert)
    BY <1>3 DEF BeginInsert, BeginUpdate
  <2>2. read' = [read EXCEPT ![w] = state[o.item]] /\ state[o.item].id <= rows
    BY <2>1, ItemOfObservation DEF Begin
  <2>3. UNCHANGED <<state, rows>>
    BY <2>1 DEF Begin
  <2>4. QED
    BY <2>2, <2>3
<1>4. ASSUME NEW w \in Worker, UpdateRow(w) PROVE KeysInv'
  <2>1. state[call[w].item] \in Row /\ read[w] \in Row
    BY <1>4, KeyTells, ItemOfObservation DEF UpdateRow
  <2>2. Written(read[w], Aggregate(read[w], call[w]), state[call[w].item]).id
          = state[call[w].item].id
    BY <2>1, AggregateType, WrittenType
  <2>3. QED
    BY <1>1, <1>4, <2>2 DEF UpdateRow, Done
<1>5. ASSUME NEW w \in Worker, InsertRow(w) PROVE KeysInv'
  <2>1. Aggregate(Zero(rows + 1), call[w]).id = rows + 1
    <3>1. Zero(rows + 1) \in Row /\ Zero(rows + 1).id = rows + 1
      BY <1>1, ZeroType
    <3>2. call[w] \in Observation
      OBVIOUS
    <3>3. QED
      BY <3>1, <3>2, AggregateType
  <2>2. QED
    BY <1>1, <1>5, <2>1 DEF InsertRow, Done
<1>6. ASSUME NEW w \in Worker, RollBack(w) PROVE KeysInv'
  BY <1>6 DEF RollBack, Done
<1>7. CASE EraseObservations \/ SeedConflicts \/ SeedStops \/ UNCHANGED vars
  BY <1>7 DEF EraseObservations, SeedConflicts, SeedStops, vars, worker
<1>8. CASE EraseState \/ SeedDelete
  BY <1>1, <1>2, <1>8 DEF EraseState, SeedDelete, worker
<1>9. CASE SeedInsert
  <2>1. PICK key \in [Item -> rows + 1 .. rows'] : state' = [i \in Item |-> Zero(key[i])]
    BY <1>9 DEF SeedInsert
  <2>2. rows' = rows + Cardinality(Item) /\ Cardinality(Item) \in Nat
    BY <1>9, SeedCount DEF SeedInsert
  <2>3. \A i \in Item : state'[i].id <= rows'
    BY <1>1, <2>1, <2>2, ZeroType
  <2>4. \A w \in Worker : read'[w].id <= rows'
    BY <1>1, <1>9, <2>2 DEF SeedInsert, worker
  <2>5. QED
    BY <2>3, <2>4
<1>10. QED
  BY <1>3, <1>4, <1>5, <1>6, <1>7, <1>8, <1>9 DEF Next, Observe, Erase, Seed

LEMMA NoRecalculation ==
  ASSUME ~Recalculated', NEW w \in Worker PROVE ~BeginUpdate(w)
  BY DEF Recalculated, BeginUpdate, Begin

(***************************************************************************)
(* No two transactions insert one observation, and none that is there.     *)
(***************************************************************************)
LEMMA InsertsStep == ~Recalculated' /\ Types /\ InsertsInv /\ [Next]_vars => InsertsInv'
<1> SUFFICES ASSUME ~Recalculated', Types, InsertsInv, [Next]_vars PROVE InsertsInv'
  OBVIOUS
<1> USE DEF Types, InsertsInv, Writing
<1>1. ASSUME NEW w \in Worker, BeginInsert(w) PROVE InsertsInv'
  BY <1>1 DEF BeginInsert, Begin
<1>2. ASSUME NEW w \in Worker, UpdateRow(w) \/ InsertRow(w) PROVE InsertsInv'
  BY <1>2 DEF UpdateRow, InsertRow, Keep, Done
<1>3. ASSUME NEW w \in Worker, RollBack(w) PROVE InsertsInv'
  BY <1>3 DEF RollBack, Done
<1>4. CASE Erase
  BY <1>4 DEF Erase, EraseObservations, EraseState, worker
<1>5. CASE Seed \/ UNCHANGED vars
  BY <1>5 DEF Seed, SeedDelete, SeedInsert, SeedConflicts, SeedStops, vars, worker
<1>6. QED
  BY <1>1, <1>2, <1>3, <1>4, <1>5, NoRecalculation DEF Next, Observe

(***************************************************************************)
(* Support. Writing adds the observation with the row; a row that is gone  *)
(* can no longer be written from an old reading.                           *)
(***************************************************************************)
LEMMA BackedStep ==
  ~Recalculated' /\ Types /\ KeysInv /\ InsertsInv /\ BackedInv /\ [Next]_vars => BackedInv'
<1> SUFFICES ASSUME ~Recalculated', Types, KeysInv, InsertsInv, BackedInv, [Next]_vars
             PROVE  BackedInv'
  OBVIOUS
<1> USE DEF Types, BackedInv, Backed, Exists, Writing
<1>1. /\ rows \in Nat
      /\ \A i \in Item : state[i].id \in Nat
      /\ \A w \in Worker : read[w].id \in Nat /\ call[w].item \in Item
      /\ NoRow.id = 0
  BY BoundsAssumption, ItemOfObservation DEF Row, NoRow, Zero
<1>2. ASSUME NEW w \in Worker, BeginInsert(w) PROVE BackedInv'
  <2>1. PICK o \in Observation : Begin(w, o, TRUE)
    BY <1>2 DEF BeginInsert
  <2>2. read'[w] = state[o.item] /\ call'[w] = o /\ o.item \in Item
    BY <2>1, ItemOfObservation DEF Begin
  <2>3. \A v \in Worker \ {w} : /\ pc'[v] = pc[v]
                                /\ read'[v] = read[v] /\ call'[v] = call[v]
    BY <2>1 DEF Begin
  <2>4. UNCHANGED <<observations, state>>
    BY <2>1 DEF Begin
  <2>5. QED
    BY <2>2, <2>3, <2>4
<1>3. ASSUME NEW w \in Worker, UpdateRow(w) PROVE BackedInv'
  <2> DEFINE o == call[w]
             row == state[o.item]
             new == Written(read[w], Aggregate(read[w], o), row)
  <2>1. /\ row \in Row /\ read[w] \in Row
        /\ Supported(observations, o.item, row)
        /\ Supported(observations, o.item, read[w])
        /\ Seen(observations, o.item, row.current_status)
    BY <1>1, <1>3, KeyTells DEF UpdateRow
  <2>2. o \notin observations /\ observations' = observations \cup {o}
    BY <1>3 DEF UpdateRow, Keep, InsertsInv
  <2>3. /\ new \in Row /\ new.id = row.id
        /\ Supported(observations', o.item, new)
        /\ Seen(observations', o.item, new.current_status)
    <3>1. IsFiniteSet(observations) /\ o \in Observation
      OBVIOUS
    <3> HIDE DEF Types, BackedInv, o, row
    <3>2. /\ new \in Row /\ new.id = row.id
          /\ Supported(observations \cup {o}, o.item, new)
          /\ Seen(observations \cup {o}, o.item, new.current_status)
      BY <2>1, <2>2, <3>1, WrittenSupported
    <3>3. QED
      BY <2>2, <3>2
  <2>4. observations \subseteq observations' /\ IsFiniteSet(observations')
    BY <2>2, FS_AddElement
  <2>5. /\ state' = [state EXCEPT ![o.item] = new]
        /\ pc' = [pc EXCEPT ![w] = "idle"]
        /\ UNCHANGED <<call, read>>
    BY <1>3 DEF UpdateRow, Done
  <2> HIDE DEF new
  <2>6. \A i \in Item : state'[i] # NoRow =>
          Supported(observations', i, state'[i])
          /\ Seen(observations', i, state'[i].current_status)
    <3> SUFFICES ASSUME NEW i \in Item, state'[i] # NoRow
                 PROVE  /\ Supported(observations', i, state'[i])
                        /\ Seen(observations', i, state'[i].current_status)
      OBVIOUS
    <3>1. CASE i = o.item
      BY <1>1, <2>3, <2>5, <3>1
    <3>2. CASE i # o.item
      <4>1. state'[i] = state[i] /\ state[i] \in Row
        BY <2>5, <3>2
      <4>2. state[i].current_status \in Status
        BY <4>1 DEF Row
      <4>3. QED
        BY <2>4, <4>1, <4>2, SupportGrows
    <3>3. QED
      BY <3>1, <3>2
  <2>7. \A v \in Worker : pc'[v] = "write" /\ read[v] # NoRow
          /\ state'[call[v].item].id = read[v].id
          => Supported(observations', call[v].item, read[v])
    <3> SUFFICES ASSUME NEW v \in Worker, pc'[v] = "write", read[v] # NoRow,
                        state'[call[v].item].id = read[v].id
                 PROVE  Supported(observations', call[v].item, read[v])
      OBVIOUS
    <3>1. pc[v] = "write" /\ state[call[v].item].id = read[v].id
      BY <1>1, <2>3, <2>5
    <3>2. Supported(observations, call[v].item, read[v])
      BY <3>1
    <3>3. QED
      BY <2>4, <3>2, SupportGrows
  <2>8. QED
    BY <2>5, <2>6, <2>7
<1>4. ASSUME NEW w \in Worker, InsertRow(w) PROVE BackedInv'
  <2> DEFINE o == call[w]
             zero == Zero(rows + 1)
             new == Aggregate(zero, o)
  <2>1. o \notin observations /\ observations' = observations \cup {o}
    BY <1>4 DEF InsertRow, Keep, InsertsInv
  <2>2. observations \subseteq observations' /\ IsFiniteSet(observations')
    BY <2>1, FS_AddElement
  <2>3. zero \in Row /\ zero.id = rows + 1
    BY <1>1, ZeroType
  <2>4. Supported(observations, o.item, zero)
    <3>1. /\ Cardinality(About(observations, o.item)) \in Nat
          /\ \A s : Cardinality(Among(observations, o.item, s)) \in Nat
      BY CountsGrow
    <3>2. QED
      BY <3>1 DEF Supported, Limit, Zero
  <2>5. /\ new \in Row /\ new.id = rows + 1
        /\ new.current_status \in {"not_observed", o.status}
    BY <2>3, AggregateType DEF Zero
  <2>6. /\ Supported(observations', o.item, new)
        /\ Seen(observations', o.item, new.current_status)
    BY <2>1, <2>3, <2>4, <2>5, AggregateSupported DEF Seen
  <2>7. /\ state' = [state EXCEPT ![o.item] = new]
        /\ pc' = [pc EXCEPT ![w] = "idle"]
        /\ UNCHANGED <<call, read>>
    BY <1>4 DEF InsertRow, Done
  <2> HIDE DEF new, zero
  <2>8. \A i \in Item : state'[i] # NoRow =>
          Supported(observations', i, state'[i])
          /\ Seen(observations', i, state'[i].current_status)
    <3> SUFFICES ASSUME NEW i \in Item, state'[i] # NoRow
                 PROVE  /\ Supported(observations', i, state'[i])
                        /\ Seen(observations', i, state'[i].current_status)
      OBVIOUS
    <3>1. CASE i = o.item
      BY <1>1, <2>6, <2>7, <3>1
    <3>2. CASE i # o.item
      <4>1. state'[i] = state[i] /\ state[i] \in Row
        BY <2>7, <3>2
      <4>2. state[i].current_status \in Status
        BY <4>1 DEF Row
      <4>3. QED
        BY <2>2, <4>1, <4>2, SupportGrows
    <3>3. QED
      BY <3>1, <3>2
  <2>9. \A v \in Worker : pc'[v] = "write" /\ read[v] # NoRow
          /\ state'[call[v].item].id = read[v].id
          => Supported(observations', call[v].item, read[v])
    <3> SUFFICES ASSUME NEW v \in Worker, pc'[v] = "write", read[v] # NoRow,
                        state'[call[v].item].id = read[v].id
                 PROVE  Supported(observations', call[v].item, read[v])
      OBVIOUS
    \* The new key is above every key that was read.
    <3>1. read[v].id # rows + 1
      BY <1>1 DEF KeysInv
    <3>2. pc[v] = "write" /\ state[call[v].item].id = read[v].id
      BY <1>1, <2>5, <2>7, <3>1
    <3>3. Supported(observations, call[v].item, read[v])
      BY <3>2
    <3>4. QED
      BY <2>2, <3>3, SupportGrows
  <2>10. QED
    BY <2>7, <2>8, <2>9
<1>5. ASSUME NEW w \in Worker, RollBack(w) PROVE BackedInv'
  BY <1>5 DEF RollBack, Done
<1>6. CASE EraseObservations \/ SeedConflicts \/ SeedStops \/ UNCHANGED vars
  BY <1>6 DEF EraseObservations, SeedConflicts, SeedStops, vars, worker
<1>7. CASE EraseState \/ SeedDelete
  <2>1. state' = [i \in Item |-> NoRow] /\ UNCHANGED worker
    BY <1>7 DEF EraseState, SeedDelete
  <2>2. \A w \in Worker : read[w] # NoRow => read[w].id # 0
    BY KeyTells
  <2>3. QED
    BY <1>1, <2>1, <2>2 DEF worker
<1>8. CASE SeedInsert
  <2>1. PICK key \in [Item -> rows + 1 .. rows'] : state' = [i \in Item |-> Zero(key[i])]
    BY <1>8 DEF SeedInsert
  <2>2. \A i \in Item : key[i] \in Nat \ {0} /\ key[i] > rows
    BY <1>1, <1>8, SeedCount DEF SeedInsert
  <2>3. \A i \in Item : state'[i].id > rows
    BY <2>1, <2>2, ZeroType
  <2>4. \A i \in Item : Supported(observations, i, state'[i])
                        /\ Seen(observations, i, state'[i].current_status)
    <3>1. ASSUME NEW i \in Item PROVE
            /\ Cardinality(About(observations, i)) \in Nat
            /\ \A s : Cardinality(Among(observations, i, s)) \in Nat
      BY CountsGrow
    <3>2. QED
      BY <2>1, <3>1 DEF Supported, Limit, Seen, Zero
  <2>5. UNCHANGED <<observations, worker>>
    BY <1>8 DEF SeedInsert
  <2>6. \A w \in Worker : state'[call[w].item].id # read[w].id
    BY <1>1, <2>3 DEF KeysInv
  <2>7. QED
    BY <2>4, <2>5, <2>6 DEF worker
<1>9. QED
  BY <1>2, <1>3, <1>4, <1>5, <1>6, <1>7, <1>8, NoRecalculation
     DEF Next, Observe, Erase, Seed

(***************************************************************************)
(* Whatever the callers, the seeding and the deletion do to each other,    *)
(* and however many updates are lost, the state claims no more than the    *)
(* observations in the table support.                                      *)
(***************************************************************************)
THEOREM StateNeverExaggerates == Spec => []StateIsBacked
<1>1. IInv /\ [Next]_vars => IInv'
  <2>1. [Next]_vars /\ ~Recalculated' => ~Recalculated
    BY PastStays DEF Recalculated
  <2>2. QED
    BY <2>1, TypesStep, KeysStep, InsertsStep, BackedStep DEF IInv
<1>2. IInv => StateIsBacked
  <2> SUFFICES ASSUME IInv, ~Recalculated, NEW i \in Item, Exists(i)
               PROVE /\ \/ state[i].current_status = "not_observed"
                        \/ Of(i, state[i].current_status) > 0
                     /\ state[i].evidence_count
                          <= Cardinality({o \in observations : o.item = i})
                     /\ state[i].mastery_score
                          <= 33 * Of(i, "demonstrated") + 10 * Of(i, "emerging")
    BY DEF StateIsBacked, Recalculated
  <2>1. /\ Supported(observations, i, state[i])
        /\ Seen(observations, i, state[i].current_status)
    BY DEF IInv, BackedInv, Backed
  <2>2. QED
    BY <2>1 DEF Supported, Seen, Limit, Of, Among, About
<1>3. QED
  BY InitIInv, <1>1, <1>2, PTL DEF Spec

-----------------------------------------------------------------------------
(***************************************************************************)
(* As long as the callers come one at a time, the row one writes is the    *)
(* row it read.                                                            *)
(***************************************************************************)
AloneInv == \A v, w \in Worker : Writing(v) /\ Writing(w) => v = w

FreshReadInv ==
    \A w \in Worker :
        /\ Writing(w)
        /\ read[w] # NoRow
        /\ state[call[w].item].id = read[w].id
        => state[call[w].item] = read[w]

Rank(s) == _STATUS_RANK[s]

LEMMA AggregateNeverRegresses ==
  ASSUME NEW row \in Row, NEW o \in Observation
  PROVE  Rank(Written(row, Aggregate(row, o), row).current_status)
           >= Rank(row.current_status)
<1>1. /\ o.status \in Status /\ row.current_status \in Status
  BY ObservationAssumption DEF Row
<1>2. Aggregate(row, o).current_status =
        IF Rank(o.status) >= Rank(row.current_status)
        THEN o.status ELSE row.current_status
  BY DEF Aggregate, Row, Rank
<1>3. Written(row, Aggregate(row, o), row).current_status
        = Aggregate(row, o).current_status
  BY DEF Written, Row
<1>4. QED
  BY <1>1, <1>2, <1>3 DEF Rank, _STATUS_RANK, Status

LEMMA FreshReadStep ==
  /\ ~Overlapped'
  /\ Types /\ KeysInv /\ AloneInv /\ FreshReadInv /\ [Next]_vars
  => AloneInv' /\ FreshReadInv'
<1> SUFFICES ASSUME ~Overlapped', Types, KeysInv, AloneInv, FreshReadInv, [Next]_vars
             PROVE  AloneInv' /\ FreshReadInv'
  OBVIOUS
<1> USE DEF Types, AloneInv, FreshReadInv, Writing
<1>1. /\ rows \in Nat
      /\ \A w \in Worker : read[w].id \in Nat /\ call[w].item \in Item
      /\ NoRow.id = 0
  BY BoundsAssumption, ItemOfObservation DEF Row, NoRow, Zero
<1>2. ASSUME NEW w \in Worker, BeginInsert(w) \/ BeginUpdate(w)
      PROVE  AloneInv' /\ FreshReadInv'
  <2>1. PICK o \in Observation, insert \in BOOLEAN : Begin(w, o, insert)
    BY <1>2 DEF BeginInsert, BeginUpdate
  <2>2. /\ read'[w] = state[o.item] /\ call'[w] = o /\ UNCHANGED state
        /\ pc' = [pc EXCEPT ![w] = "write"]
        /\ \A v \in Worker : ~Writing(v)
    BY <2>1 DEF Begin, Overlapped
  <2>3. QED
    BY <2>2
<1>3. ASSUME NEW w \in Worker, UpdateRow(w) \/ InsertRow(w) \/ RollBack(w)
      PROVE  AloneInv' /\ FreshReadInv'
  <2>1. \A v \in Worker : pc'[v] = "idle"
    BY <1>3 DEF UpdateRow, InsertRow, RollBack, Done
  <2>2. QED
    BY <2>1
<1>4. CASE EraseObservations \/ SeedConflicts \/ SeedStops \/ UNCHANGED vars
  BY <1>4 DEF EraseObservations, SeedConflicts, SeedStops, vars, worker
<1>5. CASE EraseState \/ SeedDelete
  <2>1. state' = [i \in Item |-> NoRow] /\ UNCHANGED worker
    BY <1>5 DEF EraseState, SeedDelete
  <2>2. \A w \in Worker : read[w] # NoRow => read[w].id # 0
    BY KeyTells
  <2>3. QED
    BY <1>1, <2>1, <2>2 DEF worker
<1>6. CASE SeedInsert
  <2>1. PICK key \in [Item -> rows + 1 .. rows'] : state' = [i \in Item |-> Zero(key[i])]
    BY <1>6 DEF SeedInsert
  <2>2. \A i \in Item : state'[i].id > rows
    BY <1>1, <1>6, <2>1, SeedCount, ZeroType DEF SeedInsert
  <2>3. \A w \in Worker : state'[call[w].item].id # read[w].id
    BY <1>1, <2>2 DEF KeysInv
  <2>4. UNCHANGED worker
    BY <1>6 DEF SeedInsert
  <2>5. QED
    BY <2>3, <2>4 DEF worker
<1>7. QED
  BY <1>2, <1>3, <1>4, <1>5, <1>6 DEF Next, Observe, Erase, Seed

LEMMA StepNeverRegresses ==
  ASSUME Types, KeysInv, FreshReadInv, [Next]_vars,
         NEW i \in Item, Exists(i), state'[i].id = state[i].id
  PROVE  Rank(state'[i].current_status) >= Rank(state[i].current_status)
<1> USE DEF Types
<1>1. /\ rows \in Nat /\ state[i] \in Row /\ state[i].id \in Nat \ {0}
      /\ state[i].id <= rows /\ NoRow.id = 0
  BY BoundsAssumption DEF Exists, KeysInv, Row, NoRow, Zero
<1>2. Rank(state[i].current_status) \in Int
  BY <1>1 DEF Row, Rank, _STATUS_RANK, Status
<1>3. ASSUME NEW w \in Worker, UpdateRow(w)
      PROVE  Rank(state'[i].current_status) >= Rank(state[i].current_status)
  <2>1. CASE i = call[w].item
    <3>1. state[i] = read[w]
      BY <1>3, <2>1 DEF UpdateRow, FreshReadInv, Writing
    <3>2. state'[i] = Written(state[i], Aggregate(state[i], call[w]), state[i])
      BY <1>3, <2>1, <3>1 DEF UpdateRow
    <3>3. call[w] \in Observation
      OBVIOUS
    <3>4. QED
      BY <1>1, <3>2, <3>3, AggregateNeverRegresses
  <2>2. CASE i # call[w].item
    BY <1>2, <1>3, <2>2 DEF UpdateRow
  <2>3. QED
    BY <2>1, <2>2
<1>4. ASSUME NEW w \in Worker, InsertRow(w)
      PROVE  Rank(state'[i].current_status) >= Rank(state[i].current_status)
  <2>1. i # call[w].item
    BY <1>4 DEF InsertRow, Exists
  <2>2. QED
    BY <1>2, <1>4, <2>1 DEF InsertRow
<1>5. CASE EraseState \/ SeedDelete
  BY <1>1, <1>5 DEF EraseState, SeedDelete
<1>6. CASE SeedInsert
  BY <1>6 DEF SeedInsert, Exists
<1>7. CASE UNCHANGED state
  BY <1>2, <1>7
<1>8. QED
  BY <1>3, <1>4, <1>5, <1>6, <1>7 DEF Next, Observe, BeginInsert, BeginUpdate, Begin,
     RollBack, Erase, EraseObservations, Seed, SeedConflicts, SeedStops, vars

(***************************************************************************)
(* "Best status seen (never regresses)" (DATABASE_SCHEMA.md) holds as long *)
(* as the observations of a child are inserted one at a time,              *)
(* recalculations, seeding and deletion notwithstanding.                   *)
(***************************************************************************)
THEOREM SerialNeverRegresses == Spec => SerialStatusNeverRegresses
<1> DEFINE Inv == Types /\ KeysInv /\ (~Overlapped => AloneInv /\ FreshReadInv)
<1>1. Init => Inv
  BY InitIInv DEF Init, IInv, AloneInv, FreshReadInv, Writing
<1>2. Inv /\ [Next]_vars => Inv'
  <2>1. [Next]_vars /\ ~Overlapped' => ~Overlapped
    BY PastStays DEF Overlapped
  <2>2. QED
    BY <2>1, TypesStep, KeysStep, FreshReadStep
<1>3. Inv /\ [Next]_vars => ["overlapped" \notin past => ~Regresses]_vars
  <2> SUFFICES ASSUME Inv, [Next]_vars, ~Overlapped, NEW i \in Item,
                      Exists(i), state'[i].id = state[i].id
               PROVE  _STATUS_RANK[state'[i].current_status]
                        >= _STATUS_RANK[state[i].current_status]
    BY DEF Regresses, Overlapped
  <2>1. QED
    BY StepNeverRegresses DEF Rank
<1>4. QED
  BY <1>1, <1>2, <1>3, PTL DEF Spec, SerialStatusNeverRegresses

-----------------------------------------------------------------------------
(***************************************************************************)
(* A row is the aggregate of a history. One more observation at its end    *)
(* adds one to the number of those with its status, and makes the row what *)
(* Aggregate makes of it: capping a sum early or late is the same, and the *)
(* best status of all is the better of the new one and the best so far.    *)
(***************************************************************************)
IsBest(h, s) ==
    /\ s \in Status
    /\ s = "not_observed" \/ Times(h, s) > 0
    /\ \A n \in DOMAIN h : _STATUS_RANK[h[n].status] <= _STATUS_RANK[s]

Score(h) == 33 * Times(h, "demonstrated") + 10 * Times(h, "emerging")

SumsUp(row, h) ==
    /\ IsBest(h, row.current_status)
    /\ row.mastery_score = AtMost(100, Score(h))
    /\ row.evidence_count = Len(h)
    /\ row.first_observed_at = IF h = <<>> THEN 0 ELSE h[1].at
    /\ row.last_observed_at = IF h = <<>> THEN 0 ELSE h[Len(h)].at

At(h, s) == {n \in DOMAIN h : h[n].status = s}

LEMMA TimesAdd ==
  ASSUME NEW h \in Seq(Observation), NEW o \in Observation, NEW s
  PROVE  /\ Times(h, s) \in Nat
         /\ Times(Append(h, o), s) = Times(h, s) + (IF o.status = s THEN 1 ELSE 0)
<1> DEFINE n == Len(h) + 1
<1>1. /\ DOMAIN h = 1..Len(h) /\ Len(h) \in Nat /\ DOMAIN Append(h, o) = 1..n
      /\ \A j \in 1..Len(h) : Append(h, o)[j] = h[j]
      /\ Append(h, o)[n] = o
  OBVIOUS
<1>2. IsFiniteSet(At(h, s)) /\ n \notin At(h, s)
  <2>1. IsFiniteSet(1..Len(h))
    <3>1. \A m \in Nat : IsFiniteSet(1..m)
      BY FS_Interval
    <3>2. QED
      BY <1>1, <3>1
  <2>2. At(h, s) \subseteq 1..Len(h)
    BY <1>1 DEF At
  <2>3. QED
    BY <1>1, <2>1, <2>2, FS_Subset
<1>3. At(Append(h, o), s) = IF o.status = s THEN At(h, s) \cup {n} ELSE At(h, s)
  BY <1>1 DEF At
<1>4. Cardinality(At(h, s)) \in Nat /\ Cardinality(At(h, s) \cup {n}) = Cardinality(At(h, s)) + 1
  BY <1>2, FS_AddElement, FS_CardinalityType
<1>5. Times(h, s) = Cardinality(At(h, s))
      /\ Times(Append(h, o), s) = Cardinality(At(Append(h, o), s))
  BY DEF Times, At
<1>6. QED
  BY <1>3, <1>4, <1>5

LEMMA TimesEmpty == \A s : Times(<<>>, s) = 0
  BY FS_EmptySet DEF Times

LEMMA RanksDiffer ==
  /\ \A s \in Status : _STATUS_RANK[s] \in 0..2
  /\ \A s, t \in Status : _STATUS_RANK[s] = _STATUS_RANK[t] => s = t
  /\ \A s \in Status : _STATUS_RANK[s] >= _STATUS_RANK["not_observed"]
  BY DEF Status, _STATUS_RANK

\* The best status of a history is the only one: Best is it.
LEMMA BestIsBest ==
  ASSUME NEW h \in Seq(Observation), NEW s, IsBest(h, s)
  PROVE  Best(h) = s
<1>1. ASSUME NEW t, IsBest(h, t), NEW u, IsBest(h, u)
      PROVE  _STATUS_RANK[t] <= _STATUS_RANK[u]
  <2>1. t \in Status /\ u \in Status
    BY <1>1 DEF IsBest
  <2>2. CASE t = "not_observed"
    BY <2>1, <2>2, RanksDiffer
  <2>3. CASE Times(h, t) > 0
    <3>1. At(h, t) # {}
      <4>1. Times(h, t) = Cardinality(At(h, t))
        BY DEF Times, At
      <4>2. QED
        BY <2>3, <4>1, FS_EmptySet
    <3>2. PICK n \in DOMAIN h : h[n].status = t
      BY <3>1 DEF At
    <3>3. QED
      BY <1>1, <3>2 DEF IsBest
  <2>4. QED
    BY <1>1, <2>2, <2>3 DEF IsBest
<1>2. \A t, u \in Status : IsBest(h, t) /\ IsBest(h, u) => t = u
  <2> SUFFICES ASSUME NEW t \in Status, NEW u \in Status, IsBest(h, t), IsBest(h, u)
               PROVE  t = u
    OBVIOUS
  <2>1. _STATUS_RANK[t] <= _STATUS_RANK[u] /\ _STATUS_RANK[u] <= _STATUS_RANK[t]
    BY <1>1
  <2>2. QED
    BY <2>1, RanksDiffer
<1>3. Best(h) = CHOOSE t \in Status : IsBest(h, t)
  BY DEF Best, IsBest
<1>4. s \in Status
  BY DEF IsBest
<1>5. QED
  BY <1>2, <1>3, <1>4

LEMMA SumsUpIsAggregate ==
  ASSUME NEW row, NEW h \in Seq(Observation), SumsUp(row, h)
  PROVE  \A c \in DOMAIN AggregateOf(<<>>) : row[c] = AggregateOf(h)[c]
<1>1. Best(h) = row.current_status
  BY BestIsBest DEF SumsUp
<1>2. DOMAIN AggregateOf(<<>>) = {"current_status", "mastery_score", "evidence_count",
                                  "first_observed_at", "last_observed_at"}
  BY DEF AggregateOf
<1>3. QED
  BY <1>1, <1>2 DEF SumsUp, Score, AggregateOf

LEMMA ZeroSumsUp == \A id : SumsUp(Zero(id), <<>>)
  BY TimesEmpty DEF SumsUp, IsBest, Score, Zero, AtMost, Status

LEMMA AggregateSumsUp ==
  ASSUME NEW row \in Row, NEW h \in Seq(Observation), NEW o \in Observation, SumsUp(row, h)
  PROVE  SumsUp(Aggregate(row, o), Append(h, o))
<1> DEFINE k == Append(h, o)
           new == Aggregate(row, o)
<1>1. o.status \in Status /\ o.at \in Nat \ {0} /\ row.current_status \in Status
  BY ObservationAssumption DEF Row
<1>2. /\ new.current_status = IF _STATUS_RANK[o.status] >= _STATUS_RANK[row.current_status]
                              THEN o.status ELSE row.current_status
      /\ new.mastery_score
            = AtMost(MASTERY_MAX, row.mastery_score + MasteryDelta[o.status])
      /\ new.evidence_count = row.evidence_count + 1
      /\ new.first_observed_at
            = IF row.first_observed_at = 0 THEN o.at ELSE row.first_observed_at
      /\ new.last_observed_at = o.at
  BY DEF Aggregate, Row
<1>3. /\ Len(h) \in Nat /\ Len(k) = Len(h) + 1 /\ k # <<>>
      /\ DOMAIN h = 1..Len(h) /\ DOMAIN k = 1..(Len(h) + 1)
      /\ \A j \in 1..Len(h) : k[j] = h[j] /\ h[j] \in Observation
      /\ k[Len(h) + 1] = o
  OBVIOUS
<1>4. \A s : Times(h, s) \in Nat /\ Times(k, s) = Times(h, s) + (IF o.status = s THEN 1 ELSE 0)
  BY TimesAdd
<1> HIDE DEF k, new
<1>5. IsBest(k, new.current_status)
  <2>1. /\ row.current_status = "not_observed" \/ Times(h, row.current_status) > 0
        /\ \A n \in 1..Len(h) : _STATUS_RANK[h[n].status] <= _STATUS_RANK[row.current_status]
    BY <1>3 DEF SumsUp, IsBest
  <2>2. new.current_status = "not_observed" \/ Times(k, new.current_status) > 0
    BY <1>2, <1>4, <2>1
  <2>3. /\ _STATUS_RANK[o.status] <= _STATUS_RANK[new.current_status]
        /\ _STATUS_RANK[row.current_status] <= _STATUS_RANK[new.current_status]
    BY <1>1, <1>2, RanksDiffer
  <2>4. ASSUME NEW n \in 1..(Len(h) + 1)
        PROVE  _STATUS_RANK[k[n].status] <= _STATUS_RANK[new.current_status]
    <3>1. CASE n = Len(h) + 1
      BY <1>3, <2>3, <3>1
    <3>2. CASE n \in 1..Len(h)
      <4>1. k[n] = h[n] /\ h[n].status \in Status
        BY <1>3, <3>2, ObservationAssumption
      <4>2. _STATUS_RANK[h[n].status] <= _STATUS_RANK[row.current_status]
        BY <2>1, <3>2
      <4>3. new.current_status \in Status
        BY <1>1, <1>2
      <4>4. QED
        BY <1>1, <2>3, <4>1, <4>2, <4>3, RanksDiffer
    <3>3. QED
      BY <1>3, <3>1, <3>2
  <2>5. QED
    BY <1>1, <1>2, <1>3, <2>2, <2>4 DEF IsBest
<1>6. new.mastery_score = AtMost(100, Score(k))
  <2>1. Score(h) \in Nat /\ MasteryDelta[o.status] \in Nat
    BY <1>1, <1>4 DEF Score, MasteryDelta, Status
  <2>2. Score(k) = Score(h) + MasteryDelta[o.status]
    <3>1. CASE o.status = "demonstrated"
      BY <1>4, <3>1 DEF Score, MasteryDelta
    <3>2. CASE o.status = "emerging"
      BY <1>4, <3>2 DEF Score, MasteryDelta
    <3>3. CASE o.status = "not_observed"
      BY <1>4, <3>3 DEF Score, MasteryDelta
    <3>4. QED
      BY <1>1, <3>1, <3>2, <3>3 DEF Status
  <2>3. row.mastery_score = AtMost(100, Score(h))
    BY DEF SumsUp
  <2>4. QED
    BY <1>2, <2>1, <2>2, <2>3 DEF AtMost, MASTERY_MAX
<1>7. new.first_observed_at = k[1].at
  <2>1. CASE h = <<>>
    BY <1>2, <1>3, <2>1 DEF SumsUp
  <2>2. CASE h # <<>>
    <3>1. 1 \in 1..Len(h)
      BY <1>3, <2>2
    <3>2. k[1] = h[1] /\ h[1].at # 0
      BY <1>3, <3>1, ObservationAssumption
    <3>3. QED
      BY <1>2, <2>2, <3>2 DEF SumsUp
  <2>3. QED
    BY <2>1, <2>2
<1>8. new.evidence_count = Len(k) /\ new.last_observed_at = k[Len(k)].at
  BY <1>2, <1>3 DEF SumsUp
<1>9. SumsUp(new, k)
  BY <1>3, <1>5, <1>6, <1>7, <1>8 DEF SumsUp
<1>10. QED
  BY <1>9 DEF new, k

\* Nobody has written between the read and the commit: the whole aggregate is written.
LEMMA WrittenAlone ==
  ASSUME NEW row \in Row, NEW after \in Row
  PROVE  Written(row, after, row) = after
<1>1. /\ DOMAIN row = {"id", "current_status", "mastery_score", "evidence_count",
                       "first_observed_at", "last_observed_at"}
      /\ after = [c \in DOMAIN row |-> after[c]]
  BY DEF Row
<1>2. Written(row, after, row) = [c \in DOMAIN row |-> after[c]]
  BY <1>1 DEF Written
<1>3. QED
  BY <1>1, <1>2

(***************************************************************************)
(* A row is the aggregate of what it has counted, and no row has counted   *)
(* nothing.                                                                *)
(***************************************************************************)
HistoryInv ==
    \A i \in Item : IF Exists(i) THEN SumsUp(state[i], counted[i]) ELSE counted[i] = <<>>

LEMMA HistoryStep ==
  Types /\ KeysInv /\ FreshReadInv /\ HistoryInv /\ [Next]_vars => HistoryInv'
<1> SUFFICES ASSUME Types, KeysInv, FreshReadInv, HistoryInv, [Next]_vars PROVE HistoryInv'
  OBVIOUS
<1>1. /\ rows \in Nat
      /\ state \in [Item -> Row \cup {NoRow}] /\ counted \in [Item -> Seq(Observation)]
      /\ \A w \in Worker : call[w] \in Observation /\ call[w].item \in Item
      /\ \A w \in Worker : read[w] \in Row \cup {NoRow}
  BY BoundsAssumption, ItemOfObservation DEF Types
<1>2. ASSUME NEW w \in Worker, NEW row, state' = [state EXCEPT ![call[w].item] = row],
             row # NoRow, SumsUp(row, Append(counted[call[w].item], call[w])), Keep(w)
      PROVE  HistoryInv'
  <2>1. counted' = [counted EXCEPT ![call[w].item] = Append(@, call[w])]
    BY <1>2 DEF Keep
  <2>2. QED
    BY <1>1, <1>2, <2>1 DEF HistoryInv, Exists
<1>3. ASSUME NEW w \in Worker, UpdateRow(w) PROVE HistoryInv'
  <2> DEFINE i == call[w].item
             new == Aggregate(read[w], call[w])
  <2>1. read[w] \in Row /\ state[i] = read[w] /\ Exists(i)
    BY <1>1, <1>3 DEF UpdateRow, FreshReadInv, Writing, Exists
  <2>2. new \in Row /\ new.id = read[w].id
    BY <1>1, <2>1, AggregateType
  <2>3. state' = [state EXCEPT ![i] = new]
    BY <1>3, <2>1, <2>2, WrittenAlone DEF UpdateRow
  <2>4. SumsUp(new, Append(counted[i], call[w]))
    <3>1. SumsUp(read[w], counted[i])
      BY <1>1, <2>1 DEF HistoryInv
    <3>2. QED
      BY <1>1, <2>1, <3>1, AggregateSumsUp
  <2>5. new # NoRow
    <3>1. new.id # 0
      BY <2>1, <2>2 DEF Row
    <3> HIDE DEF new
    <3>2. QED
      BY <2>2, <3>1, KeyTells
  <2> HIDE DEF new
  <2>6. QED
    BY <1>2, <1>3, <2>3, <2>4, <2>5 DEF UpdateRow
<1>4. ASSUME NEW w \in Worker, InsertRow(w) PROVE HistoryInv'
  <2> DEFINE i == call[w].item
             new == Aggregate(Zero(rows + 1), call[w])
  <2>1. Zero(rows + 1) \in Row /\ Zero(rows + 1).id = rows + 1
    BY <1>1, ZeroType
  <2>2. new \in Row /\ new.id = rows + 1
    BY <1>1, <2>1, AggregateType
  <2>3. counted[i] = <<>>
    BY <1>1, <1>4 DEF InsertRow, HistoryInv
  <2>4. SumsUp(new, Append(counted[i], call[w]))
    BY <1>1, <2>1, <2>3, ZeroSumsUp, AggregateSumsUp, Histories
  <2>5. new # NoRow
    BY <1>1, <2>2, KeyTells
  <2>6. state' = [state EXCEPT ![i] = new]
    BY <1>4 DEF InsertRow
  <2> HIDE DEF new
  <2>7. QED
    BY <1>2, <1>4, <2>4, <2>5, <2>6 DEF InsertRow
<1>5. CASE EraseState \/ SeedDelete
  BY <1>5 DEF EraseState, SeedDelete, HistoryInv, Exists
<1>6. CASE SeedInsert
  <2>1. PICK key \in [Item -> rows + 1 .. rows'] : state' = [i \in Item |-> Zero(key[i])]
    BY <1>6 DEF SeedInsert
  <2>2. \A i \in Item : counted'[i] = <<>>
    BY <1>6 DEF SeedInsert, HistoryInv
  <2>3. QED
    BY <2>1, <2>2, ZeroSumsUp DEF HistoryInv
<1>7. CASE UNCHANGED <<state, counted>>
  BY <1>7 DEF HistoryInv, Exists
<1>8. QED
  BY <1>3, <1>4, <1>5, <1>6, <1>7 DEF Next, Observe, BeginInsert, BeginUpdate, Begin,
     RollBack, Erase, EraseObservations, Seed, SeedConflicts, SeedStops, vars

(***************************************************************************)
(* As long as the callers come one at a time, a row is the aggregation     *)
(* rule of CAPABILITY_FRAMEWORK.md applied to the whole history it was     *)
(* made from: the incremental code computes it, whatever the history, and  *)
(* no deletion or seeding in between makes the two differ.                 *)
(***************************************************************************)
THEOREM AggregateIsExact == Spec => []StateIsAggregate
<1> DEFINE Inv == Types /\ KeysInv /\ (~Overlapped => AloneInv /\ FreshReadInv /\ HistoryInv)
<1>1. Init => Inv
  BY InitIInv DEF Init, IInv, AloneInv, FreshReadInv, Writing, HistoryInv, Exists
<1>2. Inv /\ [Next]_vars => Inv'
  <2>1. [Next]_vars /\ ~Overlapped' => ~Overlapped
    BY PastStays DEF Overlapped
  <2>2. QED
    BY <2>1, TypesStep, KeysStep, FreshReadStep, HistoryStep
<1>3. Inv => StateIsAggregate
  <2> SUFFICES ASSUME Inv, ~Overlapped, NEW i \in Item, Exists(i)
               PROVE  \A c \in DOMAIN AggregateOf(<<>>) :
                         state[i][c] = AggregateOf(counted[i])[c]
    BY DEF StateIsAggregate, Overlapped
  <2>1. counted[i] \in Seq(Observation) /\ SumsUp(state[i], counted[i])
    BY DEF Types, HistoryInv
  <2>2. QED
    BY <2>1, SumsUpIsAggregate
<1>4. QED
  BY <1>1, <1>2, <1>3, PTL DEF Spec
=============================================================================
