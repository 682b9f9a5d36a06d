------------------------------ MODULE Ledgers ------------------------------
(***************************************************************************)
(* What is learned of one child at the end of a session: the interests it  *)
(* has shown (observed_interests_datastore.py, a row for each topic), its  *)
(* inferred traits (inferred_traits_datastore.py, one row) and the rolling *)
(* summary of a parent's chats about it (parent_chat_datastore.py, one     *)
(* row). Each is upserted: the row is read, changed in the session and     *)
(* written at the commit, or inserted if there was none. Sessions overlap  *)
(* (READ COMMITTED, no row is locked when it is read).                     *)
(***************************************************************************)
EXTENDS Integers, Sequences, FiniteSetsExt, UnitOfWork

CONSTANTS
    Key,      \* canonical keys of topics
    Kind, Other, Link, Sentiment,
    Value,    \* of a trait, or a summary
    Null,     \* NULL, {} or an absent key
    Visit, Learned, Told,  \* what callers pass to the three upserts
    Worker,
    MaxCalls  \* bound: upserts

Origin == {"child", "buju"}
\* _WRITABLE
Trait == {"curiosity_mode_by_kind", "preferred_style", "preferred_style_confidence",
          "voice_style_scores"}

\* A float between 0 and 1 is counted in steps.
Visits == [kind : Kind, link : Link \cup {Null}, sentiment : Sentiment \cup {Null},
           depth : Nat, curiosity : Nat \cup {Null}, mentions_delta : Nat, origin : Origin]
Lessons == UNION {[C -> Value \cup {Null}] : C \in SUBSET Trait}
Summaries == [summary : Value, session_count : Nat]

ASSUME InputAssumption ==
    /\ Other \in Kind
    /\ Visit \subseteq Visits /\ Learned \subseteq Lessons /\ Told \subseteq Summaries
ASSUME RowAssumption == Key \cap {"traits", "summary"} = {}
ASSUME NullAssumption == Null \notin Link \cup Sentiment \cup Nat
ASSUME CallsAssumption == MaxCalls \in Nat

VARIABLES
    rows,  \* the rows of the three tables
    tx,    \* each worker's open session
    calls,
    log,   \* history: what was passed to the upserts the row was made by
    torn   \* history: a session has written to the row that had read it otherwise

vars == <<rows, tx, calls, log, torn>>

Ledger == Key \cup {"traits", "summary"}
Absent == [id |-> -1]
Exists(l) == rows[l] # Absent

\* The id of an interest or a summary is a new uuid, that of the traits the child's.
InterestRow == [id : Nat, kind : Kind, framework_link : Link \cup {Null},
                sentiment : Sentiment \cup {Null}, origin : Origin, times_visited : Nat,
                total_mentions : Nat, last_depth : Nat,
                curiosity_signal : Nat \cup {Null}]
TraitsRow ==
    [id : {0}, curiosity_mode_by_kind : Value \cup {Null}, preferred_style : Value \cup {Null},
     preferred_style_confidence : Value \cup {Null}, voice_style_scores : Value \cup {Null},
     evidence_count : Nat]
SummaryRow == [id : Nat, summary : Value, session_count : Nat]

Row(l) == IF l \in Key THEN InterestRow ELSE IF l = "traits" THEN TraitsRow ELSE SummaryRow
Input(l) == IF l \in Key THEN Visit ELSE IF l = "traits" THEN Learned ELSE Told

----------------------------------------------------------------------------
(* What the three upserts make of a row, and the row they make. *)

Larger(x, y) == IF x >= y THEN x ELSE y
\* max(float(row.curiosity_signal or 0.0), float(given)), if one is given: 0 is not NULL.
Curiosity(known, given) ==
    IF given = Null THEN known ELSE Larger(IF known = Null THEN 0 ELSE known, given)
\* int(interest.get("mentions_delta", 1) or 1)
mentions(v) == IF v.mentions_delta = 0 THEN 1 ELSE v.mentions_delta

NewInterest(id, v) ==
    [id |-> id, kind |-> v.kind, framework_link |-> v.link, sentiment |-> v.sentiment,
     origin |-> v.origin, times_visited |-> 1, total_mentions |-> mentions(v),
     last_depth |-> v.depth, curiosity_signal |-> v.curiosity]
\* Mutant of Visited: the last depth is the depth of the last visit.
VisitedLast(row, v) ==
    [row EXCEPT !.times_visited = @ + 1,
                !.total_mentions = @ + mentions(v),
                !.last_depth = v.depth,
                !.curiosity_signal = Curiosity(@, v.curiosity),
                !.sentiment = IF v.sentiment # Null THEN v.sentiment ELSE @,
                !.framework_link = IF @ = Null THEN v.link ELSE @,
                !.kind = IF @ = Other THEN v.kind ELSE @]
Visited(row, v) ==
    [row EXCEPT !.times_visited = @ + 1,
                !.total_mentions = @ + mentions(v),
                !.last_depth = Larger(@, v.depth),
                !.curiosity_signal = Curiosity(@, v.curiosity),
                !.sentiment = IF v.sentiment # Null THEN v.sentiment ELSE @,
                !.framework_link = IF @ = Null THEN v.link ELSE @,
                !.kind = IF @ = Other THEN v.kind ELSE @]

Get(v, c) == IF c \in DOMAIN v THEN v[c] ELSE Null
NewTraits(v) ==
    [id |-> 0, evidence_count |-> 1,
     curiosity_mode_by_kind |-> Get(v, "curiosity_mode_by_kind"),
     preferred_style |-> Get(v, "preferred_style"),
     preferred_style_confidence |-> Get(v, "preferred_style_confidence"),
     voice_style_scores |-> Get(v, "voice_style_scores")]
\* Mutant of Taught: a key that is not given is written as NULL.
TaughtAll(row, v) ==
    [c \in DOMAIN row |-> IF c = "evidence_count" THEN row[c] + 1
                          ELSE IF c \in Trait THEN Get(v, c) ELSE row[c]]
Taught(row, v) ==
    [c \in DOMAIN row |-> IF c = "evidence_count" THEN row[c] + 1
                          ELSE IF c \in Trait \cap DOMAIN v THEN v[c] ELSE row[c]]

NewSummary(id, v) == [id |-> id, summary |-> v.summary, session_count |-> v.session_count]
Retold(row, v) == [row EXCEPT !.summary = v.summary, !.session_count = v.session_count]

New(l, id, v) ==
    IF l \in Key THEN NewInterest(id, v)
    ELSE IF l = "traits" THEN NewTraits(v) ELSE NewSummary(id, v)
Changed(l, row, v) ==
    IF l \in Key THEN Visited(row, v)
    ELSE IF l = "traits" THEN Taught(row, v) ELSE Retold(row, v)

----------------------------------------------------------------------------
(* Sessions. *)

Idle == [ledger |-> "none"]
Open(w) == tx[w] # Idle

\* The row is read, and changed or made in the session. MaxCalls bounds the ids, too.
Upsert(w, l, v) ==
    /\ ~Open(w)
    /\ calls < MaxCalls
    /\ calls' = calls + 1
    /\ tx' = [tx EXCEPT ![w] =
                [ledger |-> l, read |-> rows[l], input |-> v,
                 set |-> IF Exists(l) THEN Changed(l, rows[l], v) ELSE New(l, calls, v)]]
    /\ UNCHANGED <<rows, log, torn>>

\* The unique key refuses a second row.
CommitInsert(w) ==
    /\ Open(w) /\ tx[w].read = Absent
    /\ LET l == tx[w].ledger
       IN  /\ ~Exists(l)
           /\ rows' = [rows EXCEPT ![l] = tx[w].set]
           /\ log' = [log EXCEPT ![l] = <<tx[w].input>>]
           /\ torn' = [torn EXCEPT ![l] = FALSE]
    /\ tx' = [tx EXCEPT ![w] = Idle]
    /\ UNCHANGED calls

Written(row, read, set) == Flushed(row, read, set)

\* Mutant of CommitUpdate: the row is found by its natural key.
CommitUpdateByKey(w) ==
    /\ Open(w) /\ tx[w].read # Absent
    /\ LET l == tx[w].ledger
       IN  /\ Exists(l)
           /\ rows' = [rows EXCEPT ![l] = Written(@, tx[w].read, tx[w].set)]
           /\ log' = [log EXCEPT ![l] = Append(@, tx[w].input)]
           /\ torn' = [torn EXCEPT ![l] = @ \/ rows[l] # tx[w].read]
    /\ tx' = [tx EXCEPT ![w] = Idle]
    /\ UNCHANGED calls

\* UPDATE ... WHERE the primary key is that of the row that was read; without such a
\* row it raises StaleDataError.
CommitUpdate(w) ==
    /\ Open(w) /\ tx[w].read # Absent
    /\ LET l == tx[w].ledger
       IN  /\ rows[l].id = tx[w].read.id
           /\ rows' = [rows EXCEPT ![l] = Written(@, tx[w].read, tx[w].set)]
           /\ log' = [log EXCEPT ![l] = Append(@, tx[w].input)]
           /\ torn' = [torn EXCEPT ![l] = @ \/ rows[l] # tx[w].read]
    /\ tx' = [tx EXCEPT ![w] = Idle]
    /\ UNCHANGED calls

\* Whatever fails, the session is rolled back and the caller gets an error.
RollBack(w) ==
    /\ Open(w)
    /\ tx' = [tx EXCEPT ![w] = Idle]
    /\ UNCHANGED <<rows, calls, log, torn>>

\* One DELETE, or of a row that was read before, by its id.
Delete(L) ==
    /\ rows' = [l \in Ledger |-> IF l \in L THEN Absent ELSE rows[l]]
    /\ log' = [l \in Ledger |-> IF l \in L THEN << >> ELSE log[l]]
    /\ torn' = [l \in Ledger |-> torn[l] /\ l \notin L]
    /\ UNCHANGED <<tx, calls>>

DeleteInterest(k) == Exists(k) /\ Delete({k})
DeleteAllInterests == (\E k \in Key : Exists(k)) /\ Delete(Key)
DeleteTraits == Exists("traits") /\ Delete({"traits"})
DeleteSummary == Exists("summary") /\ Delete({"summary"})

----------------------------------------------------------------------------
Init ==
    /\ rows = [l \in Ledger |-> Absent]
    /\ tx = [w \in Worker |-> Idle]
    /\ calls = 0
    /\ log = [l \in Ledger |-> << >>]
    /\ torn = [l \in Ledger |-> FALSE]

Commit(w) == CommitInsert(w) \/ CommitUpdate(w)

Next ==
    \/ \E w \in Worker : \/ \E l \in Ledger : \E v \in Input(l) : Upsert(w, l, v)
                         \/ Commit(w) \/ RollBack(w)
    \/ \E k \in Key : DeleteInterest(k)
    \/ DeleteAllInterests \/ DeleteTraits \/ DeleteSummary

Spec == Init /\ [][Next]_vars

----------------------------------------------------------------------------
Session(l) == [ledger : {l}, read : Row(l) \cup {Absent}, input : Input(l), set : Row(l)]

TypeOK ==
    /\ DOMAIN rows = Ledger /\ \A l \in Ledger : rows[l] \in Row(l) \cup {Absent}
    /\ DOMAIN tx = Worker
    /\ \A w \in Worker : Open(w) => \E l \in Ledger : tx[w] \in Session(l)
    /\ calls \in 0..MaxCalls
    /\ DOMAIN log = Ledger /\ \A l \in Ledger : log[l] \in Seq(Input(l))
    /\ torn \in [Ledger -> BOOLEAN]

\* What one column was told by the calls q, one after the other.
First(q, nothing) ==
    LET J == {j \in DOMAIN q : q[j] # nothing} IN IF J = {} THEN nothing ELSE q[Min(J)]
Last(q, nothing) ==
    LET J == {j \in DOMAIN q : q[j] # nothing} IN IF J = {} THEN nothing ELSE q[Max(J)]
Greatest(q, nothing) ==
    LET given == {q[j] : j \in DOMAIN q} \ {nothing}
    IN  IF given = {} THEN nothing ELSE Max(given)
Running(q) == LET t[j \in 0..Len(q)] == IF j = 0 THEN 0 ELSE t[j - 1] + q[j] IN t
Total(q) == Running(q)[Len(q)]
\* The calls s as a column.
Column(s, c) == [j \in DOMAIN s |-> s[j][c]]
Mentions(s) == [j \in DOMAIN s |-> mentions(s[j])]

InterestOf(id, s) ==
    [id |-> id,
     times_visited |-> Len(s),
     total_mentions |-> Total(Mentions(s)),
     last_depth |-> Greatest(Column(s, "depth"), Null),
     curiosity_signal |-> Greatest(Column(s, "curiosity"), Null),
     sentiment |-> Last(Column(s, "sentiment"), Null),
     framework_link |-> First(Column(s, "link"), Null),
     kind |-> First(Column(s, "kind"), Other),
     origin |-> s[1].origin]
TraitOf(c, s) ==
    LET J == {j \in DOMAIN s : c \in DOMAIN s[j]} IN IF J = {} THEN Null ELSE s[Max(J)][c]
SumsUp(l, row, s) ==
    IF l \in Key THEN row = InterestOf(row.id, s)
    ELSE IF l = "traits"
    THEN row.evidence_count = Len(s) /\ \A c \in Trait : row[c] = TraitOf(c, s)
    ELSE row = NewSummary(row.id, s[Len(s)])

(* "bumps times_visited, ACCUMULATES total_mentions, keeps the max depth seen, keeps    *)
(* the max curiosity_signal seen, records the latest sentiment, and PRESERVES origin":  *)
(* the ledger sums up the calls it was made by. A row that was written by a session     *)
(* which had not seen the last call is all that is excepted: there a visit is lost, a   *)
(* maximum may fall, and a summary may stand beside the count of another.               *)
SumsUpLog == \A l \in Ledger : Exists(l) /\ ~torn[l] => SumsUp(l, rows[l], log[l])

(* Whatever overlaps, a row claims no more than what happened to it: a topic was        *)
(* visited at most as often as it was reported, and at least once, each visit with a    *)
(* mention; its depth, its kind and its link are those of some visit to this row, and   *)
(* of none before a deletion; so are a trait and a summary.                             *)
InterestBacked(row, reported) ==
    /\ row.times_visited \in 1..Len(reported)
    /\ row.times_visited <= row.total_mentions
    /\ \E j \in DOMAIN reported : row.last_depth = reported[j].depth
    /\ \E j \in DOMAIN reported : row.curiosity_signal = reported[j].curiosity
    /\ \E j \in DOMAIN reported : row.kind = reported[j].kind
    /\ \E j \in DOMAIN reported : row.framework_link = reported[j].link
    /\ \E j \in DOMAIN reported : row.sentiment = reported[j].sentiment
TraitsBacked(row, reported) ==
    \A c \in Trait : row[c] # Null => \E j \in DOMAIN reported : row[c] = Get(reported[j], c)
SummaryBacked(row, reported) ==
    /\ \E j \in DOMAIN reported : row.summary = reported[j].summary
    /\ \E j \in DOMAIN reported : row.session_count = reported[j].session_count
Backed(l, row, reported) ==
    IF l \in Key THEN InterestBacked(row, reported)
    ELSE IF l = "traits" THEN TraitsBacked(row, reported) ELSE SummaryBacked(row, reported)
RowsAreBacked == \A l \in Ledger : Exists(l) => Backed(l, rows[l], log[l])

(* What is known of a topic is not forgotten while its row stands: a session that read  *)
(* the row before a kind, a link, a sentiment or a curiosity was known does not leave   *)
(* it without one, although the one known last may be replaced and a curiosity may      *)
(* fall; and nothing changes who raised the topic. "A caller updating just              *)
(* curiosity_mode_by_kind never clobbers preferred_style, and vice-versa", also when    *)
(* the two overlap: a trait changes only to what an open session was given for it.      *)
NothingForgotten ==
    [][ /\ \A k \in Key :
              LET row == rows[k] IN
              Exists(k) /\ rows'[k].id = row.id =>
                  /\ row.kind # Other => rows'[k].kind # Other
                  /\ row.framework_link # Null => rows'[k].framework_link # Null
                  /\ row.sentiment # Null => rows'[k].sentiment # Null
                  /\ row.curiosity_signal # Null => rows'[k].curiosity_signal # Null
                  /\ rows'[k].origin = row.origin
        /\ Exists("traits") /\ Exists("traits")' =>
              \A c \in Trait : rows'["traits"][c] # rows["traits"][c] =>
                  \E w \in Worker : /\ Open(w) /\ tx[w].ledger = "traits"
                                    /\ c \in DOMAIN tx[w].input
                                    /\ rows'["traits"][c] = tx[w].input[c] ]_vars
=============================================================================
