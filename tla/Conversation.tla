---------------------------- MODULE Conversation ----------------------------
(***************************************************************************)
(* The conversations of one child and their turns                          *)
(* (conversation_datastore.py). Most operations read a row, change the     *)
(* object and commit: another session may commit in between (READ          *)
(* COMMITTED, no row is locked when it is read). Each takes two steps, the *)
(* query with the changes made to what it returned, and the commit.        *)
(***************************************************************************)
EXTENDS Integers, FiniteSets, UnitOfWork

CONSTANTS
    Conv,      \* ids of conversations
    Turn,      \* ids of turns
    Worker,    \* requests, and the job that archives
    Threshold, \* days_threshold of archive_old_conversations
    MaxTime,   \* bound: the clock
    MaxCalls   \* bound: sessions opened

ASSUME BoundsAssumption == MaxTime \in Nat \ {0} /\ MaxCalls \in Nat /\ Threshold \in Nat

VARIABLES
    now,
    convs, \* the rows of conversations
    turns, \* the rows of conversation_turns
    tx,    \* each worker's open session
    calls

vars == <<now, convs, turns, tx, calls>>

State == {"active", "paused", "ended", "flagged"}
Finished == {"ended", "flagged"}

\* end_time: 0 is NULL. The clock starts at 1.
Row == [state : State, end : Nat, last : Nat, archived : BOOLEAN]
TurnRow == [conv : Conv, redacted : BOOLEAN]

\* An id not used yet, and one whose row was deleted: ids are never used again.
Absent == [state |-> "absent"]
Gone   == [state |-> "gone"]
NoRow  == {Absent, Gone}

Exists(c)  == convs[c] \notin NoRow
Said(t)    == turns[t] \notin NoRow
TurnsOf(C) == {t \in Turn : Said(t) /\ turns[t].conv \in C}

(***************************************************************************)
(* A session: the rows it read, what it made of them, the turn it adds,    *)
(* changes or deletes, the turns it deletes with their conversations.      *)
(***************************************************************************)
Session(C) == [op : {"idle", "update", "add", "redact", "delete"},
               read : [C -> Row], set : [C -> Row],
               turn : SUBSET Turn, row : TurnRow \cup NoRow]

Nothing == [c \in {} |-> Absent]
Idle == [op |-> "idle", read |-> Nothing, set |-> Nothing, turn |-> {}, row |-> Absent]

Begin(w, session) ==
    /\ tx[w] = Idle
    /\ calls < MaxCalls
    /\ calls' = calls + 1
    /\ tx' = [tx EXCEPT ![w] = session]

End(w) == tx' = [tx EXCEPT ![w] = Idle] /\ UNCHANGED calls

Reads(C) == [c \in C |-> convs[c]]

\* The session reads rows and makes of them what "made" says.
Opens(w, made) ==
    /\ Begin(w, [op |-> "update", read |-> Reads(DOMAIN made), set |-> made,
                 turn |-> {}, row |-> Absent])
    /\ UNCHANGED <<now, convs, turns>>

\* Mutant of Written: the session's rows replace what is in the table.
WrittenWhole(w) ==
    [c \in Conv |-> IF c \in DOMAIN tx[w].read THEN tx[w].set[c] ELSE convs[c]]

\* What w's session leaves in the table.
Written(w) ==
    [c \in Conv |-> IF c \in DOMAIN tx[w].read /\ Exists(c)
                    THEN Flushed(convs[c], tx[w].read[c], tx[w].set[c])
                    ELSE convs[c]]

\* An UPDATE whose row is gone raises StaleDataError; among the updates of
\* several rows it may go unnoticed.
NotStale(w) ==
    \/ \A c \in DOMAIN tx[w].read : Dirty(tx[w].read[c], tx[w].set[c]) => Exists(c)
    \/ \A c \in Conv : DOMAIN tx[w].read # {c}

-----------------------------------------------------------------------------
(***************************************************************************)
(* Conversations. A caller may save one in any state, without an end_time. *)
(***************************************************************************)
Save(w, c) ==
    /\ convs[c] = Absent
    /\ Begin(w, Idle)
    /\ \E s \in State :
          convs' = [convs EXCEPT ![c] = [state |-> s, end |-> 0, last |-> now,
                                         archived |-> FALSE]]
    /\ UNCHANGED <<now, turns>>

\* Mutant of ToState: a flagged conversation is not taken for a finished one.
ToStateUnflagged(row, s) ==
    [row EXCEPT !.state = s, !.last = now, !.end = IF s = "ended" THEN now ELSE @]

ToState(row, s) ==
    [row EXCEPT !.state = s, !.last = now, !.end = IF s \in Finished THEN now ELSE @]

SetState(w, c) ==
    /\ Exists(c)
    /\ \E s \in State : Opens(w, [x \in {c} |-> ToState(convs[x], s)])

\* set_conversation_parent_summary and set_conversation_parent_highlights.
Touch(w, c) ==
    /\ Exists(c)
    /\ Opens(w, [x \in {c} |-> [convs[x] EXCEPT !.last = now]])

Archive(w, c) ==
    /\ Exists(c)
    /\ Opens(w, [x \in {c} |-> [convs[x] EXCEPT !.archived = TRUE, !.last = now]])

\* archive_old_conversations.
Stale == {c \in Conv : Exists(c) /\ ~convs[c].archived /\ convs[c].last < now - Threshold}

ArchiveOld(w) ==
    Opens(w, [c \in Stale |-> [convs[c] EXCEPT !.archived = TRUE]])

CommitUpdate(w) ==
    /\ tx[w].op = "update"
    /\ NotStale(w)
    /\ convs' = Written(w)
    /\ End(w)
    /\ UNCHANGED <<now, turns>>

RollBack(w) ==
    /\ tx[w] # Idle
    /\ End(w)
    /\ UNCHANGED <<now, convs, turns>>

\* Mutant of SoftDelete: a state of its own, which no reader knows.
SoftDeleteAsDeleted(w, c) ==
    /\ Exists(c)
    /\ Begin(w, Idle)
    /\ convs' = [convs EXCEPT ![c].archived = TRUE, ![c].state = "deleted", ![c].end = now]
    /\ UNCHANGED <<now, turns>>

\* delete_conversation: one UPDATE.
SoftDelete(w, c) ==
    /\ Exists(c)
    /\ Begin(w, Idle)
    /\ convs' = [convs EXCEPT ![c].archived = TRUE, ![c].state = "ended", ![c].end = now]
    /\ UNCHANGED <<now, turns>>

-----------------------------------------------------------------------------
(***************************************************************************)
(* Turns.                                                                  *)
(***************************************************************************)
\* The timestamp may be the caller's, of some time before.
AddTurn(w, c, t) ==
    /\ Exists(c)
    /\ turns[t] = Absent
    /\ \A v \in Worker : t \notin tx[v].turn
    /\ \E at \in 1..now :
          Begin(w, [op |-> "add", read |-> Reads({c}),
                    set |-> [x \in {c} |-> [convs[x] EXCEPT !.last = at]],
                    turn |-> {t}, row |-> [conv |-> c, redacted |-> FALSE]])
    /\ UNCHANGED <<now, convs, turns>>

\* The foreign key of the turn refuses a conversation that is gone.
CommitAdd(w) ==
    /\ tx[w].op = "add"
    /\ Exists(tx[w].row.conv)
    /\ turns' = [t \in Turn |-> IF t \in tx[w].turn THEN tx[w].row ELSE turns[t]]
    /\ convs' = Written(w)
    /\ End(w)
    /\ UNCHANGED now

\* update_conversation_turn: the streaming path stores the safety evaluation
\* and redacts what the child said.
RedactTurn(w, t) ==
    /\ Said(t)
    /\ Begin(w, [op |-> "redact", read |-> Nothing, set |-> Nothing,
                 turn |-> {t}, row |-> turns[t]])
    /\ UNCHANGED <<now, convs, turns>>

CommitRedact(w) ==
    /\ tx[w].op = "redact"
    /\ \A t \in tx[w].turn : Said(t)
    /\ turns' = [t \in Turn |->
                   IF t \in tx[w].turn
                   THEN Flushed(turns[t], tx[w].row, [tx[w].row EXCEPT !.redacted = TRUE])
                   ELSE turns[t]]
    /\ End(w)
    /\ UNCHANGED <<now, convs>>

DeleteTurn(w, t) ==
    /\ Said(t)
    /\ Begin(w, [op |-> "delete", read |-> Nothing, set |-> Nothing,
                 turn |-> {t}, row |-> Absent])
    /\ UNCHANGED <<now, convs, turns>>

-----------------------------------------------------------------------------
(***************************************************************************)
(* hard_delete_conversation (one) and delete_all_for_child (all there      *)
(* are): the ORM reads the turns and deletes them before the conversation. *)
(***************************************************************************)
Erase(w, C) ==
    /\ \A c \in C : Exists(c)
    /\ Begin(w, [op |-> "delete", read |-> Reads(C), set |-> Reads(C),
                 turn |-> TurnsOf(C), row |-> Absent])
    /\ UNCHANGED <<now, convs, turns>>

HardDelete(w, c) == Erase(w, {c})
DeleteAllForChild(w) == Erase(w, {c \in Conv : Exists(c)})

\* Mutant of CommitDelete: the turns have no foreign key.
CommitDeleteUnchecked(w) ==
    /\ tx[w].op = "delete"
    /\ turns' = [t \in Turn |-> IF t \in tx[w].turn THEN Gone ELSE turns[t]]
    /\ convs' = [c \in Conv |-> IF c \in DOMAIN tx[w].read THEN Gone ELSE convs[c]]
    /\ End(w)
    /\ UNCHANGED now

\* The foreign key refuses to delete a conversation that has another turn.
\* Deleting what is gone already is no error.
CommitDelete(w) ==
    /\ tx[w].op = "delete"
    /\ TurnsOf(DOMAIN tx[w].read) \subseteq tx[w].turn
    /\ turns' = [t \in Turn |-> IF t \in tx[w].turn THEN Gone ELSE turns[t]]
    /\ convs' = [c \in Conv |-> IF c \in DOMAIN tx[w].read THEN Gone ELSE convs[c]]
    /\ End(w)
    /\ UNCHANGED now

-----------------------------------------------------------------------------
Tick ==
    /\ now < MaxTime
    /\ now' = now + 1
    /\ UNCHANGED <<convs, turns, tx, calls>>

Init ==
    /\ now = 1
    /\ convs = [c \in Conv |-> Absent]
    /\ turns = [t \in Turn |-> Absent]
    /\ tx = [w \in Worker |-> Idle]
    /\ calls = 0

Commits(w) == CommitUpdate(w) \/ CommitAdd(w) \/ CommitRedact(w) \/ CommitDelete(w)

Calls(w) ==
    \/ ArchiveOld(w) \/ DeleteAllForChild(w)
    \/ \E c \in Conv : \/ Save(w, c) \/ SetState(w, c) \/ Touch(w, c) \/ Archive(w, c)
                       \/ SoftDelete(w, c) \/ HardDelete(w, c)
                       \/ \E t \in Turn : AddTurn(w, c, t)
    \/ \E t \in Turn : RedactTurn(w, t) \/ DeleteTurn(w, t)

Next == Tick \/ \E w \in Worker : Calls(w) \/ Commits(w) \/ RollBack(w)

Spec == Init /\ [][Next]_vars

-----------------------------------------------------------------------------
TypeOK ==
    /\ now \in 1..MaxTime
    /\ convs \in [Conv -> Row \cup NoRow]
    /\ turns \in [Turn -> TurnRow \cup NoRow]
    /\ DOMAIN tx = Worker
    /\ \A w \in Worker : \E C \in SUBSET Conv : tx[w] \in Session(C)
    /\ calls \in 0..MaxCalls

(***************************************************************************)
(* "Set when state -> ended/flagged" (DATABASE_SCHEMA.md, end_time): a     *)
(* conversation that is saved unfinished and becomes finished has an end   *)
(* time, though each of the sessions that overlap writes only the columns  *)
(* it changed, and though no end time is ever taken back.                  *)
(***************************************************************************)
EndTimeIsSet ==
    [][\A c \in Conv :
          /\ Exists(c) /\ Exists(c)'
          /\ convs[c].state \notin Finished
          /\ convs'[c].state \in Finished
          => convs'[c].end # 0]_vars

(***************************************************************************)
(* An archived conversation, soft-deleted or not, stays archived for as    *)
(* long as its row exists: no session that read it before writes the old   *)
(* value back.                                                             *)
(***************************************************************************)
ArchivedForGood ==
    [][\A c \in Conv :
          Exists(c) /\ convs[c].archived /\ Exists(c)' => convs'[c].archived]_vars

(***************************************************************************)
(* What was hard-deleted is not brought back by a session that read it     *)
(* before the deletion: neither the conversation nor a turn of it.         *)
(***************************************************************************)
GoneForGood ==
    [][/\ \A c \in Conv : convs[c] = Gone => convs'[c] = Gone
       /\ \A t \in Turn : turns[t] = Gone => turns'[t] = Gone]_vars

(***************************************************************************)
(* "Permanently delete a conversation and all its turns": when a           *)
(* conversation is gone no turn of it is left, a turn said while it was    *)
(* being deleted included. One or the other is refused.                    *)
(***************************************************************************)
NoTurnOutlivesConversation == \A t \in Turn : Said(t) => Exists(turns[t].conv)
=============================================================================
