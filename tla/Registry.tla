------------------------------ MODULE Registry ------------------------------
(***************************************************************************)
(* What the datastore factory promises: each call takes effect in one step *)
(* of a table of at most one instance per key. A call that is given a      *)
(* cached instance gets the one that is in the table at that moment; a new *)
(* one is made only where there is none; and an instance leaves the table  *)
(* only when all of them do. A call that fails has found nothing there,    *)
(* and if it fails for that alone, the table was emptied during the call.  *)
(***************************************************************************)
CONSTANTS
    Thread, Key,
    Instance,                        \* the instances there can be
    None, KeyError, DatastoreError   \* no instance; the two exceptions
VARIABLES
    table,     \* the instance of each key, or None
    doing,     \* what each thread has been asked to do
    wanted,    \* with which key
    answer,    \* what its last call returned or raised
    behind     \* the threads that were asked nothing since the table was emptied

Init ==
    /\ table = [k \in Key |-> None]
    /\ doing = [t \in Thread |-> "nothing"]
    /\ \E k \in Key : wanted = [t \in Thread |-> k]
    /\ answer = [t \in Thread |-> None]
    /\ behind = {}

Ask(t) ==
    /\ doing[t] = "nothing"
    /\ \E what \in {"create", "get", "direct", "close"} :
          doing' = [doing EXCEPT ![t] = what]
    /\ \E k \in Key : wanted' = [wanted EXCEPT ![t] = k]
    /\ answer' = [answer EXCEPT ![t] = None]
    /\ behind' = behind \ {t}
    /\ UNCHANGED table

Answers(t, result) ==
    /\ doing' = [doing EXCEPT ![t] = "nothing"]
    /\ answer' = [answer EXCEPT ![t] = result]

Here(t) == table[wanted[t]]
Looks(t) == doing[t] \in {"create", "get"}
\* An instance that is not in the table, and that no thread was given last.
New(i) ==
    /\ i \in Instance
    /\ \A k \in Key : table[k] # i
    /\ \A u \in Thread : answer[u] # i

Find(t) ==
    /\ Looks(t) /\ Here(t) # None
    /\ Answers(t, Here(t))
    /\ UNCHANGED <<table, wanted, behind>>

\* create answers with what it has made; get looks it up.
Make(t) ==
    /\ Looks(t) /\ Here(t) = None
    /\ New(table'[wanted[t]])
    /\ table' = [table EXCEPT ![wanted[t]] = table'[wanted[t]]]
    /\ IF doing[t] = "create" THEN Answers(t, table'[wanted[t]]) ELSE UNCHANGED <<doing, answer>>
    /\ UNCHANGED <<wanted, behind>>

\* An instance outside the table.
Build(t) ==
    /\ doing[t] = "direct"
    /\ New(answer'[t])
    /\ Answers(t, answer'[t])
    /\ UNCHANGED <<table, wanted, behind>>

Fail(t) ==
    /\ doing[t] = "direct" \/ (Looks(t) /\ Here(t) = None)
    /\ Answers(t, DatastoreError)
    /\ UNCHANGED <<table, wanted, behind>>

Miss(t) ==
    /\ Looks(t) /\ Here(t) = None
    /\ t \in behind
    /\ Answers(t, KeyError)
    /\ UNCHANGED <<table, wanted, behind>>

Empty(t) ==
    /\ doing[t] = "close"
    /\ doing' = [doing EXCEPT ![t] = "closed"]
    /\ table' = [k \in Key |-> None]
    /\ behind' = Thread
    /\ UNCHANGED <<wanted, answer>>

Closed(t) ==
    /\ doing[t] = "closed"
    /\ Answers(t, None)
    /\ UNCHANGED <<table, wanted, behind>>

Next == \E t \in Thread :
    Ask(t) \/ Find(t) \/ Make(t) \/ Build(t) \/ Fail(t) \/ Miss(t) \/ Empty(t) \/ Closed(t)

Spec == Init /\ [][Next]_<<table, doing, wanted, answer, behind>>
=============================================================================
