------------------------------ MODULE Consent ------------------------------
(***************************************************************************)
(* The consent ledger and the subscriptions of one parent, and the gate    *)
(* that reads both (consent_datastore.py).                                 *)
(*                                                                         *)
(* An event carries the time at which its row was built; it is seen when   *)
(* its transaction commits, so events may appear out of the order of their *)
(* times. The gate asks three questions, each of which sees what was       *)
(* committed before it (READ COMMITTED).                                   *)
(***************************************************************************)
EXTENDS Integers, FiniteSets

CONSTANTS
    Writer,    \* requests and webhooks that write, one transaction at a time
    Gate,      \* requests that ask has_active_consent
    Txn,       \* Apple transaction ids
    Recorded,  \* the event types that are logged
    MaxTime,   \* bound: the clock
    MaxCalls   \* bound: transactions begun

Obtained == "consent_obtained"
Revoked  == "consent_revoked"

\* The members the gate asks about; the other types only make the ledger longer.
VALID_EVENT_TYPES == {Obtained, Revoked, "consent_failed", "account_deleted"}
Status == {"active", "expired", "cancelled", "refunded"}

ASSUME TxnAssumption == Txn # {}
ASSUME RecordedAssumption == Recorded \subseteq VALID_EVENT_TYPES
ASSUME BoundsAssumption == MaxTime \in Nat /\ MaxCalls \in Nat

VARIABLES
    now,
    events,  \* the rows of consent_events
    subs,    \* txn |-> its row of subscriptions
    tx,      \* each writer's open transaction
    asks,    \* each gate's next question, with what it has read
    answer,  \* its last answer
    calls,
    began,   \* history: when each gate's check began
    seen     \* history: what has been true at some moment of it

vars == <<now, events, subs, tx, asks, answer, calls, began, seen>>

Event == [type : VALID_EVENT_TYPES, at : Nat]
NoSub == [status |-> "none", expires |-> 0]
\* expires_date; 0 is NULL.
Subscription == [status : Status, expires : Nat]

Idle == [op |-> "idle", txn |-> CHOOSE x \in Txn : TRUE,
         event |-> [type |-> Obtained, at |-> 0],
         status |-> "active", was |-> "active"]
Tx == [op : {"idle", "purchase", "event", "webhook"}, txn : Txn, event : Event,
       status : Status, was : Status]

Begin(w, t) ==
    /\ tx[w].op = "idle"
    /\ calls < MaxCalls
    /\ calls' = calls + 1
    /\ tx' = [tx EXCEPT ![w] = t]

End(w) == tx' = [tx EXCEPT ![w] = Idle]

-----------------------------------------------------------------------------
(***************************************************************************)
(* Events and purchases.                                                   *)
(***************************************************************************)
_build_event_row(type) == [type |-> type, at |-> now]

\* log_event and log_event_in_session: the row is built, then committed.
LogEvent(w) ==
    /\ \E type \in Recorded :
          Begin(w, [Idle EXCEPT !.op = "event", !.event = _build_event_row(type)])
    /\ UNCHANGED <<now, events, subs, asks, answer>>

CommitEvent(w) ==
    /\ tx[w].op = "event"
    /\ events' = events \cup {tx[w].event}
    /\ End(w)
    /\ UNCHANGED <<now, subs, asks, answer, calls>>

\* create_subscription_and_log_consent.
Purchase(w) ==
    /\ \E x \in Txn :
          Begin(w, [Idle EXCEPT !.op = "purchase", !.txn = x,
                                !.event = _build_event_row(Obtained)])
    /\ UNCHANGED <<now, events, subs, asks, answer>>

CommitPurchase(w) ==
    /\ tx[w].op = "purchase"
    /\ subs[tx[w].txn] = NoSub
    /\ \E expires \in 0..MaxTime :
          subs' = [subs EXCEPT ![tx[w].txn] = [status |-> "active", expires |-> expires]]
    /\ events' = events \cup {tx[w].event}
    /\ End(w)
    /\ UNCHANGED <<now, asks, answer, calls>>

\* The transaction fails: its id was bought already, or the database is away.
RollBack(w) ==
    /\ tx[w].op # "idle"
    /\ End(w)
    /\ UNCHANGED <<now, events, subs, asks, answer, calls>>

-----------------------------------------------------------------------------
(***************************************************************************)
(* Subscriptions.                                                          *)
(***************************************************************************)
CreateSubscription(w, x) ==
    /\ Begin(w, Idle)
    /\ subs[x] = NoSub
    /\ \E expires \in 0..MaxTime :
          subs' = [subs EXCEPT ![x] = [status |-> "active", expires |-> expires]]
    /\ UNCHANGED <<now, events, asks, answer>>

\* update_subscription_status, called by Apple's notifications in any order:
\* the row is read, and written when the status differs from the one read.
Webhook(w, x) ==
    /\ subs[x] # NoSub
    /\ \E status \in Status :
          Begin(w, [Idle EXCEPT !.op = "webhook", !.txn = x, !.status = status,
                                !.was = subs[x].status])
    /\ UNCHANGED <<now, events, subs, asks, answer>>

CommitWebhook(w) ==
    /\ tx[w].op = "webhook"
    /\ subs' = IF tx[w].status = tx[w].was THEN subs
               ELSE [subs EXCEPT ![tx[w].txn].status = tx[w].status]
    /\ End(w)
    /\ UNCHANGED <<now, events, asks, answer, calls>>

\* Mutant of CancelAll: the status is spelt the American way.
CancelAllMisspelt(w) ==
    /\ Begin(w, Idle)
    /\ subs' = [x \in Txn |->
                  IF subs[x] = NoSub THEN NoSub ELSE [subs[x] EXCEPT !.status = "canceled"]]
    /\ UNCHANGED <<now, events, asks, answer>>

CancelAll(w) ==
    /\ Begin(w, Idle)
    /\ subs' = [x \in Txn |->
                  IF subs[x] = NoSub THEN NoSub ELSE [subs[x] EXCEPT !.status = "cancelled"]]
    /\ UNCHANGED <<now, events, asks, answer>>

-----------------------------------------------------------------------------
(***************************************************************************)
(* has_active_consent: the latest consent, a later revocation, the time,   *)
(* a subscription that is active and unexpired at that time.               *)
(***************************************************************************)
At(type) == {e.at : e \in {f \in events : f.type = type}}
Latest(times) == CHOOSE t \in times : \A u \in times : u <= t
Active(s, t) == s.status = "active" /\ (s.expires = 0 \/ s.expires > t)

NotAsking == [q |-> "none", latest |-> 0, clock |-> 0]
Answers(g, yes) == /\ asks' = [asks EXCEPT ![g] = NotAsking]
                   /\ answer' = [answer EXCEPT ![g] = IF yes THEN "yes" ELSE "no"]

AskObtained(g) ==
    /\ asks[g].q = "none"
    /\ IF At(Obtained) = {}
       THEN Answers(g, FALSE)
       ELSE /\ asks' = [asks EXCEPT ![g].q = "revoked", ![g].latest = Latest(At(Obtained))]
            /\ answer' = [answer EXCEPT ![g] = "none"]
    /\ UNCHANGED <<now, events, subs, tx, calls>>

\* Mutant of AskRevoked: the comparison is turned round.
AskRevokedBefore(g) ==
    /\ asks[g].q = "revoked"
    /\ IF \E t \in At(Revoked) : t < asks[g].latest
       THEN Answers(g, FALSE)
       ELSE asks' = [asks EXCEPT ![g].q = "clock"] /\ UNCHANGED answer
    /\ UNCHANGED <<now, events, subs, tx, calls>>

AskRevoked(g) ==
    /\ asks[g].q = "revoked"
    /\ IF \E t \in At(Revoked) : t > asks[g].latest
       THEN Answers(g, FALSE)
       ELSE asks' = [asks EXCEPT ![g].q = "clock"] /\ UNCHANGED answer
    /\ UNCHANGED <<now, events, subs, tx, calls>>

\* utcnow(); the query that uses it runs later.
ReadClock(g) ==
    /\ asks[g].q = "clock"
    /\ asks' = [asks EXCEPT ![g].q = "subscription", ![g].clock = now]
    /\ UNCHANGED <<now, events, subs, tx, answer, calls>>

\* Mutant of AskSubscription: the status is trusted, though it lags.
AskStatusOnly(g) ==
    /\ asks[g].q = "subscription"
    /\ Answers(g, \E x \in Txn : subs[x].status = "active")
    /\ UNCHANGED <<now, events, subs, tx, calls>>

\* Mutant of AskSubscription: no expiry date is taken for one in the past.
AskExpiryOnly(g) ==
    /\ asks[g].q = "subscription"
    /\ Answers(g, \E x \in Txn : subs[x].status = "active" /\ subs[x].expires > asks[g].clock)
    /\ UNCHANGED <<now, events, subs, tx, calls>>

AskSubscription(g) ==
    /\ asks[g].q = "subscription"
    /\ Answers(g, \E x \in Txn : Active(subs[x], asks[g].clock))
    /\ UNCHANGED <<now, events, subs, tx, calls>>

-----------------------------------------------------------------------------
Tick ==
    /\ now < MaxTime
    /\ now' = now + 1
    /\ UNCHANGED <<events, subs, tx, asks, answer, calls>>

\* Conditions 1 and 2 of has_active_consent, and condition 3 by the time t.
ConsentStands == \E o \in At(Obtained) : \A r \in At(Revoked) : r <= o
Subscribed(t) == \E x \in Txn : Active(subs[x], t)

\* What is true now, for a check that began at time t. "subscription": one is active
\* that had not expired when the check began.
Truths(t) == {f \in {"consent", "subscription", "closed"} :
                CASE f = "consent"      -> ConsentStands
                  [] f = "subscription" -> Subscribed(t)
                  [] f = "closed"       -> ~(ConsentStands /\ Subscribed(now))}

\* What is true at some moment between a gate's first question and its last.
Watch ==
    /\ UNCHANGED began
    /\ seen' = [g \in Gate |->
          IF asks[g].q = "none" THEN seen[g]
          ELSE seen[g] \cup Truths(began[g])' \cup IF events' # events THEN {"changed"} ELSE {}]

Init ==
    /\ now = 0
    /\ events = {}
    /\ subs = [x \in Txn |-> NoSub]
    /\ tx = [w \in Writer |-> Idle]
    /\ asks = [g \in Gate |-> NotAsking]
    /\ answer = [g \in Gate |-> "none"]
    /\ calls = 0
    /\ began = [g \in Gate |-> 0]
    /\ seen = [g \in Gate |-> {}]

Writes(w) ==
    \/ LogEvent(w) \/ CommitEvent(w) \/ Purchase(w) \/ CommitPurchase(w)
    \/ RollBack(w) \/ CommitWebhook(w) \/ CancelAll(w)
    \/ \E x \in Txn : CreateSubscription(w, x) \/ Webhook(w, x)

Asks(g) ==
    \/ /\ AskObtained(g)
       /\ began' = [began EXCEPT ![g] = now]
       /\ seen' = [seen EXCEPT ![g] = Truths(now)]
    \/ (AskRevoked(g) \/ ReadClock(g) \/ AskSubscription(g)) /\ UNCHANGED <<began, seen>>

Next == \/ (Tick \/ \E w \in Writer : Writes(w)) /\ Watch
        \/ \E g \in Gate : Asks(g)

Spec == Init /\ [][Next]_vars
-----------------------------------------------------------------------------
TypeOK ==
    /\ now \in 0..MaxTime
    /\ events \subseteq Event
    /\ subs \in [Txn -> Subscription \cup {NoSub}]
    /\ tx \in [Writer -> Tx]
    /\ asks \in [Gate -> [q : {"none", "revoked", "clock", "subscription"},
                      latest : Nat, clock : Nat]]
    /\ answer \in [Gate -> {"none", "yes", "no"}]
    /\ calls \in 0..MaxCalls
    /\ began \in [Gate -> Nat]
    /\ seen \in [Gate -> SUBSET {"consent", "subscription", "closed", "changed"}]

(***************************************************************************)
(* The gate never opens on a withdrawn consent: if it answers yes, then at *)
(* some moment of the check there was a consent and no later revocation,   *)
(* whatever was logged, bought or notified between its questions.          *)
(***************************************************************************)
GateNeedsConsent == \A g \in Gate : answer[g] = "yes" => "consent" \in seen[g]

(***************************************************************************)
(* It never opens on a subscription that had expired when the check began, *)
(* though its status lags behind (the notifications are late and out of    *)
(* order): at some moment of the check one was active that had not. It may *)
(* have expired since, even before it became active: the query compares    *)
(* with a clock that was read earlier.                                     *)
(***************************************************************************)
GateNeedsSubscription ==
    \A g \in Gate : answer[g] = "yes" => "subscription" \in seen[g]

(***************************************************************************)
(* A parent whose consent and subscription both stood throughout a check   *)
(* is let in, unless an event was committed during it.                     *)
(***************************************************************************)
GateOpensWhenActive ==
    \A g \in Gate : answer[g] = "no" => {"closed", "changed"} \cap seen[g] # {}
=============================================================================
