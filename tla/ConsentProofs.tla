---------------------------- MODULE ConsentProofs ----------------------------
(***************************************************************************)
(* What the consent gate's answers mean, for any number of writers, gates, *)
(* purchases and events, in any order of commits and notifications.        *)
(***************************************************************************)
EXTENDS Consent, WellFoundedInduction, TLAPS

(***************************************************************************)
(* A nonempty set of times up to a bound has a latest one.                 *)
(***************************************************************************)
LEMMA LatestIsLatest ==
  ASSUME NEW N \in Nat, NEW S \in SUBSET (0..N), S # {}
  PROVE  Latest(S) \in S /\ \A t \in S : t <= Latest(S)
<1> DEFINE R == {p \in Nat \X Nat : p[1] < p[2]}
           D == {N - t : t \in S}
<1>1. IsWellFoundedOn(R, Nat)
  BY NatLessThanWellFounded DEF OpToRel
<1>2. D \subseteq Nat /\ D # {}
  <2>1. \A t \in S : N - t \in Nat
    OBVIOUS
  <2>2. PICK t \in S : TRUE
    OBVIOUS
  <2>3. N - t \in D
    OBVIOUS
  <2>4. QED
    BY <2>1, <2>3
<1>3. PICK c \in D : \A d \in D : ~(<<d, c>> \in R)
  BY <1>1, <1>2, WFMin
<1>4. PICK t \in S : c = N - t
  BY <1>3
<1>5. ASSUME NEW u \in S PROVE u <= t
  <2>1. N - u \in D /\ N - u \in Nat
    OBVIOUS
  <2>2. <<N - u, c>> \in Nat \X Nat /\ ~(<<N - u, c>> \in R)
    BY <1>2, <1>3, <2>1
  <2>3. QED
    BY <1>4, <2>1, <2>2
<1>6. QED
  BY <1>5 DEF Latest

-----------------------------------------------------------------------------
(***************************************************************************)
(* The parts of the inductive invariant. While a gate is asking, seen      *)
(* holds every truth of the present moment; what it has read of the        *)
(* consents is one of them, and the latest until another event is logged.  *)
(* The clock that it has read is not ahead of the time, nor behind the     *)
(* beginning of the check.                                                 *)
(***************************************************************************)
TimesInv ==
    /\ \A e \in events : e.at \in 0..MaxTime
    /\ \A w \in Writer : tx[w].event.at \in 0..MaxTime

WatchInv == \A g \in Gate : asks[g].q # "none" => Truths(began[g]) \subseteq seen[g]

ClockInv ==
    \A g \in Gate :
        /\ asks[g].q # "none" => began[g] <= now
        /\ asks[g].q = "subscription" => began[g] <= asks[g].clock /\ asks[g].clock <= now

AskInv ==
    \A g \in Gate :
        /\ asks[g].q # "none" => answer[g] = "none" /\ asks[g].latest \in At(Obtained)
        /\ asks[g].q # "none" =>
              "changed" \in seen[g] \/ \A o \in At(Obtained) : o <= asks[g].latest
        /\ asks[g].q \in {"clock", "subscription"} => "consent" \in seen[g]

AnswerInv == GateNeedsConsent /\ GateNeedsSubscription /\ GateOpensWhenActive

IInv == TypeOK /\ TimesInv /\ WatchInv /\ ClockInv /\ AskInv /\ AnswerInv

LEMMA TruthFacts ==
  ASSUME NEW t
  PROVE  /\ Truths(t) \subseteq {"consent", "subscription", "closed"}
         /\ "consent" \in Truths(t) <=> ConsentStands
         /\ "subscription" \in Truths(t) <=> Subscribed(t)
         /\ "closed" \in Truths(t) <=> ~(ConsentStands /\ Subscribed(now))
  BY DEF Truths

(***************************************************************************)
(* What has not expired by a later time had not by an earlier one.         *)
(***************************************************************************)
LEMMA UnexpiredBefore ==
  ASSUME TypeOK, NEW t \in Nat, NEW u \in Nat, t <= u, Subscribed(u)
  PROVE  Subscribed(t)
<1>1. PICK x \in Txn : Active(subs[x], u)
  BY DEF Subscribed
<1>2. subs[x].expires \in Nat
  BY DEF TypeOK, Subscription, NoSub
<1>3. Active(subs[x], t)
  BY <1>1, <1>2 DEF Active
<1>4. QED
  BY <1>3 DEF Subscribed

LEMMA AtFacts ==
  ASSUME TypeOK, TimesInv, NEW type
  PROVE  At(type) \subseteq 0..MaxTime
  BY DEF At, TimesInv

LEMMA IdleType == Idle \in Tx /\ Idle.event.at = 0
<1>1. \E x \in Txn : TRUE
  BY TxnAssumption
<1>2. (CHOOSE x \in Txn : TRUE) \in Txn
  BY <1>1
<1>3. QED
  BY <1>2 DEF Idle, Tx, Event, Status, VALID_EVENT_TYPES, Obtained

LEMMA InitIInv == Init => IInv
<1> SUFFICES ASSUME Init PROVE IInv
  OBVIOUS
<1>1. Idle \in Tx /\ Idle.event.at = 0
  BY IdleType
<1>2. TypeOK
  BY <1>1, BoundsAssumption DEF Init, TypeOK, NotAsking, NoSub
<1>3. TimesInv
  BY <1>1, BoundsAssumption DEF Init, TimesInv
<1>4. WatchInv /\ ClockInv /\ AskInv
  BY DEF Init, WatchInv, ClockInv, AskInv, NotAsking
<1>5. AnswerInv
  BY DEF Init, AnswerInv, GateNeedsConsent, GateNeedsSubscription, GateOpensWhenActive
<1>6. QED
  BY <1>2, <1>3, <1>4, <1>5 DEF IInv

(***************************************************************************)
(* A writer's step or the clock's leaves every gate where it is.           *)
(***************************************************************************)
Elsewhere == Tick \/ \E w \in Writer : Writes(w)

LEMMA GatesStand == Elsewhere => UNCHANGED <<asks, answer>>
  BY DEF Elsewhere, Tick, Writes, LogEvent, CommitEvent, Purchase, CommitPurchase,
     RollBack, CommitWebhook, CancelAll, CreateSubscription, Webhook

LEMMA BeginType ==
  ASSUME TypeOK, NEW w \in Writer, NEW t \in Tx, Begin(w, t)
  PROVE  tx' \in [Writer -> Tx] /\ calls' \in 0..MaxCalls
  BY BoundsAssumption DEF TypeOK, Begin

LEMMA RowType ==
  ASSUME TypeOK, NEW type \in VALID_EVENT_TYPES
  PROVE  _build_event_row(type) \in Event /\ _build_event_row(type).at = now
  BY BoundsAssumption DEF _build_event_row, Event, TypeOK

LEMMA WatchType ==
  ASSUME TypeOK, Watch
  PROVE  /\ began' \in [Gate -> Nat]
         /\ seen' \in [Gate -> SUBSET {"consent", "subscription", "closed", "changed"}]
<1>1. \A g \in Gate : Truths(began[g])' \subseteq {"consent", "subscription", "closed"}
  BY DEF Truths
<1>2. QED
  BY <1>1 DEF Watch, TypeOK

LEMMA SubType ==
  /\ \A n \in Nat : [status |-> "active", expires |-> n] \in Subscription
  /\ \A s \in Subscription, st \in Status : [s EXCEPT !.status = st] \in Subscription
  BY DEF Subscription, Status

-----------------------------------------------------------------------------
(***************************************************************************)
(* What a writer's step leaves in the database and in its transaction.     *)
(***************************************************************************)
StoreOK ==
    /\ now' \in 0..MaxTime
    /\ events' \subseteq Event
    /\ subs' \in [Txn -> Subscription \cup {NoSub}]
    /\ tx' \in [Writer -> Tx]
    /\ calls' \in 0..MaxCalls

LEMMA EventSteps ==
  ASSUME TypeOK, NEW w \in Writer,
         LogEvent(w) \/ CommitEvent(w) \/ Purchase(w) \/ RollBack(w)
  PROVE  StoreOK
<1>1. CASE LogEvent(w)
  <2>1. PICK type \in Recorded :
           Begin(w, [Idle EXCEPT !.op = "event", !.event = _build_event_row(type)])
    BY <1>1 DEF LogEvent
  <2>2. [Idle EXCEPT !.op = "event", !.event = _build_event_row(type)] \in Tx
    BY RecordedAssumption, IdleType, RowType DEF Tx
  <2>3. QED
    BY <1>1, <2>1, <2>2, BeginType DEF LogEvent, StoreOK, TypeOK
<1>2. CASE CommitEvent(w)
  <2>1. tx[w].event \in Event
    BY DEF TypeOK, Tx
  <2>2. QED
    BY <1>2, <2>1, IdleType DEF CommitEvent, End, StoreOK, TypeOK
<1>3. CASE Purchase(w)
  <2>1. PICK x \in Txn :
           Begin(w, [Idle EXCEPT !.op = "purchase", !.txn = x,
                                 !.event = _build_event_row(Obtained)])
    BY <1>3 DEF Purchase
  <2>2. _build_event_row(Obtained) \in Event
    BY RowType DEF VALID_EVENT_TYPES
  <2>3. [Idle EXCEPT !.op = "purchase", !.txn = x,
                     !.event = _build_event_row(Obtained)] \in Tx
    BY <2>2, IdleType DEF Tx
  <2>4. QED
    BY <1>3, <2>1, <2>3, BeginType DEF Purchase, StoreOK, TypeOK
<1>4. CASE RollBack(w)
  BY <1>4, IdleType DEF RollBack, End, StoreOK, TypeOK
<1>5. QED
  BY <1>1, <1>2, <1>3, <1>4

LEMMA SubscriptionSteps ==
  ASSUME TypeOK, NEW w \in Writer,
         \/ CommitPurchase(w) \/ CommitWebhook(w) \/ CancelAll(w)
         \/ \E x \in Txn : CreateSubscription(w, x) \/ Webhook(w, x)
  PROVE  StoreOK
<1>0. \A s \in Subscription \cup {NoSub}, st \in Status :
         [s EXCEPT !.status = st] \in Subscription
  BY DEF Subscription, NoSub, Status
<1>1. CASE CommitPurchase(w)
  <2>1. PICK n \in 0..MaxTime :
           subs' = [subs EXCEPT ![tx[w].txn] = [status |-> "active", expires |-> n]]
    BY <1>1 DEF CommitPurchase
  <2>2. subs' \in [Txn -> Subscription \cup {NoSub}]
    <3>1. [status |-> "active", expires |-> n] \in Subscription
      BY SubType, BoundsAssumption
    <3>2. tx[w].txn \in Txn
      BY DEF TypeOK, Tx
    <3>3. QED
      BY <2>1, <3>1, <3>2 DEF TypeOK
  <2>3. tx[w].event \in Event
    BY DEF TypeOK, Tx
  <2>4. QED
    BY <1>1, <2>2, <2>3, IdleType DEF CommitPurchase, End, StoreOK, TypeOK
<1>2. CASE CommitWebhook(w)
  <2>1. tx[w].txn \in Txn /\ tx[w].status \in Status
    BY DEF TypeOK, Tx
  <2>2. [subs[tx[w].txn] EXCEPT !.status = tx[w].status] \in Subscription
    BY <1>0, <2>1 DEF TypeOK
  <2>3. subs' \in [Txn -> Subscription \cup {NoSub}]
    BY <1>2, <2>2 DEF CommitWebhook, TypeOK
  <2>4. QED
    BY <1>2, <2>3, IdleType DEF CommitWebhook, End, StoreOK, TypeOK
<1>3. CASE CancelAll(w)
  <2>1. \A x \in Txn : [subs[x] EXCEPT !.status = "cancelled"] \in Subscription
    BY <1>0 DEF TypeOK, Status
  <2>2. subs' \in [Txn -> Subscription \cup {NoSub}]
    BY <1>3, <2>1 DEF CancelAll
  <2>3. QED
    BY <1>3, <2>2, IdleType, BeginType DEF CancelAll, StoreOK, TypeOK
<1>4. ASSUME NEW x \in Txn, CreateSubscription(w, x) PROVE StoreOK
  <2>1. PICK n \in 0..MaxTime :
           subs' = [subs EXCEPT ![x] = [status |-> "active", expires |-> n]]
    BY <1>4 DEF CreateSubscription
  <2>2. subs' \in [Txn -> Subscription \cup {NoSub}]
    BY <2>1, SubType, BoundsAssumption DEF TypeOK
  <2>3. QED
    BY <1>4, <2>2, IdleType, BeginType DEF CreateSubscription, StoreOK, TypeOK
<1>5. ASSUME NEW x \in Txn, Webhook(w, x) PROVE StoreOK
  <2>1. PICK status \in Status :
           Begin(w, [Idle EXCEPT !.op = "webhook", !.txn = x, !.status = status,
                                 !.was = subs[x].status])
    BY <1>5 DEF Webhook
  <2>2. subs[x].status \in Status
    BY <1>5 DEF Webhook, TypeOK, Subscription
  <2>3. [Idle EXCEPT !.op = "webhook", !.txn = x, !.status = status,
                     !.was = subs[x].status] \in Tx
    BY <2>2, IdleType DEF Tx
  <2>4. QED
    BY <1>5, <2>1, <2>3, BeginType DEF Webhook, StoreOK, TypeOK
<1>6. QED
  BY <1>1, <1>2, <1>3, <1>4, <1>5

LEMMA ElsewhereType == TypeOK /\ Elsewhere => StoreOK
<1> SUFFICES ASSUME TypeOK, Elsewhere PROVE StoreOK
  OBVIOUS
<1>1. CASE Tick
  BY <1>1, BoundsAssumption DEF Tick, TypeOK, StoreOK
<1>2. ASSUME NEW w \in Writer, Writes(w) PROVE StoreOK
  BY <1>2, EventSteps, SubscriptionSteps DEF Writes
<1>3. QED
  BY <1>1, <1>2 DEF Elsewhere

LEMMA ClockGoesOn == TypeOK /\ Elsewhere => now <= now'
<1>1. Elsewhere => now' = now \/ now' = now + 1
  BY DEF Elsewhere, Tick, Writes, LogEvent, CommitEvent, Purchase, CommitPurchase,
     RollBack, CommitWebhook, CancelAll, CreateSubscription, Webhook
<1>2. TypeOK => now \in Nat
  BY BoundsAssumption DEF TypeOK
<1>3. QED
  BY <1>1, <1>2

(***************************************************************************)
(* Events only grow, and their times, committed or not, stay in bounds.    *)
(***************************************************************************)
LEMMA EventsGrow == Elsewhere => events \subseteq events'
  BY DEF Elsewhere, Tick, Writes, LogEvent, CommitEvent, Purchase, CommitPurchase,
     RollBack, CommitWebhook, CancelAll, CreateSubscription, Webhook

LEMMA TimesStep ==
  ASSUME TypeOK, TimesInv, Elsewhere
  PROVE  TimesInv'
<1> USE DEF TimesInv
<1>0. Idle.event.at \in 0..MaxTime /\ now \in 0..MaxTime
  BY IdleType, BoundsAssumption DEF TypeOK
<1>1. CASE Tick
  BY <1>1 DEF Tick
<1>2. ASSUME NEW w \in Writer, NEW t, Begin(w, t), t.event.at \in 0..MaxTime,
             events' = events
      PROVE  TimesInv'
  BY <1>2 DEF Begin, TypeOK
<1>3. ASSUME NEW w \in Writer, End(w), events' \subseteq events \cup {tx[w].event}
      PROVE  TimesInv'
  BY <1>0, <1>3 DEF End, TypeOK
<1>4. ASSUME NEW w \in Writer, Writes(w) PROVE TimesInv'
  <2>1. CASE LogEvent(w)
    <3>1. PICK type \in Recorded :
             Begin(w, [Idle EXCEPT !.op = "event", !.event = _build_event_row(type)])
      BY <2>1 DEF LogEvent
    <3>2. [Idle EXCEPT !.op = "event", !.event = _build_event_row(type)].event.at = now
      BY DEF Idle, _build_event_row
    <3>3. QED
      BY <1>0, <1>2, <2>1, <3>1, <3>2 DEF LogEvent
  <2>2. CASE Purchase(w)
    <3>1. PICK x \in Txn :
             Begin(w, [Idle EXCEPT !.op = "purchase", !.txn = x,
                                   !.event = _build_event_row(Obtained)])
      BY <2>2 DEF Purchase
    <3>2. [Idle EXCEPT !.op = "purchase", !.txn = x,
                       !.event = _build_event_row(Obtained)].event.at = now
      BY DEF Idle, _build_event_row
    <3>3. QED
      BY <1>0, <1>2, <2>2, <3>1, <3>2 DEF Purchase
  <2>3. CASE CommitEvent(w) \/ CommitPurchase(w) \/ RollBack(w) \/ CommitWebhook(w)
    BY <1>3, <2>3 DEF CommitEvent, CommitPurchase, RollBack, CommitWebhook
  <2>4. CASE CancelAll(w) \/ \E x \in Txn : CreateSubscription(w, x)
    BY <1>0, <1>2, <2>4 DEF CancelAll, CreateSubscription
  <2>5. CASE \E x \in Txn : Webhook(w, x)
    <3>1. PICK x \in Txn, status \in Status :
             Begin(w, [Idle EXCEPT !.op = "webhook", !.txn = x, !.status = status,
                                   !.was = subs[x].status])
      BY <2>5 DEF Webhook
    <3>2. [Idle EXCEPT !.op = "webhook", !.txn = x, !.status = status,
                       !.was = subs[x].status].event.at = Idle.event.at
      BY DEF Idle
    <3>3. QED
      BY <1>0, <1>2, <2>5, <3>1, <3>2 DEF Webhook
  <2>6. QED
    BY <1>4, <2>1, <2>2, <2>3, <2>4, <2>5 DEF Writes
<1>5. QED
  BY <1>1, <1>4 DEF Elsewhere

-----------------------------------------------------------------------------
(***************************************************************************)
(* A step of a writer or of the clock, seen by the gates that are asking.  *)
(***************************************************************************)
LEMMA ElsewhereStep ==
  ASSUME IInv, Elsewhere, Watch
  PROVE  IInv'
<1> USE DEF IInv
<1>1. asks' = asks /\ answer' = answer
  BY GatesStand
<1>2. TypeOK'
  BY <1>1, ElsewhereType, WatchType DEF StoreOK, TypeOK
<1>3. TimesInv'
  BY TimesStep
<1>4. \A g \in Gate : seen[g] \subseteq seen'[g]
  BY DEF Watch, TypeOK
<1>5. \A g \in Gate : asks[g].q # "none" =>
         Truths(began[g])' \subseteq seen'[g] /\ (events' # events => "changed" \in seen'[g])
  BY DEF Watch
<1>6. WatchInv'
  BY <1>1, <1>5 DEF WatchInv
<1>7. ClockInv'
  <2>1. now <= now' /\ now \in Nat /\ now' \in Nat
    BY <1>2, ClockGoesOn, BoundsAssumption DEF TypeOK
  <2>2. \A g \in Gate : began[g] \in Nat /\ asks[g].clock \in Nat
    BY DEF TypeOK
  <2>3. began' = began
    BY DEF Watch
  <2>4. QED
    BY <1>1, <2>1, <2>2, <2>3 DEF ClockInv
<1>8. At(Obtained) \subseteq At(Obtained)'
  BY EventsGrow DEF At
<1>9. events' = events => At(Obtained)' = At(Obtained)
  BY DEF At
<1>10. AskInv'
  <2> SUFFICES ASSUME NEW g \in Gate, asks[g].q # "none"
               PROVE  /\ answer[g] = "none" /\ asks[g].latest \in At(Obtained)'
                      /\ "changed" \in seen'[g] \/ \A o \in At(Obtained)' : o <= asks[g].latest
                      /\ asks[g].q \in {"clock", "subscription"} => "consent" \in seen'[g]
    BY <1>1 DEF AskInv
  <2>1. QED
    BY <1>4, <1>5, <1>8, <1>9 DEF AskInv
<1>11. AnswerInv'
  BY <1>1, <1>4 DEF AnswerInv, GateNeedsConsent, GateNeedsSubscription, GateOpensWhenActive
<1>12. QED
  BY <1>2, <1>3, <1>6, <1>7, <1>10, <1>11

-----------------------------------------------------------------------------
(***************************************************************************)
(* The questions, and the reading of the clock. None of them changes what  *)
(* is true.                                                                *)
(***************************************************************************)
LEMMA TruthsStand ==
  ASSUME NEW g \in Gate, Asks(g)
  PROVE  /\ UNCHANGED <<now, events, subs, tx, calls, At(Obtained)>>
         /\ \A t : Truths(t)' = Truths(t)
<1>1. UNCHANGED <<now, events, subs, tx, calls>>
  BY DEF Asks, AskObtained, AskRevoked, ReadClock, AskSubscription
<1>2. QED
  BY <1>1 DEF Truths, ConsentStands, Subscribed, Active, At

LEMMA ObtainedStep ==
  ASSUME IInv, NEW g \in Gate, AskObtained(g),
         began' = [began EXCEPT ![g] = now], seen' = [seen EXCEPT ![g] = Truths(now)]
  PROVE  IInv'
<1> USE DEF IInv
<1> DEFINE latest == Latest(At(Obtained))
<1>0. Asks(g)
  BY DEF Asks
<1>1. asks[g].q = "none" /\ now \in Nat
  BY BoundsAssumption DEF AskObtained, TypeOK
<1>2. UNCHANGED <<now, events, subs, tx, calls, At(Obtained)>>
      /\ \A t : Truths(t)' = Truths(t)
  BY <1>0, TruthsStand
<1>3. CASE At(Obtained) = {}
  <2>1. ~ConsentStands
    BY <1>3 DEF ConsentStands
  <2>2. "closed" \in Truths(now) /\ Truths(now) \subseteq {"consent", "subscription", "closed"}
    BY <2>1, TruthFacts
  <2>3. asks' = [asks EXCEPT ![g] = NotAsking] /\ answer' = [answer EXCEPT ![g] = "no"]
    BY <1>3 DEF AskObtained, Answers
  <2>4. TypeOK'
    BY <1>1, <1>2, <2>2, <2>3 DEF TypeOK, NotAsking
  <2>5. WatchInv'
    BY <1>2, <2>3 DEF WatchInv, TypeOK, NotAsking
  <2>6. ClockInv' /\ AskInv' /\ TimesInv'
    BY <1>2, <2>3 DEF ClockInv, AskInv, TimesInv, TypeOK, NotAsking
  <2>7. AnswerInv'
    BY <2>2, <2>3 DEF AnswerInv, GateNeedsConsent, GateNeedsSubscription,
       GateOpensWhenActive, TypeOK
  <2>8. QED
    BY <2>4, <2>5, <2>6, <2>7
<1>4. CASE At(Obtained) # {}
  <2>1. asks' = [asks EXCEPT ![g].q = "revoked", ![g].latest = latest]
        /\ answer' = [answer EXCEPT ![g] = "none"]
    BY <1>4 DEF AskObtained
  <2>2. At(Obtained) \subseteq 0..MaxTime
    BY AtFacts
  <2>3. latest \in At(Obtained) /\ \A o \in At(Obtained) : o <= latest
    BY <1>4, <2>2, LatestIsLatest, BoundsAssumption
  <2>4. latest \in Nat
    BY <2>2, <2>3
  <2> HIDE DEF latest
  <2>5. TypeOK'
    BY <1>1, <1>2, <2>1, <2>4, TruthFacts DEF TypeOK
  <2>6. WatchInv'
    BY <1>2, <2>1 DEF WatchInv, TypeOK
  <2>7. ClockInv'
    BY <1>1, <1>2, <2>1 DEF ClockInv, TypeOK
  <2>8. AskInv'
    BY <1>2, <2>1, <2>3 DEF AskInv, TypeOK
  <2>9. TimesInv'
    BY <1>2 DEF TimesInv
  <2>10. AnswerInv'
    BY <2>1 DEF AnswerInv, GateNeedsConsent, GateNeedsSubscription,
       GateOpensWhenActive, TypeOK
  <2>11. QED
    BY <2>5, <2>6, <2>7, <2>8, <2>9, <2>10
<1>5. QED
  BY <1>3, <1>4

(***************************************************************************)
(* A gate that goes on, having learnt no answer.                           *)
(***************************************************************************)
LEMMA GoesOn ==
  ASSUME IInv, NEW g \in Gate, Asks(g), UNCHANGED <<began, seen, answer>>,
         asks[g].q # "none", NEW q \in {"clock", "subscription"}, NEW clock \in Nat,
         asks' = [asks EXCEPT ![g].q = q, ![g].clock = clock],
         "consent" \in seen[g],
         q = "subscription" => clock = now
  PROVE  IInv'
<1> USE DEF IInv
<1>1. UNCHANGED <<now, events, subs, tx, calls, At(Obtained)>>
      /\ \A t : Truths(t)' = Truths(t)
  BY TruthsStand
<1>2. TypeOK'
  BY <1>1 DEF TypeOK
<1>3. WatchInv' /\ TimesInv'
  BY <1>1 DEF WatchInv, TimesInv, TypeOK
<1>4. ClockInv'
  BY <1>1, BoundsAssumption DEF ClockInv, TypeOK
<1>5. AskInv'
  BY <1>1 DEF AskInv, TypeOK
<1>6. AnswerInv'
  BY DEF AnswerInv, GateNeedsConsent, GateNeedsSubscription, GateOpensWhenActive
<1>7. QED
  BY <1>2, <1>3, <1>4, <1>5, <1>6

(***************************************************************************)
(* An answer is given after the first question: what is left to show is    *)
(* that it is justified by what was seen.                                  *)
(***************************************************************************)
LEMMA AnswerStep ==
  ASSUME IInv, NEW g \in Gate, Asks(g), UNCHANGED <<began, seen>>, NEW yes \in BOOLEAN,
         Answers(g, yes),
         yes => {"consent", "subscription"} \subseteq seen[g],
         ~yes => {"closed", "changed"} \cap seen[g] # {}
  PROVE  IInv'
<1> USE DEF IInv
<1>1. UNCHANGED <<now, events, subs, tx, calls, At(Obtained)>>
      /\ \A t : Truths(t)' = Truths(t)
  BY TruthsStand
<1>2. asks' = [asks EXCEPT ![g] = NotAsking]
      /\ answer' = [answer EXCEPT ![g] = IF yes THEN "yes" ELSE "no"]
  BY DEF Answers
<1>3. TypeOK'
  BY <1>1, <1>2 DEF TypeOK, NotAsking
<1>4. WatchInv' /\ ClockInv' /\ AskInv' /\ TimesInv'
  BY <1>1, <1>2 DEF WatchInv, ClockInv, AskInv, TimesInv, TypeOK, NotAsking
<1>5. AnswerInv'
  BY <1>2 DEF AnswerInv, GateNeedsConsent, GateNeedsSubscription,
     GateOpensWhenActive, TypeOK
<1>6. QED
  BY <1>3, <1>4, <1>5

LEMMA RevokedStep ==
  ASSUME IInv, NEW g \in Gate, AskRevoked(g), UNCHANGED <<began, seen>>
  PROVE  IInv'
<1>0. Asks(g)
  BY DEF Asks
<1>1. /\ asks[g].q = "revoked" /\ asks[g].latest \in At(Obtained)
      /\ Truths(began[g]) \subseteq seen[g]
  BY DEF IInv, AskRevoked, AskInv, WatchInv
<1>2. At(Obtained) \subseteq Nat /\ At(Revoked) \subseteq Nat
  BY AtFacts DEF IInv
<1>3. CASE \E t \in At(Revoked) : t > asks[g].latest
  <2>1. Answers(g, FALSE)
    BY <1>3 DEF AskRevoked
  <2>2. "changed" \in seen[g] \/ \A o \in At(Obtained) : o <= asks[g].latest
    BY <1>1 DEF IInv, AskInv
  <2>3. (\A o \in At(Obtained) : o <= asks[g].latest) => ~ConsentStands
    BY <1>1, <1>2, <1>3 DEF ConsentStands
  <2>4. {"closed", "changed"} \cap seen[g] # {}
    BY <1>1, <2>2, <2>3, TruthFacts
  <2>5. QED
    BY <1>0, <2>1, <2>4, AnswerStep
<1>4. CASE ~\E t \in At(Revoked) : t > asks[g].latest
  <2>1. ConsentStands
    BY <1>1, <1>2, <1>4 DEF ConsentStands
  <2>2. "consent" \in seen[g]
    BY <1>1, <2>1, TruthFacts
  <2>3. asks' = [asks EXCEPT ![g].q = "clock", ![g].clock = asks[g].clock]
        /\ answer' = answer /\ asks[g].clock \in Nat
    BY <1>4 DEF AskRevoked, IInv, TypeOK
  <2>4. QED
    BY <1>0, <1>1, <2>2, <2>3, GoesOn
<1>5. QED
  BY <1>3, <1>4

LEMMA ClockStep ==
  ASSUME IInv, NEW g \in Gate, ReadClock(g), UNCHANGED <<began, seen>>
  PROVE  IInv'
<1>1. Asks(g) /\ asks[g].q = "clock"
  BY DEF Asks, ReadClock
<1>2. "consent" \in seen[g] /\ now \in Nat
  BY <1>1, BoundsAssumption DEF IInv, AskInv, TypeOK
<1>3. asks' = [asks EXCEPT ![g].q = "subscription", ![g].clock = now] /\ answer' = answer
  BY DEF ReadClock
<1>4. QED
  BY <1>1, <1>2, <1>3, GoesOn

(***************************************************************************)
(* The clock lies between the beginning of the check and the query: a      *)
(* subscription unexpired by the clock had not expired at the beginning,   *)
(* and if none is, none is at the query.                                   *)
(***************************************************************************)
LEMMA SubscriptionStep ==
  ASSUME IInv, NEW g \in Gate, AskSubscription(g), UNCHANGED <<began, seen>>
  PROVE  IInv'
<1> DEFINE clock == asks[g].clock
<1>0. Asks(g)
  BY DEF Asks
<1>1. asks[g].q = "subscription" /\ Answers(g, Subscribed(clock))
  BY DEF AskSubscription, Subscribed
<1>2. "consent" \in seen[g] /\ Truths(began[g]) \subseteq seen[g]
  BY <1>1 DEF IInv, AskInv, WatchInv
<1>3. began[g] <= clock /\ clock <= now
  BY <1>1 DEF IInv, ClockInv
<1>4. TypeOK /\ began[g] \in Nat /\ clock \in Nat /\ now \in Nat
  BY BoundsAssumption DEF IInv, TypeOK
<1>5. Subscribed(clock) => Subscribed(began[g])
  BY <1>3, <1>4, UnexpiredBefore
<1>6. Subscribed(now) => Subscribed(clock)
  BY <1>3, <1>4, UnexpiredBefore
<1>7. Subscribed(clock) => {"consent", "subscription"} \subseteq seen[g]
  BY <1>2, <1>5, TruthFacts
<1>8. ~Subscribed(clock) => {"closed", "changed"} \cap seen[g] # {}
  BY <1>2, <1>6, TruthFacts
<1>9. Subscribed(clock) \in BOOLEAN
  BY DEF Subscribed
<1>10. QED
  BY <1>0, <1>1, <1>7, <1>8, <1>9, AnswerStep

LEMMA StepIInv == IInv /\ [Next]_vars => IInv'
<1> SUFFICES ASSUME IInv, [Next]_vars PROVE IInv'
  OBVIOUS
<1>1. CASE UNCHANGED vars
  BY <1>1 DEF vars, IInv, TypeOK, TimesInv, WatchInv, ClockInv, AskInv, AnswerInv, Truths,
     ConsentStands, Subscribed, Active, At, GateNeedsConsent, GateNeedsSubscription,
     GateOpensWhenActive
<1>2. CASE Elsewhere /\ Watch
  BY <1>2, ElsewhereStep
<1>3. ASSUME NEW g \in Gate, Asks(g) PROVE IInv'
  BY <1>3, ObtainedStep, RevokedStep, ClockStep, SubscriptionStep DEF Asks
<1>4. QED
  BY <1>1, <1>2, <1>3 DEF Next, Elsewhere

LEMMA Invariance == Spec => []IInv
  BY InitIInv, StepIInv, PTL DEF Spec

-----------------------------------------------------------------------------
(***************************************************************************)
(* Every row, transaction and answer has its type: a status is one of the  *)
(* four that the column documents (SubscriptionModel), an event one of     *)
(* VALID_EVENT_TYPES.                                                      *)
(***************************************************************************)
THEOREM TypeCorrect == Spec => []TypeOK
<1>1. IInv => TypeOK
  BY DEF IInv
<1>2. QED
  BY <1>1, Invariance, PTL

(***************************************************************************)
(* A yes of has_active_consent rests on a consent that was not withdrawn   *)
(* at some moment of the check, for any number of concurrent writers and   *)
(* any order of commits and timestamps.                                    *)
(***************************************************************************)
THEOREM OpensOnlyOnConsent == Spec => []GateNeedsConsent
<1>1. IInv => GateNeedsConsent
  BY DEF IInv, AnswerInv
<1>2. QED
  BY <1>1, Invariance, PTL

(***************************************************************************)
(* And on a subscription that was active at some moment of the check and   *)
(* had not expired when the check began, although the clock is read before *)
(* the query that compares with it.                                        *)
(***************************************************************************)
THEOREM OpensOnlyOnSubscription == Spec => []GateNeedsSubscription
<1>1. IInv => GateNeedsSubscription
  BY DEF IInv, AnswerInv
<1>2. QED
  BY <1>1, Invariance, PTL

(***************************************************************************)
(* A no of has_active_consent was true at some moment of the check, unless *)
(* an event was committed meanwhile.                                       *)
(***************************************************************************)
THEOREM OpensToTheEntitled == Spec => []GateOpensWhenActive
<1>1. IInv => GateOpensWhenActive
  BY DEF IInv, AnswerInv
<1>2. QED
  BY <1>1, Invariance, PTL
=============================================================================
