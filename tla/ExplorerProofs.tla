--------------------------- MODULE ExplorerProofs ---------------------------
(***************************************************************************)
(* What holds of the player and of the page as a whole, for any library of *)
(* stories that do not go round in circles by themselves.                  *)
(***************************************************************************)
EXTENDS Explorer, TopicMapProofs, FiniteSetTheorems, SequenceTheorems,
        WellFoundedInduction

(* A run is a non-empty sequence of segments that ends where something is to be chosen *)
(* or the story does.                                                                  *)
LEMMA RunType ==
  ASSUME NEW s \in Story, NEW g \in Segment
  PROVE  /\ run[s][g] \in Seq(Segment) /\ run[s][g] # << >>
         /\ End(run[s][g]) \in Segment
         /\ library[s].next[End(run[s][g])] \in Choice \cup {TheEnd}
<1> DEFINE p == run[s][g]
<1>1. p \in Runs /\ IsRun(s, p)
  BY BraidAssumption DEF run
<1>2. Cardinality(Segment) \in Nat
  BY FiniteAssumption, FS_CardinalityType
<1>3. PICK n \in 1..Cardinality(Segment) : p \in [1..n -> Segment]
  BY <1>1 DEF Runs
<1>4. p \in Seq(Segment) /\ Len(p) = n /\ n \in 1..n
  BY <1>2, <1>3
<1>5. End(p) \in Segment /\ p # << >>
  BY <1>3, <1>4 DEF End
<1>6. library[s].next \in [Segment -> Segment \cup Choice \cup {TheEnd}]
  BY LibraryAssumption DEF StoryData
<1>7. library[s].next[End(p)] \in Choice \cup {TheEnd}
  BY <1>1, <1>5, <1>6 DEF IsRun, End
<1>8. QED
  BY <1>4, <1>5, <1>7

(* A story's record. *)
LEMMA StoryType ==
  ASSUME NEW s \in Story
  PROVE  /\ library[s].start \in Segment
         /\ library[s].asks \in Seq(Slot)
         /\ library[s].default \in [Slot -> Name]
         /\ library[s].options \in [Choice -> Seq(Option)]
BY LibraryAssumption DEF StoryData

(* The end of what was told is the end of what was told last. *)
LEMMA EndOfRun ==
  ASSUME NEW s \in Seq(Segment), NEW t \in Seq(Segment), t # << >>
  PROVE  /\ s \o t \in Seq(Segment) /\ s \o t # << >>
         /\ End(s \o t) = End(t)
<1>1. Len(t) \in Nat /\ Len(t) # 0
  BY EmptySeq
<1>2. Len(s \o t) = Len(s) + Len(t)
  BY ConcatProperties
<1>3. QED
  BY <1>1, <1>2, ConcatProperties DEF End

----------------------------------------------------------------------------
(* What fills in the names. *)
LEMMA FillType ==
  ASSUME NEW p \in Play, NEW told \in Seq(Segment)
  PROVE  fill(p, told) \in Seq([Slot -> Name])
<1>1. p.slots \in [Slot -> Name]
  BY DEF Play
<1>2. QED
  BY <1>1 DEF fill

(* What renderSegment makes of a playthrough. *)
LEMMA SegmentRendered ==
  ASSUME NEW p \in Play, NEW g \in Segment
  PROVE  LET told == run[p.story][g]
             q == renderSegment(p, g)
         IN  /\ q = [story |-> p.story, slots |-> p.slots, recap |-> p.recap,
                     pending |-> p.pending, trail |-> p.trail \o told,
                     names |-> p.names \o fill(p, told),
                     walked |-> p.walked \cup {told[j] : j \in DOMAIN told},
                     body |-> library[p.story].next[End(told)]]
             /\ q \in Play
             /\ q.trail # << >> /\ q.body \notin Slot
             /\ q.body = library[q.story].next[End(q.trail)]
<1> DEFINE told == run[p.story][g]
           q == renderSegment(p, g)
<1>1. p.story \in Story /\ p.trail \in Seq(Segment) /\ p.names \in Seq([Slot -> Name])
      /\ p.slots \in [Slot -> Name]
  BY DEF Play
<1>2. q = [story |-> p.story, slots |-> p.slots, recap |-> p.recap,
           pending |-> p.pending, trail |-> p.trail \o told,
           names |-> p.names \o fill(p, told),
           walked |-> p.walked \cup {told[j] : j \in DOMAIN told},
           body |-> library[p.story].next[End(told)]]
  <2>1. DOMAIN p = {"story", "slots", "recap", "pending", "trail", "names", "walked", "body"}
    BY DEF Play
  <2>2. q = [p EXCEPT !.trail = p.trail \o told,
                      !.names = p.names \o fill(p, told),
                      !.walked = p.walked \cup {told[j] : j \in DOMAIN told},
                      !.body = library[p.story].next[End(told)]]
    BY DEF renderSegment
  <2> HIDE DEF told, q
  <2>3. QED
    BY <2>1, <2>2
<1>3. told \in Seq(Segment) /\ told # << >>
      /\ library[p.story].next[End(told)] \in Choice \cup {TheEnd}
  BY <1>1, RunType
<1>4. p.trail \o told \in Seq(Segment) /\ p.trail \o told # << >>
      /\ End(p.trail \o told) = End(told)
  BY <1>1, <1>3, EndOfRun
<1>5. fill(p, told) \in Seq([Slot -> Name])
  BY <1>3, FillType
<1>6. p.names \o fill(p, told) \in Seq([Slot -> Name])
  BY <1>1, <1>5
<1>7. {told[j] : j \in DOMAIN told} \subseteq Segment
  BY <1>3
<1>8. library[p.story].next[End(told)] \notin Slot
  BY <1>3, DisjointAssumption
<1>9. q \in Play
  BY <1>2, <1>3, <1>4, <1>6, <1>7 DEF Play, Body
<1>10. QED
  BY <1>2, <1>4, <1>8, <1>9

(* What starts a story asks for the next name, or tells the story from its beginning *)
(* with the values that the slots have.                                              *)
LEMMA NamedOrStarted ==
  ASSUME NEW p \in Play, p.trail = << >>, p.names = << >>
  PROVE  LET q == NameOrStart(p)
         IN  /\ q \in Play /\ Stands(q)
             /\ q.story = p.story /\ q.slots = p.slots /\ q.recap = p.recap
             /\ \A j \in DOMAIN q.names : q.names[j] = p.slots
             /\ q.trail = << >> => q.names = << >>
             /\ q.walked = p.walked \cup {q.trail[j] : j \in DOMAIN q.trail}
             /\ q.trail = IF p.pending # << >> THEN << >>
                          ELSE run[p.story][library[p.story].start]
<1> SUFFICES ASSUME NEW q, q = NameOrStart(p)
             PROVE  /\ q \in Play /\ Stands(q)
                    /\ q.story = p.story /\ q.slots = p.slots /\ q.recap = p.recap
                    /\ \A j \in DOMAIN q.names : q.names[j] = p.slots
                    /\ q.trail = << >> => q.names = << >>
                    /\ q.walked = p.walked \cup {q.trail[j] : j \in DOMAIN q.trail}
                    /\ q.trail = IF p.pending # << >> THEN << >>
                                 ELSE run[p.story][library[p.story].start]
  OBVIOUS
<1>1. p.story \in Story /\ p.pending \in Seq(Slot)
  BY DEF Play
<1>2. CASE p.pending # << >>
  <2>1. Head(p.pending) \in Slot
    BY <1>1, <1>2
  <2>2. q = [p EXCEPT !.body = Head(p.pending)]
    BY <1>2 DEF NameOrStart, renderNaming
  <2>3. /\ q \in Play
        /\ q.story = p.story /\ q.slots = p.slots /\ q.recap = p.recap
        /\ q.pending = p.pending /\ q.trail = << >> /\ q.names = << >>
        /\ q.body = Head(p.pending) /\ q.walked = p.walked
    BY <2>1, <2>2 DEF Play, Body
  <2>4. QED
    BY <1>2, <2>1, <2>3 DEF Stands
<1>3. CASE p.pending = << >>
  <2> DEFINE first == [p EXCEPT !.trail = << >>, !.names = << >>]
             g == library[p.story].start
             told == run[p.story][g]
  <2>1. first = p
    BY DEF Play
  <2>2. g \in Segment
    BY <1>1, StoryType
  <2>3. q = renderSegment(p, g)
    BY <1>3, <2>1 DEF NameOrStart, startSegments
  <2>4. /\ q = [story |-> p.story, slots |-> p.slots, recap |-> p.recap,
                pending |-> p.pending, trail |-> p.trail \o told,
                names |-> p.names \o fill(p, told),
                walked |-> p.walked \cup {told[j] : j \in DOMAIN told},
                body |-> library[p.story].next[End(told)]]
        /\ q \in Play
        /\ q.trail # << >> /\ q.body \notin Slot
        /\ q.body = library[q.story].next[End(q.trail)]
    BY <2>2, <2>3, SegmentRendered
  <2>5. told \in Seq(Segment) /\ fill(p, told) \in Seq([Slot -> Name])
    BY <1>1, <2>2, RunType, FillType
  <2> HIDE DEF told
  <2>6. q.trail = told /\ q.names = fill(p, told)
    BY <2>4, <2>5, ConcatEmptySeq
  <2>7. \A j \in DOMAIN q.names : q.names[j] = p.slots
    BY <2>6 DEF fill
  <2>8. Stands(q)
    BY <1>3, <2>4 DEF Stands
  <2>9. /\ q.story = p.story /\ q.slots = p.slots /\ q.recap = p.recap
        /\ q.walked = p.walked \cup {q.trail[j] : j \in DOMAIN q.trail}
    BY <2>4, <2>6
  <2>10. q.trail = IF p.pending # << >> THEN << >> ELSE run[p.story][library[p.story].start]
    BY <1>3, <2>6 DEF told
  <2>11. q \in Play /\ q.trail # << >>
    BY <2>4
  <2>12. QED
    BY <2>7, <2>8, <2>9, <2>10, <2>11
<1>4. QED
  BY <1>2, <1>3

(* A new playthrough. *)
LEMMA FreshType ==
  ASSUME NEW s \in Story
  PROVE  /\ Fresh(s) \in Play
         /\ Fresh(s).story = s /\ Fresh(s).slots = library[s].default
         /\ Fresh(s).recap = << >> /\ Fresh(s).trail = << >> /\ Fresh(s).names = << >>
         /\ Fresh(s).walked = {library[s].start}
BY StoryType DEF Fresh, Play, Body

LEMMA OpenedIsPlay ==
  ASSUME PlayerTypeOK
  PROVE  /\ Opened <=> play \in Play
         /\ Opened <=> play.story \in Story
         /\ ~Opened => play = NoPlay
BY NoStoryAssumption DEF PlayerTypeOK, Opened, NoPlay, Play

LEMMA PlayIsOpen ==
  ASSUME NEW p \in Play
  PROVE  p # NoPlay /\ p.story \in Story
BY NoStoryAssumption DEF NoPlay, Play

----------------------------------------------------------------------------
(* Every slot, whichever story asks about it, holds what the last choice that sets it *)
(* says, or else the name given, or else the author's. This is more than the slots'   *)
(* lifetimes say, which speak of the naming slots with less; it is what is inductive. *)
AccountedFor(p, k, name) ==
    IF LastToSet(p, k) = {}
    THEN /\ p.slots[k] = IF name = Keep THEN library[p.story].default[k] ELSE name
         /\ \A j \in DOMAIN p.names : p.names[j][k] = p.slots[k]
    ELSE \A j \in LastToSet(p, k) : p.slots[k] = SetBy(p, j, k)
SlotsAccountedFor == Opened => \A k \in Slot : AccountedFor(play, k, given[k])

(* Before the first segment nothing has been told or chosen. *)
Beginning == Opened /\ play.trail = << >> => play.names = << >> /\ play.recap = << >>

PlayerInv == PlayerTypeOK /\ ScreenIsCurrent /\ TabIsShown /\ Beginning /\ SlotsAccountedFor

LEMMA PlayerInitially == PlayerInit => PlayerInv
BY TopicsAssumption
DEF PlayerInit, PlayerInv, PlayerTypeOK, ScreenIsCurrent, TabIsShown, Beginning,
    SlotsAccountedFor, Opened, Screen, Blank, Tab

(* The player is closed. *)
LEMMA ClosedKeepsInv ==
  ASSUME PlayerInv, closePlayer, page' \in Topic, UNCHANGED tab
  PROVE  PlayerInv'
BY DEF closePlayer, PlayerInv, PlayerTypeOK, ScreenIsCurrent, TabIsShown, Beginning,
       SlotsAccountedFor, Opened, Screen, Blank, Tab

(* A page of the story is drawn, for a playthrough that stands somewhere. *)
LEMMA DrawnKeepsInv ==
  ASSUME PlayerInv, play' \in Play, Stands(play)', Draw(play'.body), UNCHANGED page,
         tab' \in Tab, ~renderWhyThrows' => tab' = "play", given' \in [Slot -> Name \cup {Keep}],
         (play.trail = << >> => play.names = << >> /\ play.recap = << >>)',
         \A k \in Slot : AccountedFor(play, k, given[k])'
  PROVE  PlayerInv'
<1>1. play'.body \in Body /\ play' # NoPlay
  BY NoStoryAssumption DEF Play, NoPlay
<1>2. PlayerTypeOK'
  BY <1>1 DEF PlayerInv, PlayerTypeOK, Draw, Screen, Tab
<1>3. ScreenIsCurrent' /\ TabIsShown'
  BY <1>1 DEF ScreenIsCurrent, TabIsShown, Draw, Opened
<1>4. Beginning' /\ SlotsAccountedFor'
  BY DEF Beginning, SlotsAccountedFor
<1>5. QED
  BY <1>2, <1>3, <1>4 DEF PlayerInv

(* Where nothing has been chosen, a slot has what was given, or the author's value, on *)
(* every page.                                                                         *)
LEMMA AccountedWhenNothingChosen ==
  ASSUME NEW p \in Play, NEW k \in Slot, NEW name, p.recap = << >>,
         \A j \in DOMAIN p.names : p.names[j] = p.slots,
         p.slots[k] = IF name = Keep THEN library[p.story].default[k] ELSE name
  PROVE  AccountedFor(p, k, name)
<1>1. LastToSet(p, k) = {}
  BY DEF LastToSet
<1>2. QED
  BY <1>1 DEF AccountedFor

LEMMA PlayStoryKeepsInv ==
  ASSUME PlayerInv, NEW s \in Story, PlayStory(s)
  PROVE  PlayerInv'
<1> DEFINE p == Fresh(s)
<1>1. /\ p \in Play /\ p.story = s /\ p.slots = library[s].default
      /\ p.recap = << >> /\ p.trail = << >> /\ p.names = << >>
  BY FreshType
<1> HIDE DEF p
<1>2. play' = NameOrStart(p)
  BY DEF PlayStory, p
<1>3. /\ play' \in Play /\ Stands(play')
      /\ play'.story = s /\ play'.slots = p.slots /\ play'.recap = << >>
      /\ \A j \in DOMAIN play'.names : play'.names[j] = play'.slots
      /\ play'.trail = << >> => play'.names = << >>
  BY <1>1, <1>2, NamedOrStarted
<1>4. given' = [k \in Slot |-> Keep]
  BY DEF PlayStory
<1>5. ASSUME NEW k \in Slot
      PROVE  AccountedFor(play', k, given'[k])
  BY <1>1, <1>3, <1>4, AccountedWhenNothingChosen
<1>6. tab' = "play" /\ Draw(play'.body) /\ UNCHANGED page
  BY DEF PlayStory
<1>7. QED
  BY <1>3, <1>4, <1>5, <1>6, DrawnKeepsInv DEF Tab

(* What can be clicked in the body is there because the tab "play" is, unless the tab *)
(* "why" could not be drawn.                                                          *)
LEMMA BodyIsOfPlay ==
  ASSUME PlayerInv, Opened, screen.shows \in Body
  PROVE  screen.shows = play.body /\ (~renderWhyThrows => tab = "play")
BY BodyAssumption DEF PlayerInv, ScreenIsCurrent, TabIsShown, PlayerTypeOK, Tab

(* What setName makes of the playthrough before it asks for the next name or starts. *)
Filled(slots, k, v) == [slots EXCEPT ![k] = IF v = Keep THEN @ ELSE v]

LEMMA Named ==
  ASSUME PlayerInv, NEW k \in Slot, NEW v \in Name \cup {Keep}, setName(k, v)
  PROVE  /\ Opened /\ play \in Play /\ play.trail = << >> /\ play.recap = << >>
         /\ ~renderWhyThrows => tab = "play"
         /\ \E p \in Play :
              /\ p.story = play.story /\ p.recap = << >>
              /\ p.trail = << >> /\ p.names = << >> /\ p.walked = play.walked
              /\ p.slots = Filled(play.slots, k, v)
              /\ play' = NameOrStart(p)
<1>1. /\ play \in Play /\ play.body = k /\ play.pending # << >> /\ play.trail = << >>
      /\ Opened
      /\ ~renderWhyThrows => tab = "play"
  BY OpenedIsPlay, BodyIsOfPlay DEF setName, PlayerInv, ScreenIsCurrent, Stands, Body
<1>2. play.names = << >> /\ play.recap = << >>
  BY <1>1, OpenedIsPlay DEF PlayerInv, Beginning
<1> DEFINE slots == Filled(play.slots, k, v)
<1>3. slots \in [Slot -> Name] /\ Tail(play.pending) \in Seq(Slot)
  <2>1. play.slots \in [Slot -> Name]
    BY <1>1 DEF Play
  <2>2. Tail(play.pending) \in Seq(Slot)
    BY <1>1 DEF Play
  <2>3. QED
    BY <2>1, <2>2 DEF Filled
<1>4. PICK p : p = [play EXCEPT !.slots = slots, !.pending = Tail(play.pending)]
  OBVIOUS
<1>5. play' = NameOrStart(p)
  <2>1. p = [play EXCEPT !.slots[k] = IF v = Keep THEN @ ELSE v, !.pending = Tail(@)]
    BY <1>1, <1>4 DEF Play, Filled
  <2>2. QED
    BY <2>1 DEF setName
<1> HIDE DEF slots
<1>6. /\ p \in Play /\ p.story = play.story /\ p.recap = << >>
      /\ p.trail = << >> /\ p.names = << >> /\ p.walked = play.walked
      /\ p.slots = slots
  BY <1>1, <1>2, <1>3, <1>4 DEF Play
<1>7. QED
  BY <1>1, <1>2, <1>5, <1>6 DEF slots

LEMMA SetNameKeepsInv ==
  ASSUME PlayerInv, NEW k \in Slot, NEW v \in Name \cup {Keep}, setName(k, v)
  PROVE  PlayerInv'
<1>1. /\ Opened /\ play \in Play /\ play.recap = << >>
      /\ ~renderWhyThrows => tab = "play"
  BY Named
<1>2. PICK p \in Play :
        /\ p.story = play.story /\ p.recap = << >> /\ p.trail = << >> /\ p.names = << >>
        /\ p.slots = Filled(play.slots, k, v)
        /\ play' = NameOrStart(p)
  BY Named
<1>7. /\ play' \in Play /\ Stands(play')
      /\ play'.story = play.story /\ play'.slots = p.slots /\ play'.recap = << >>
      /\ \A j \in DOMAIN play'.names : play'.names[j] = play'.slots
      /\ play'.trail = << >> => play'.names = << >>
  BY <1>2, NamedOrStarted
<1>8. /\ given' = [given EXCEPT ![k] = IF v = Keep THEN @ ELSE v]
      /\ given \in [Slot -> Name \cup {Keep}]
      /\ given' \in [Slot -> Name \cup {Keep}]
  BY DEF setName, PlayerInv, PlayerTypeOK
<1>9. ASSUME NEW j \in Slot
      PROVE  AccountedFor(play', j, given'[j])
  <2>1. play.slots[j] = IF given[j] = Keep THEN library[play.story].default[j] ELSE given[j]
    <3>1. LastToSet(play, j) = {}
      BY <1>1 DEF LastToSet
    <3>2. QED
      BY <1>1, <3>1 DEF PlayerInv, SlotsAccountedFor, AccountedFor
  <2>2. play.slots \in [Slot -> Name]
    BY <1>1 DEF Play
  <2>3. play'.slots[j]
          = IF given'[j] = Keep THEN library[play'.story].default[j] ELSE given'[j]
    BY <1>2, <1>7, <1>8, <2>1, <2>2 DEF Filled
  <2>4. QED
    BY <1>7, <2>3, AccountedWhenNothingChosen
<1>10. Draw(play'.body) /\ UNCHANGED <<page, tab>>
  BY DEF setName
<1>11. renderWhyThrows' = renderWhyThrows
  BY <1>7 DEF renderWhyThrows, story
<1>12. QED
  BY <1>1, <1>7, <1>8, <1>9, <1>10, <1>11, DrawnKeepsInv DEF PlayerInv, PlayerTypeOK

(* Values stay accounted for by one more choice. *)
OneMoreChoice(p, q, c, i, t) ==
    /\ q.story = p.story
    /\ q.recap = Append(p.recap, <<c, i>>)
    /\ q.slots = Assigned(p.slots, library[p.story].options[c][i].sets)
    /\ q.names = p.names \o t
    /\ \A j \in DOMAIN t : t[j] = q.slots

LEMMA AccountedAfterChoice ==
  ASSUME NEW p \in Play, NEW q \in Play, NEW k \in Slot, NEW name, NEW c, NEW i,
         NEW t \in Seq([Slot -> Name]),
         AccountedFor(p, k, name), OneMoreChoice(p, q, c, i, t)
  PROVE  AccountedFor(q, k, name)
<1> USE DEF OneMoreChoice
<1> DEFINE sets == library[p.story].options[c][i].sets
<1> DEFINE n == Len(p.recap) + 1
<1>1. /\ p.recap \in Seq(Choice \X Nat) /\ p.names \in Seq([Slot -> Name])
      /\ p.slots \in [Slot -> Name] /\ n \in Nat
  BY DEF Play
<1>2. /\ DOMAIN q.recap = 1..n /\ DOMAIN p.recap = 1..(n - 1)
      /\ q.recap[n] = <<c, i>>
      /\ \A j \in 1..(n - 1) : q.recap[j] = p.recap[j]
  BY <1>1
<1>3. /\ SetBy(q, n, k) = sets[k]
      /\ \A j \in 1..(n - 1) : SetBy(q, j, k) = SetBy(p, j, k)
  <2>1. q.recap[n][1] = c /\ q.recap[n][2] = i
    BY <1>2
  <2>2. SetBy(q, n, k) = sets[k]
    BY <2>1 DEF SetBy
  <2>3. ASSUME NEW j \in 1..(n - 1)
        PROVE  SetBy(q, j, k) = SetBy(p, j, k)
    BY <1>2 DEF SetBy
  <2>4. QED
    BY <2>2, <2>3
<1>4. q.slots[k] = IF sets[k] = Keep THEN p.slots[k] ELSE sets[k]
  BY DEF Assigned
<1>5. CASE sets[k] = Keep
  <2>1. LastToSet(q, k) = LastToSet(p, k)
    <3>1. ASSUME NEW j \in LastToSet(p, k)
          PROVE  j \in LastToSet(q, k)
      <4>1. j \in 1..(n - 1) /\ j \in 1..n /\ SetBy(q, j, k) # Keep
        BY <1>1, <1>2, <1>3 DEF LastToSet
      <4>2. ASSUME NEW l \in 1..n, l > j
            PROVE  SetBy(q, l, k) = Keep
        <5>1. l = n \/ l \in 1..(n - 1)
          BY <1>1
        <5>2. QED
          BY <1>2, <1>3, <1>5, <4>2, <5>1 DEF LastToSet
      <4>3. QED
        BY <1>2, <4>1, <4>2 DEF LastToSet
    <3>2. \A j \in LastToSet(q, k) : j \in LastToSet(p, k)
      BY <1>1, <1>2, <1>3, <1>5 DEF LastToSet
    <3>3. QED
      BY <3>1, <3>2
  <2>2. CASE LastToSet(p, k) = {}
    <3>1. /\ p.slots[k] = IF name = Keep THEN library[p.story].default[k] ELSE name
          /\ \A j \in DOMAIN p.names : p.names[j][k] = p.slots[k]
      BY <2>2 DEF AccountedFor
    <3>2. ASSUME NEW j \in DOMAIN q.names
          PROVE  q.names[j][k] = q.slots[k]
      <4>1. \/ j \in DOMAIN p.names /\ q.names[j] = p.names[j]
            \/ j - Len(p.names) \in DOMAIN t /\ q.names[j] = t[j - Len(p.names)]
        BY <1>1
      <4>2. QED
        BY <1>4, <1>5, <3>1, <4>1
    <3>3. QED
      BY <1>4, <1>5, <2>1, <2>2, <3>1, <3>2 DEF AccountedFor
  <2>3. CASE LastToSet(p, k) # {}
    <3>1. \A j \in LastToSet(p, k) : p.slots[k] = SetBy(p, j, k) /\ j \in 1..(n - 1)
      BY <1>2, <2>3 DEF AccountedFor, LastToSet
    <3>2. QED
      BY <1>3, <1>4, <1>5, <2>1, <2>3, <3>1 DEF AccountedFor
  <2>4. QED
    BY <2>2, <2>3
<1>6. CASE sets[k] # Keep
  <2>1. n \in LastToSet(q, k)
    BY <1>1, <1>2, <1>3, <1>6 DEF LastToSet
  <2>2. ASSUME NEW j \in LastToSet(q, k)
        PROVE  j = n
    <3>1. j \in 1..n /\ n \in 1..n
      BY <1>1, <1>2 DEF LastToSet
    <3>2. ~(n > j)
      BY <1>2, <1>3, <1>6, <3>1 DEF LastToSet
    <3>3. QED
      BY <1>1, <3>1, <3>2
  <2>3. \A j \in LastToSet(q, k) : q.slots[k] = SetBy(q, j, k)
    BY <1>3, <1>4, <1>6, <2>2
  <2>4. QED
    BY <2>1, <2>3 DEF AccountedFor
<1>7. QED
  BY <1>5, <1>6

(* What pick makes of the playthrough. *)
LEMMA Picked ==
  ASSUME PlayerInv, NEW c \in Choice, NEW i \in DOMAIN story.options[c], pick(c, i)
  PROVE  LET o == story.options[c][i]
             told == run[play.story][o.to]
         IN  /\ play \in Play /\ o \in Option
             /\ ~renderWhyThrows => tab = "play"
             /\ play.body = c /\ play.trail # << >>
             /\ play.body = story.next[End(play.trail)]
             /\ play' \in Play /\ Stands(play')
             /\ play'.story = play.story
             /\ play'.slots = Assigned(play.slots, o.sets)
             /\ play'.recap = Append(play.recap, <<c, i>>)
             /\ play'.trail = play.trail \o told /\ play'.trail # << >>
             /\ play'.walked = play.walked \cup {told[j] : j \in DOMAIN told}
             /\ \E t \in Seq([Slot -> Name]) :
                  play'.names = play.names \o t /\ \A j \in DOMAIN t : t[j] = play'.slots
<1> DEFINE o == story.options[c][i]
           told == run[play.story][o.to]
           p == [play EXCEPT !.slots = Assigned(@, o.sets), !.recap = Append(@, <<c, i>>)]
<1>1. /\ play \in Play /\ play.body = c /\ screen.shows \in Body
      /\ ~renderWhyThrows => tab = "play"
  BY OpenedIsPlay, BodyIsOfPlay DEF pick, Body, PlayerInv
<1>2. play.story \in Story
  BY <1>1 DEF Play
<1>3. story.options \in [Choice -> Seq(Option)]
  BY <1>2, StoryType DEF story
<1>4. o \in Option /\ i \in Nat
  BY <1>3
<1>5. o.to \in Segment /\ o.sets \in [Slot -> Name \cup {Keep}]
  BY <1>4 DEF Option
<1>6. play.pending = << >> /\ play.trail # << >> /\ play.body = story.next[End(play.trail)]
  BY <1>1, OpenedIsPlay, DisjointAssumption DEF PlayerInv, ScreenIsCurrent, Stands, story
<1> HIDE DEF o
<1>7. Assigned(play.slots, o.sets) \in [Slot -> Name]
  BY <1>1, <1>5 DEF Assigned, Play
<1>8. Append(play.recap, <<c, i>>) \in Seq(Choice \X Nat)
  BY <1>1, <1>4 DEF Play
<1>9. /\ p \in Play
      /\ p.story = play.story /\ p.slots = Assigned(play.slots, o.sets)
      /\ p.recap = Append(play.recap, <<c, i>>) /\ p.pending = play.pending
      /\ p.trail = play.trail /\ p.names = play.names /\ p.walked = play.walked
  BY <1>1, <1>7, <1>8 DEF Play
<1>10. play' = renderSegment(p, o.to)
  BY DEF pick, o
<1> HIDE DEF p
<1>11. /\ play' = [story |-> p.story, slots |-> p.slots, recap |-> p.recap,
                   pending |-> p.pending, trail |-> p.trail \o told,
                   names |-> p.names \o fill(p, told),
                   walked |-> p.walked \cup {told[j] : j \in DOMAIN told},
                   body |-> library[p.story].next[End(told)]]
       /\ play' \in Play /\ play'.trail # << >> /\ play'.body \notin Slot
       /\ play'.body = library[play'.story].next[End(play'.trail)]
  <2>1. PICK g \in Segment : g = o.to
    BY <1>5
  <2>2. PICK q : q = renderSegment(p, g)
    OBVIOUS
  <2>3. /\ q = [story |-> p.story, slots |-> p.slots, recap |-> p.recap,
                pending |-> p.pending, trail |-> p.trail \o run[p.story][g],
                names |-> p.names \o fill(p, run[p.story][g]),
                walked |-> p.walked \cup {run[p.story][g][j] : j \in DOMAIN run[p.story][g]},
                body |-> library[p.story].next[End(run[p.story][g])]]
        /\ q \in Play /\ q.trail # << >> /\ q.body \notin Slot
        /\ q.body = library[q.story].next[End(q.trail)]
    BY <1>9, <2>2, SegmentRendered
  <2>4. play' = q /\ told = run[p.story][g]
    BY <1>9, <1>10, <2>1, <2>2
  <2>5. QED
    BY <2>3, <2>4
<1>12. told \in Seq(Segment)
  BY <1>2, <1>5, RunType
<1> HIDE DEF told
<1>13. /\ play'.story = play.story /\ play'.slots = Assigned(play.slots, o.sets)
       /\ play'.slots = p.slots
       /\ play'.recap = Append(play.recap, <<c, i>>) /\ play'.pending = play.pending
       /\ play'.trail = play.trail \o told /\ play'.names = play.names \o fill(p, told)
       /\ play'.walked = play.walked \cup {told[j] : j \in DOMAIN told}
  BY <1>9, <1>11
<1>14. Stands(play')
  BY <1>6, <1>11, <1>13 DEF Stands
<1>15. /\ fill(p, told) \in Seq([Slot -> Name])
       /\ \A j \in DOMAIN fill(p, told) : fill(p, told)[j] = play'.slots
  BY <1>9, <1>12, <1>13, FillType DEF fill
<1>16. \E t \in Seq([Slot -> Name]) :
          play'.names = play.names \o t /\ \A j \in DOMAIN t : t[j] = play'.slots
  BY <1>13, <1>15
<1>17. QED
  BY <1>1, <1>4, <1>6, <1>11, <1>13, <1>14, <1>16 DEF o, told

LEMMA PickKeepsInv ==
  ASSUME PlayerInv, NEW c \in Choice, NEW i \in DOMAIN story.options[c], pick(c, i)
  PROVE  PlayerInv'
<1> DEFINE o == story.options[c][i]
<1>1. /\ play \in Play /\ o \in Option
      /\ ~renderWhyThrows => tab = "play"
      /\ play' \in Play /\ Stands(play')
      /\ play'.story = play.story
      /\ play'.slots = Assigned(play.slots, o.sets)
      /\ play'.recap = Append(play.recap, <<c, i>>)
      /\ play'.trail # << >>
  BY Picked
<1>2. PICK t \in Seq([Slot -> Name]) :
        play'.names = play.names \o t /\ \A j \in DOMAIN t : t[j] = play'.slots
  BY Picked
<1>3. OneMoreChoice(play, play', c, i, t)
  BY <1>1, <1>2 DEF OneMoreChoice, story
<1>4. Draw(play'.body) /\ UNCHANGED <<tab, page, given>>
  BY DEF pick
<1>5. ASSUME NEW k \in Slot
      PROVE  AccountedFor(play', k, given'[k])
  <2>1. AccountedFor(play, k, given[k])
    BY <1>1, OpenedIsPlay DEF PlayerInv, SlotsAccountedFor
  <2>2. AccountedFor(play', k, given[k])
    BY <1>1, <1>3, <2>1, AccountedAfterChoice
  <2>3. QED
    BY <1>4, <2>2
<1>6. renderWhyThrows' = renderWhyThrows
  BY <1>1 DEF renderWhyThrows, story
<1>7. QED
  BY <1>1, <1>4, <1>5, <1>6, DrawnKeepsInv DEF PlayerInv, PlayerTypeOK

----------------------------------------------------------------------------
(* A set of natural numbers has a least element; a set of positions has a last one. *)
LEMMA LeastNumber ==
  ASSUME NEW T \in SUBSET Nat, T # {}
  PROVE  \E x \in T : \A y \in T : x <= y
<1> DEFINE Smaller == {ss \in Nat \X Nat : ss[1] < ss[2]}
<1>1. Smaller = OpToRel(<, Nat)
  BY DEF OpToRel
<1> HIDE DEF Smaller
<1>2. IsWellFoundedOn(Smaller, Nat)
  BY <1>1, NatLessThanWellFounded, Zenon
<1>3. PICK x \in T : \A y \in T : <<y, x>> \notin Smaller
  BY <1>2, WFMin
<1>4. ASSUME NEW y \in T
      PROVE  x <= y
  <2>1. x \in Nat /\ y \in Nat
    OBVIOUS
  <2>2. y < x => <<y, x>> \in Smaller
    BY <2>1 DEF Smaller
  <2>3. QED
    BY <1>3, <2>1, <2>2
<1>5. QED
  BY <1>4

LEMMA LastPosition ==
  ASSUME NEW n \in Nat, NEW I \in SUBSET (1..n), I # {}
  PROVE  \E i \in I : \A j \in I : j <= i
<1> DEFINE T == {n - i : i \in I}
<1>1. T \in SUBSET Nat /\ T # {}
  <2>1. \A i \in I : n - i \in Nat
    OBVIOUS
  <2>2. QED
    BY <2>1
<1>2. PICK x \in T : \A y \in T : x <= y
  BY <1>1, LeastNumber
<1>3. PICK i \in I : x = n - i
  OBVIOUS
<1>4. \A j \in I : n - j \in T
  OBVIOUS
<1>5. \A j \in I : j <= i
  BY <1>2, <1>3, <1>4
<1>6. QED
  BY <1>5

(* The option that is heard is one of those of which a word was said. *)
LEMMA BestIsHeard ==
  ASSUME PlayerTypeOK, Opened, NEW c \in Choice, NEW said, Heard(c, said) # {}
  PROVE  /\ Best(Heard(c, said)) \in Heard(c, said)
         /\ \A j \in Heard(c, said) : j <= Best(Heard(c, said))
         /\ Best(Heard(c, said)) \in DOMAIN story.options[c]
<1> DEFINE I == Heard(c, said)
<1>1. play.story \in Story
  BY OpenedIsPlay
<1>2. story.options[c] \in Seq(Option)
  BY <1>1, StoryType DEF story
<1>3. PICK n \in Nat : DOMAIN story.options[c] = 1..n
  BY <1>2
<1>4. I \in SUBSET (1..n)
  BY <1>3 DEF Heard
<1> HIDE DEF I
<1>5. \E i \in I : \A j \in I : j <= i
  BY <1>4, LastPosition DEF I
<1>6. Best(I) \in I /\ \A j \in I : j <= Best(I)
  BY <1>5 DEF Best
<1>7. QED
  BY <1>3, <1>4, <1>6 DEF I

(* What is said answers as a click would, or not at all. *)
LEMMA HearPicks ==
  ASSUME PlayerInv, NEW c \in Choice, NEW said, hear(c, said)
  PROVE  \/ UNCHANGED playerVars
         \/ /\ Heard(c, said) # {} /\ pick(c, Best(Heard(c, said)))
            /\ Best(Heard(c, said)) \in DOMAIN story.options[c]
BY BestIsHeard DEF hear, PlayerInv

LEMMA SetTabKeepsInv ==
  ASSUME PlayerInv, NEW t \in Tab, setTab(t)
  PROVE  PlayerInv'
<1>1. /\ Opened /\ tab' = t /\ play' = play /\ page' = page /\ given' = given
      /\ play \in Play
  BY OpenedIsPlay DEF setTab, PlayerInv
<1>2. \/ t = "play" /\ screen' = [tab |-> t, shows |-> play.body]
      \/ t # "play" /\ screen' = [tab |-> t, shows |-> t]
      \/ renderWhyThrows /\ screen' = screen
  BY <1>1 DEF setTab, Draw
<1>3. play.body \in Body
  BY <1>1 DEF Play
<1>4. PlayerTypeOK'
  BY <1>1, <1>2, <1>3 DEF PlayerInv, PlayerTypeOK, Screen, Tab
<1>5. ScreenIsCurrent'
  BY <1>1, <1>2, BodyAssumption DEF PlayerInv, ScreenIsCurrent, Opened, Tab
<1>6. renderWhyThrows' = renderWhyThrows
  BY <1>1 DEF renderWhyThrows, story
<1>7. TabIsShown'
  BY <1>1, <1>2, <1>6 DEF TabIsShown
<1>8. Beginning' /\ SlotsAccountedFor'
  BY <1>1 DEF PlayerInv, Beginning, SlotsAccountedFor, Opened
<1>9. QED
  BY <1>4, <1>5, <1>7, <1>8 DEF PlayerInv

LEMMA PlayerKeepsInv == PlayerInv /\ [PlayerNext]_playerVars => PlayerInv'
<1> SUFFICES ASSUME PlayerInv, [PlayerNext]_playerVars PROVE PlayerInv'
  OBVIOUS
<1>1. ASSUME NEW s \in Story, PlayStory(s)
      PROVE  PlayerInv'
  BY <1>1, PlayStoryKeepsInv
<1>2. ASSUME NEW t \in Tab, setTab(t)
      PROVE  PlayerInv'
  BY <1>2, SetTabKeepsInv
<1>3. ASSUME NEW k \in Slot, NEW v \in Name \cup {Keep}, setName(k, v)
      PROVE  PlayerInv'
  BY <1>3, SetNameKeepsInv
<1>4. ASSUME NEW c \in Choice, NEW i \in DOMAIN story.options[c], pick(c, i)
      PROVE  PlayerInv'
  BY <1>4, PickKeepsInv
<1>5. CASE UNCHANGED playerVars
  <2>1. renderWhyThrows' = renderWhyThrows
    BY <1>5 DEF playerVars, renderWhyThrows, story
  <2>2. QED
    BY <1>5, <2>1
    DEF playerVars, PlayerInv, PlayerTypeOK, ScreenIsCurrent, TabIsShown, Beginning,
        SlotsAccountedFor, Opened
<1>6. ASSUME NEW c \in Choice, NEW said \in SUBSET Word, hear(c, said)
      PROVE  PlayerInv'
  BY <1>4, <1>5, <1>6, HearPicks
<1>7. CASE Close
  BY <1>7, ClosedKeepsInv DEF Close, PlayerInv, PlayerTypeOK
<1>8. ASSUME NEW t \in Topic, ShowTopic(t)
      PROVE  PlayerInv'
  BY <1>8, ClosedKeepsInv DEF ShowTopic
<1>9. QED
  BY <1>1, <1>2, <1>3, <1>4, <1>5, <1>6, <1>7, <1>8 DEF PlayerNext, PanelStep

LEMMA PlayerInvHolds == PlayerSpec => []PlayerInv
BY PlayerInitially, PlayerKeepsInv, PTL DEF PlayerSpec

----------------------------------------------------------------------------
(* Names are asked for, and given, of naming slots alone. *)
AskedInv ==
    Opened => /\ \A j \in DOMAIN play.pending : play.pending[j] \in Asked(play.story)
              /\ \A k \in Slot : given[k] # Keep => k \in Asked(play.story)

LEMMA NameOrStartAsks ==
  ASSUME NEW p \in Play
  PROVE  NameOrStart(p).story = p.story /\ NameOrStart(p).pending = p.pending
<1>1. DOMAIN p = {"story", "slots", "recap", "pending", "trail", "names", "walked", "body"}
  BY DEF Play
<1>2. CASE p.pending # << >>
  BY <1>1, <1>2 DEF NameOrStart, renderNaming
<1>3. CASE p.pending = << >>
  BY <1>1, <1>3 DEF NameOrStart, startSegments, renderSegment
<1>4. QED
  BY <1>2, <1>3

LEMMA SetNameAsks ==
  ASSUME PlayerInv, AskedInv, NEW k \in Slot, NEW v \in Name \cup {Keep}, setName(k, v)
  PROVE  AskedInv'
<1>1. /\ Opened /\ play \in Play /\ play.body = k /\ play.pending # << >>
      /\ k = Head(play.pending)
  BY OpenedIsPlay, BodyIsOfPlay DEF setName, PlayerInv, ScreenIsCurrent, Stands, Body
<1>2. play.pending \in Seq(Slot) /\ play.slots \in [Slot -> Name]
  BY <1>1 DEF Play
<1>3. PICK p : p = [play EXCEPT !.slots[k] = IF v = Keep THEN @ ELSE v, !.pending = Tail(@)]
  OBVIOUS
<1>4. p \in Play /\ p.story = play.story /\ p.pending = Tail(play.pending)
  <2> DEFINE slots == Filled(play.slots, k, v)
  <2>1. slots \in [Slot -> Name] /\ Tail(play.pending) \in Seq(Slot)
    BY <1>1, <1>2 DEF Filled
  <2>2. p = [play EXCEPT !.slots = slots, !.pending = Tail(play.pending)]
    BY <1>1, <1>3 DEF Play, Filled
  <2> HIDE DEF slots
  <2>3. QED
    BY <1>1, <2>1, <2>2 DEF Play
<1>5. play' = NameOrStart(p)
  BY <1>3 DEF setName
<1>6. play'.story = play.story /\ play'.pending = Tail(play.pending)
  BY <1>4, <1>5, NameOrStartAsks
<1>7. \A j \in DOMAIN play.pending : play.pending[j] \in Asked(play.story)
  BY <1>1 DEF AskedInv
<1>8. k \in Asked(play.story)
  BY <1>1, <1>2, <1>7
<1>9. ASSUME NEW j \in DOMAIN Tail(play.pending)
      PROVE  Tail(play.pending)[j] \in Asked(play.story)
  <2>1. j + 1 \in DOMAIN play.pending /\ Tail(play.pending)[j] = play.pending[j + 1]
    BY <1>1, <1>2
  <2>2. QED
    BY <1>7, <2>1
<1>10. ASSUME NEW l \in Slot, given'[l] # Keep
       PROVE  l \in Asked(play.story)
  <2>1. given' = [given EXCEPT ![k] = IF v = Keep THEN @ ELSE v]
        /\ given \in [Slot -> Name \cup {Keep}]
    BY DEF setName, PlayerInv, PlayerTypeOK
  <2>2. l = k \/ given[l] # Keep
    BY <1>10, <2>1
  <2>3. QED
    BY <1>1, <1>8, <2>2 DEF AskedInv
<1>11. QED
  BY <1>6, <1>9, <1>10 DEF AskedInv

LEMMA PickAsks ==
  ASSUME PlayerInv, AskedInv, NEW c \in Choice, NEW i \in DOMAIN story.options[c], pick(c, i)
  PROVE  AskedInv'
<1>1. /\ play.trail # << >> /\ Opened' /\ Stands(play') /\ play'.trail # << >>
      /\ play'.story = play.story
  BY Picked, PlayIsOpen DEF Opened
<1>2. play'.pending = << >>
  BY <1>1 DEF Stands
<1>3. given' = given /\ Opened
  BY DEF pick
<1>4. QED
  BY <1>1, <1>2, <1>3 DEF AskedInv

LEMMA AskedKept == PlayerInv /\ AskedInv /\ [PlayerNext]_playerVars => AskedInv'
<1> SUFFICES ASSUME PlayerInv, AskedInv, [PlayerNext]_playerVars PROVE AskedInv'
  OBVIOUS
<1>1. ASSUME UNCHANGED <<play, given>>
      PROVE  AskedInv'
  BY <1>1 DEF AskedInv, Opened
<1>2. ASSUME NEW s \in Story, PlayStory(s)
      PROVE  AskedInv'
  <2>1. PICK p \in Play : p = Fresh(s)
    BY FreshType
  <2>2. p.story = s /\ p.pending = library[s].asks
    BY <2>1 DEF Fresh
  <2>3. play' = NameOrStart(p) /\ given' = [k \in Slot |-> Keep]
    BY <1>2, <2>1 DEF PlayStory
  <2>4. play'.story = s /\ play'.pending = library[s].asks
    BY <2>2, <2>3, NameOrStartAsks
  <2>5. QED
    BY <2>3, <2>4 DEF AskedInv, Asked
<1>3. ASSUME NEW k \in Slot, NEW v \in Name \cup {Keep}, setName(k, v)
      PROVE  AskedInv'
  BY <1>3, SetNameAsks
<1>4. ASSUME NEW c \in Choice, NEW i \in DOMAIN story.options[c], pick(c, i)
      PROVE  AskedInv'
  BY <1>4, PickAsks
<1>5. ASSUME NEW c \in Choice, NEW said \in SUBSET Word, hear(c, said)
      PROVE  AskedInv'
  BY <1>1, <1>4, <1>5, HearPicks DEF playerVars
<1>6. ASSUME closePlayer
      PROVE  AskedInv'
  BY <1>6 DEF closePlayer, AskedInv, Opened
<1>7. CASE UNCHANGED playerVars
  BY <1>1, <1>7 DEF playerVars
<1>8. CASE \E t \in Tab : setTab(t)
  BY <1>1, <1>8 DEF setTab
<1>9. CASE Close \/ \E t \in Topic : ShowTopic(t)
  BY <1>6, <1>9 DEF Close, ShowTopic
<1>10. QED
  BY <1>2, <1>3, <1>4, <1>5, <1>7, <1>8, <1>9 DEF PlayerNext, PanelStep

LEMMA AskedInvHolds == PlayerSpec => []AskedInv
<1>1. PlayerInit => AskedInv
  BY DEF PlayerInit, AskedInv, Opened
<1>2. QED
  BY <1>1, AskedKept, PlayerInvHolds, PTL DEF PlayerSpec

LEMMA LifetimesFollow == PlayerInv /\ AskedInv => SlotLifetimes
<1> SUFFICES ASSUME PlayerInv, AskedInv, Opened, NEW k \in Slot
             PROVE  IF k \in Asked(play.story) THEN LivesOn(play, k, given[k])
                    ELSE LivesHere(play, k)
  BY DEF SlotLifetimes
<1>1. AccountedFor(play, k, given[k])
  BY DEF PlayerInv, SlotsAccountedFor
<1>2. CASE k \in Asked(play.story)
  BY <1>1, <1>2 DEF AccountedFor, LivesOn
<1>3. CASE k \notin Asked(play.story)
  <2>1. given[k] = Keep
    BY <1>3 DEF AskedInv
  <2>2. QED
    BY <1>1, <1>3, <2>1 DEF AccountedFor, LivesHere
<1>4. QED
  BY <1>2, <1>3

----------------------------------------------------------------------------
(* The path. What is told next is one row further down. *)
LEMMA RunGoesDown ==
  ASSUME NEW s \in Story, NEW g \in Segment
  PROVE  /\ run[s][g][1] = g
         /\ \A j \in DOMAIN run[s][g] : row[run[s][g][j]] = row[g] + j - 1
<1> DEFINE p == run[s][g]
           T == {j \in DOMAIN p : row[p[j]] # row[g] + j - 1}
<1>1. /\ p \in Seq(Segment) /\ p[1] = g
      /\ \A j \in 1..(Len(p) - 1) : library[s].next[p[j]] = p[j + 1]
  <2>1. p \in Seq(Segment)
    BY RunType
  <2>2. p[1] = g /\ IsRun(s, p)
    BY BraidAssumption DEF run
  <2>3. QED
    BY <2>1, <2>2 DEF IsRun
<1>2. row \in [Segment -> Nat]
  BY RowAssumption
<1> HIDE DEF p
<1>3. SUFFICES ASSUME T # {} PROVE FALSE
  BY <1>1 DEF p
<1>4. PICK x \in T : \A y \in T : x <= y
  <2>1. T \in SUBSET Nat
    BY <1>1
  <2>2. QED
    BY <1>3, <2>1, LeastNumber
<1>5. x \in 1..Len(p) /\ x # 1
  BY <1>1, <1>2, <1>4
<1>6. x - 1 \in 1..(Len(p) - 1) /\ (x - 1) + 1 = x
  BY <1>1, <1>5
<1>7. row[p[x - 1]] = row[g] + (x - 1) - 1
  BY <1>1, <1>4, <1>6
<1>8. row[p[x]] = row[p[x - 1]] + 1
  <2>1. Follows(s, p[x - 1], p[x])
    BY <1>1, <1>6 DEF Follows
  <2>2. p[x - 1] \in Segment /\ p[x] \in Segment
    BY <1>1, <1>5, <1>6
  <2>3. QED
    BY <2>1, <2>2, RowsAssumption
<1>9. QED
  BY <1>2, <1>4, <1>5, <1>7, <1>8

(* What has been walked is what has been told, from the first segment on, each one row *)
(* further down.                                                                       *)
GoesDown(p) ==
    LET start == library[p.story].start
    IN  /\ p.walked = {start} \cup {p.trail[j] : j \in DOMAIN p.trail}
        /\ p.trail # << >> => p.trail[1] = start
        /\ \A j \in DOMAIN p.trail : row[p.trail[j]] = row[start] + j - 1

PathInv == Opened => GoesDown(play)

LEMMA BegunGoesDown ==
  ASSUME NEW p \in Play, p.trail = << >>, p.names = << >>,
         p.walked = {library[p.story].start}
  PROVE  GoesDown(NameOrStart(p))
<1> DEFINE start == library[p.story].start
<1>1. PICK q \in Play : q = NameOrStart(p)
  BY NamedOrStarted
<1>2. /\ q.story = p.story /\ q.trail \in {<< >>, run[p.story][start]}
      /\ q.walked = {start} \cup {q.trail[j] : j \in DOMAIN q.trail}
  BY <1>1, NamedOrStarted
<1>3. p.story \in Story /\ start \in Segment
  BY StoryType DEF Play
<1>4. \A j \in DOMAIN q.trail : row[q.trail[j]] = row[start] + j - 1
  BY <1>2, <1>3, RunGoesDown
<1>5. q.trail # << >> => q.trail[1] = start
  BY <1>2, <1>3, RunGoesDown
<1>6. QED
  BY <1>1, <1>2, <1>4, <1>5 DEF GoesDown

LEMMA PickGoesDown ==
  ASSUME PlayerInv, PathInv, NEW c \in Choice, NEW i \in DOMAIN story.options[c], pick(c, i)
  PROVE  PathInv'
<1> DEFINE to == story.options[c][i].to
           told == run[play.story][to]
           start == story.start
           n == Len(play.trail)
<1>1. /\ play \in Play /\ story.options[c][i] \in Option
      /\ play.body = c /\ play.trail # << >> /\ play.body = story.next[End(play.trail)]
      /\ play' \in Play /\ play'.story = play.story
      /\ play'.trail = play.trail \o told
      /\ play'.walked = play.walked \cup {told[j] : j \in DOMAIN told}
  BY Picked
<1>2. /\ play.story \in Story /\ to \in Segment /\ play.trail \in Seq(Segment)
      /\ start \in Segment
  BY <1>1, StoryType DEF Play, Option, story
<1>3. told \in Seq(Segment) /\ \A j \in DOMAIN told : row[told[j]] = row[to] + j - 1
  BY <1>2, RunType, RunGoesDown
<1>4. n \in Nat /\ n \in DOMAIN play.trail /\ 1 \in DOMAIN play.trail
  <2>1. n \in Nat /\ DOMAIN play.trail = 1..n
    BY <1>2
  <2>2. n # 0
    BY <1>1, <1>2, EmptySeq
  <2>3. QED
    BY <2>1, <2>2
<1>5. /\ play.walked = {start} \cup {play.trail[j] : j \in DOMAIN play.trail}
      /\ play.trail[1] = start
      /\ \A j \in DOMAIN play.trail : row[play.trail[j]] = row[start] + j - 1
  BY <1>1, PlayIsOpen DEF PathInv, Opened, GoesDown, story
<1>6. row[to] = row[start] + n
  <2>1. Follows(play.story, End(play.trail), to)
    BY <1>1 DEF Follows, story
  <2>2. End(play.trail) \in Segment /\ row[End(play.trail)] = row[start] + n - 1
    BY <1>2, <1>4, <1>5 DEF End
  <2>3. row[to] = row[End(play.trail)] + 1
    BY <1>2, <2>1, <2>2, RowsAssumption
  <2>4. row[start] \in Nat
    BY <1>2, RowAssumption
  <2>5. QED
    BY <1>4, <2>2, <2>3, <2>4
<1> HIDE DEF told, to
<1> DEFINE trail == play.trail \o told
<1>7. /\ trail \in Seq(Segment) /\ Len(trail) = n + Len(told)
      /\ \A j \in DOMAIN play.trail : j \in DOMAIN trail /\ trail[j] = play.trail[j]
      /\ \A j \in DOMAIN told : n + j \in DOMAIN trail /\ trail[n + j] = told[j]
      /\ \A j \in DOMAIN trail :
            \/ j \in DOMAIN play.trail
            \/ j - n \in DOMAIN told /\ n + (j - n) = j
  BY <1>2, <1>3, <1>4
<1> HIDE DEF trail
<1>8. ASSUME NEW j \in DOMAIN trail
      PROVE  row[trail[j]] = row[start] + j - 1
  <2>1. CASE j \in DOMAIN play.trail
    BY <1>5, <1>7, <2>1
  <2>2. CASE j - n \in DOMAIN told /\ n + (j - n) = j
    <3>1. row[trail[j]] = row[to] + (j - n) - 1
      BY <1>3, <1>7, <2>2
    <3>2. row[start] \in Nat /\ j \in Nat
      BY <1>2, <1>7, RowAssumption
    <3>3. QED
      BY <1>4, <1>6, <3>1, <3>2
  <2>3. QED
    BY <1>7, <2>1, <2>2
<1>9. {play.trail[j] : j \in DOMAIN play.trail} \cup {told[j] : j \in DOMAIN told}
        = {trail[j] : j \in DOMAIN trail}
  BY <1>7
<1>10. play'.walked = {start} \cup {trail[j] : j \in DOMAIN trail}
  BY <1>1, <1>5, <1>9
<1>11. GoesDown(play')
  <2>1. trail[1] = start
    BY <1>4, <1>5, <1>7
  <2>2. QED
    BY <1>1, <1>8, <1>10, <2>1 DEF GoesDown, trail, story
<1>12. QED
  BY <1>11 DEF PathInv

LEMMA PathKept == PlayerInv /\ PathInv /\ [PlayerNext]_playerVars => PathInv'
<1> SUFFICES ASSUME PlayerInv, PathInv, [PlayerNext]_playerVars PROVE PathInv'
  OBVIOUS
<1>1. ASSUME UNCHANGED play
      PROVE  PathInv'
  BY <1>1 DEF PathInv, Opened
<1>2. ASSUME NEW s \in Story, PlayStory(s)
      PROVE  PathInv'
  <2>1. PICK p \in Play : p = Fresh(s)
    BY FreshType
  <2>2. /\ p.story = s /\ p.trail = << >> /\ p.names = << >>
        /\ p.walked = {library[s].start}
    BY <2>1, FreshType
  <2>3. play' = NameOrStart(p)
    BY <1>2, <2>1 DEF PlayStory
  <2>4. QED
    BY <2>2, <2>3, BegunGoesDown DEF PathInv
<1>3. ASSUME NEW k \in Slot, NEW v \in Name \cup {Keep}, setName(k, v)
      PROVE  PathInv'
  <2>1. Opened /\ play \in Play /\ play.trail = << >>
    BY <1>3, Named
  <2>2. PICK p \in Play :
          /\ p.story = play.story /\ p.trail = << >> /\ p.names = << >>
          /\ p.walked = play.walked /\ play' = NameOrStart(p)
    BY <1>3, Named
  <2>3. p.walked = {library[p.story].start}
    BY <2>1, <2>2 DEF PathInv, GoesDown
  <2>4. QED
    BY <2>2, <2>3, BegunGoesDown DEF PathInv
<1>4. ASSUME NEW c \in Choice, NEW i \in DOMAIN story.options[c], pick(c, i)
      PROVE  PathInv'
  BY <1>4, PickGoesDown
<1>5. ASSUME NEW c \in Choice, NEW said \in SUBSET Word, hear(c, said)
      PROVE  PathInv'
  BY <1>1, <1>4, <1>5, HearPicks DEF playerVars
<1>6. ASSUME closePlayer
      PROVE  PathInv'
  BY <1>6 DEF closePlayer, PathInv, Opened
<1>7. CASE UNCHANGED playerVars
  BY <1>1, <1>7 DEF playerVars
<1>8. CASE \E t \in Tab : setTab(t)
  BY <1>1, <1>8 DEF setTab
<1>9. CASE Close \/ \E t \in Topic : ShowTopic(t)
  BY <1>6, <1>9 DEF Close, ShowTopic
<1>10. QED
  BY <1>2, <1>3, <1>4, <1>5, <1>7, <1>8, <1>9 DEF PlayerNext, PanelStep

LEMMA PathInvHolds == PlayerSpec => []PathInv
<1>1. PlayerInit => PathInv
  BY DEF PlayerInit, PathInv, Opened
<1>2. QED
  BY <1>1, PathKept, PlayerInvHolds, PTL DEF PlayerSpec

(* A link goes down one row, and the path is at each row once. *)
LEMMA PathIsHonest == PlayerInv /\ PathInv => BraidIsHonest
<1> SUFFICES ASSUME PlayerInv, PathInv, Opened, NEW l \in renderBraid
             PROVE  \E j \in 1..(Len(play.trail) - 1) :
                       l = <<play.trail[j], play.trail[j + 1]>>
  BY DEF BraidIsHonest
<1> DEFINE start == story.start
<1>1. /\ l \in links /\ l[1] \in play.walked /\ l[2] \in play.walked
      /\ l \in Segment \X Segment /\ row[l[2]] = row[l[1]] + 1
  BY LinksAssumption, RowsAssumption DEF renderBraid
<1>2. /\ play \in Play /\ play.story \in Story /\ play.trail \in Seq(Segment)
      /\ start \in Segment
  BY OpenedIsPlay, StoryType DEF PlayerInv, Play, story
<1>3. /\ play.walked = {start} \cup {play.trail[j] : j \in DOMAIN play.trail}
      /\ play.trail # << >> => play.trail[1] = start
      /\ \A j \in DOMAIN play.trail : row[play.trail[j]] = row[start] + j - 1
  BY DEF PathInv, GoesDown, story
<1>4. row[l[1]] \in Nat /\ row[l[2]] \in Nat /\ row[start] \in Nat
  BY <1>1, <1>2, RowAssumption
<1>5. PICK j \in DOMAIN play.trail : l[2] = play.trail[j]
  <2>1. CASE l[2] = start
    <3>1. PICK i \in DOMAIN play.trail : l[1] = play.trail[i]
      BY <1>1, <1>3, <1>4, <2>1
    <3>2. i \in Nat /\ i >= 1 /\ row[l[1]] = row[start] + i - 1
      BY <1>2, <1>3, <3>1
    <3>3. QED
      BY <1>1, <1>4, <2>1, <3>2
  <2>2. QED
    BY <1>1, <1>3, <2>1
<1>6. row[l[2]] = row[start] + j - 1 /\ j \in 1..Len(play.trail)
  BY <1>2, <1>3, <1>5
<1>7. PICK i \in DOMAIN play.trail : l[1] = play.trail[i]
  <2>1. CASE l[1] = start
    <3>1. 1 \in DOMAIN play.trail /\ play.trail # << >>
      BY <1>2, <1>6
    <3>2. QED
      BY <1>3, <2>1, <3>1
  <2>2. QED
    BY <1>1, <1>3, <2>1
<1>8. row[l[1]] = row[start] + i - 1 /\ i \in 1..Len(play.trail)
  BY <1>2, <1>3, <1>7
<1>9. j = i + 1
  BY <1>1, <1>4, <1>6, <1>8
<1>10. i \in 1..(Len(play.trail) - 1)
  BY <1>2, <1>6, <1>8, <1>9
<1>11. l = <<play.trail[i], play.trail[i + 1]>>
  BY <1>1, <1>5, <1>7, <1>9
<1>12. QED
  BY <1>10, <1>11

----------------------------------------------------------------------------
(* Saying an option's own say-word. *)
LEMMA SayStep ==
  ASSUME PlayerInv, Opened, NEW c \in Choice, NEW i \in DOMAIN story.options[c],
         hear(c, story.options[c][i].says),
         \A j \in DOMAIN story.options[c] :
            j > i => story.options[c][j].words \cap story.options[c][i].says = {}
  PROVE  play'.recap = Append(play.recap, <<c, i>>)
<1> DEFINE said == story.options[c][i].says
<1>1. story.options[c] \in Seq(Option)
  <2>1. play.story \in Story
    BY OpenedIsPlay DEF PlayerInv
  <2>2. QED
    BY <2>1, StoryType DEF story
<1>2. story.options[c][i] \in Option
  BY <1>1
<1>3. i \in Heard(c, said)
  BY <1>2 DEF Heard, Option
<1>4. /\ Best(Heard(c, said)) \in Heard(c, said)
      /\ i <= Best(Heard(c, said))
      /\ Best(Heard(c, said)) \in DOMAIN story.options[c]
  BY <1>3, BestIsHeard DEF PlayerInv
<1>5. story.options[c][Best(Heard(c, said))].words \cap said # {}
  BY <1>4 DEF Heard
<1>6. ~(Best(Heard(c, said)) > i)
  BY <1>4, <1>5
<1>7. Best(Heard(c, said)) = i
  BY <1>1, <1>4, <1>6
<1>8. pick(c, i)
  BY <1>3, <1>7 DEF hear
<1>9. QED
  BY <1>8, Picked

(* Each step of the player is a step of the walk. *)
LEMMA WalkInitially == PlayerInit => Walks!Init
BY DEF PlayerInit, Opened, Walks!Init

LEMMA WalkStep ==
  ASSUME PlayerInv, [PlayerNext]_playerVars
  PROVE  \/ Walks!Next
         \/ UNCHANGED <<IF Opened THEN play.story ELSE NoStory,
                        IF Opened THEN play.trail ELSE << >> >>
<1> DEFINE stays == UNCHANGED <<IF Opened THEN play.story ELSE NoStory,
                                IF Opened THEN play.trail ELSE << >> >>
<1>1. ASSUME UNCHANGED play
      PROVE  stays
  BY <1>1 DEF Opened
<1>2. ASSUME NEW s \in Story, PlayStory(s)
      PROVE  Walks!Next
  <2> DEFINE p == Fresh(s)
  <2>1. p \in Play /\ p.story = s /\ p.trail = << >> /\ p.names = << >>
    BY FreshType
  <2> HIDE DEF p
  <2>2. play' = NameOrStart(p)
    BY <1>2 DEF PlayStory, p
  <2>3. /\ play' \in Play /\ play'.story = s
        /\ play'.trail \in {<< >>, run[s][library[s].start]}
    BY <2>1, <2>2, NamedOrStarted
  <2>4. Opened'
    BY <2>3, NoStoryAssumption DEF Opened, NoPlay, Play
  <2>5. Walks!Open(s)
    BY <2>3, <2>4 DEF Walks!Open
  <2>6. QED
    BY <2>5 DEF Walks!Next
<1>3. ASSUME NEW k \in Slot, NEW v \in Name \cup {Keep}, setName(k, v)
      PROVE  Walks!Next \/ stays
  <2>1. Opened /\ play \in Play /\ play.trail = << >>
    BY <1>3, Named
  <2>2. PICK p \in Play :
          /\ p.story = play.story /\ p.trail = << >> /\ p.names = << >>
          /\ play' = NameOrStart(p)
    BY <1>3, Named
  <2>5. /\ play' \in Play /\ play'.story = play.story
        /\ play'.trail \in {<< >>, run[play.story][library[play.story].start]}
    BY <2>2, NamedOrStarted
  <2>6. Opened' /\ play.story \in Story
    BY <2>1, <2>5, NoStoryAssumption DEF Opened, NoPlay, Play
  <2>7. CASE play'.trail = << >>
    BY <2>1, <2>5, <2>6, <2>7
  <2>8. CASE play'.trail = run[play.story][library[play.story].start]
    <3>1. Walks!Begin
      BY <2>1, <2>5, <2>6, <2>8 DEF Walks!Begin
    <3>2. QED
      BY <3>1 DEF Walks!Next
  <2>9. QED
    BY <2>5, <2>7, <2>8
<1>4. ASSUME NEW c \in Choice, NEW i \in DOMAIN story.options[c], pick(c, i)
      PROVE  Walks!Next
  <2>1. /\ play \in Play /\ play.body = c /\ play.trail # << >>
        /\ play.body = story.next[End(play.trail)]
        /\ play' \in Play /\ play'.story = play.story
        /\ play'.trail = play.trail \o run[play.story][story.options[c][i].to]
    BY <1>4, Picked
  <2>2. Opened /\ Opened' /\ play.story \in Story
    BY <2>1, PlayIsOpen DEF Opened
  <2>3. Walks!Choose(c, i)
    BY <2>1, <2>2 DEF Walks!Choose, End, story
  <2>4. QED
    BY <2>2, <2>3 DEF Walks!Next, story
<1>5. ASSUME NEW c \in Choice, NEW said \in SUBSET Word, hear(c, said)
      PROVE  Walks!Next \/ stays
  BY <1>1, <1>4, <1>5, HearPicks DEF playerVars
<1>6. ASSUME closePlayer
      PROVE  Walks!Next
  <2>1. ~Opened'
    BY <1>6 DEF closePlayer, Opened
  <2>2. QED
    BY <2>1 DEF Walks!Next, Walks!Leave
<1>7. CASE UNCHANGED playerVars
  BY <1>1, <1>7 DEF playerVars
<1>8. CASE \E t \in Tab : setTab(t)
  BY <1>1, <1>8 DEF setTab
<1>9. CASE Close \/ \E t \in Topic : ShowTopic(t)
  BY <1>6, <1>9 DEF Close, ShowTopic
<1>10. QED
  BY <1>2, <1>3, <1>4, <1>5, <1>7, <1>8, <1>9 DEF PlayerNext, PanelStep

----------------------------------------------------------------------------
(* The page: each of its steps is one of the map, one of the panel, or one of both. *)
LEMMA PageStep ==
  ASSUME [Next]_vars
  PROVE  [MapNext]_mapVars /\ [PlayerNext]_playerVars
BY DEF Next, vars, MapNext, PlayerNext, ChooseDisc, ChoosePill, ClickTopic

(* What happens to the map alone selects nothing. *)
LEMMA MapStepSelectsNothing == MapStep => UNCHANGED selected
BY DEF MapStep, frame, ResetMoved, MouseStep, MouseDown, MouseUp, Release, PointAt,
       MouseMove, Wheel, ResetView, ReleaseElsewhere, TouchStep, TouchStart, TouchPinch,
       TouchDrag, TouchEnd, TouchCancel, TapBeside, EmulateMouse

LEMMA PanelStepKeepsPage == PlayerInv /\ PanelStep => UNCHANGED page
<1> SUFFICES ASSUME PlayerInv, PanelStep PROVE UNCHANGED page
  OBVIOUS
<1>1. ASSUME NEW c \in Choice, NEW said \in SUBSET Word, hear(c, said)
      PROVE  UNCHANGED page
  BY <1>1, HearPicks DEF pick, playerVars
<1>2. QED
  BY <1>1 DEF PanelStep, PlayStory, setTab, setName, pick, Close

(* The map and the player on one page behave as each does by itself. *)
THEOREM PageIsMapAndPlayer == Spec => MapSpec /\ PlayerSpec
<1>1. Init => MapInit /\ PlayerInit
  BY DEF Init
<1>2. [Next]_vars => [MapNext]_mapVars /\ [PlayerNext]_playerVars
  BY PageStep
<1>3. QED
  BY <1>1, <1>2, PTL DEF Spec, MapSpec, PlayerSpec

(* Every variable of the page keeps its type. *)
THEOREM TypeCorrect == Spec => []TypeOK
<1>1. PlayerInv => PlayerTypeOK
  BY DEF PlayerInv
<1>2. MapTypeOK /\ PlayerTypeOK => TypeOK
  BY DEF TypeOK
<1>3. QED
  BY <1>1, <1>2, PageIsMapAndPlayer, MapTypeCorrect, PlayerInvHolds, PTL

(* A disc and a pill lead to the same: map and panel never disagree about the topic. *)
THEOREM MapAndPanelAgree == Spec => []OneTopic
<1>1. Init => OneTopic
  BY DEF Init, MapInit, PlayerInit, OneTopic
<1>2. ASSUME OneTopic, PlayerInv, [Next]_vars
      PROVE  OneTopic'
  <2>1. CASE MapStep /\ UNCHANGED playerVars
    BY <1>2, <2>1, MapStepSelectsNothing DEF OneTopic, playerVars
  <2>2. CASE PanelStep /\ UNCHANGED mapVars
    BY <1>2, <2>2, PanelStepKeepsPage DEF OneTopic, mapVars
  <2>3. ASSUME NEW t \in Topic, ChooseDisc(t) \/ ChoosePill(t)
        PROVE  OneTopic'
    BY <2>3
    DEF ChooseDisc, ChoosePill, ClickTopic, ShowTopic, Choose, Click, Tap, ChosenElsewhere,
        Select, OneTopic
  <2>4. CASE UNCHANGED vars
    BY <1>2, <2>4 DEF vars, mapVars, playerVars, OneTopic
  <2>5. QED
    BY <1>2, <2>1, <2>2, <2>3, <2>4 DEF Next
<1>3. QED
  BY <1>1, <1>2, PageIsMapAndPlayer, PlayerInvHolds, PTL DEF Spec

(* Whatever tabs are looked into, and whatever cannot be drawn, a click on the body acts *)
(* on what the story asks now.                                                           *)
THEOREM ClicksActOnNow == Spec => []ScreenIsCurrent
<1>1. PlayerInv => ScreenIsCurrent
  BY DEF PlayerInv
<1>2. QED
  BY <1>1, PageIsMapAndPlayer, PlayerInvHolds, PTL

(* For stories with a whole decision record the tab asked for is the one shown. *)
THEOREM TabsAreShown == Spec => []TabIsShown
<1>1. PlayerInv => TabIsShown
  BY DEF PlayerInv
<1>2. QED
  BY <1>1, PageIsMapAndPlayer, PlayerInvHolds, PTL

(* What the choices decide ends with the playthrough, and a name stays from page to page *)
(* until a choice sets it, for any story and any number of choices.                      *)
THEOREM SlotsLiveAsLongAsTheyShould == Spec => []SlotLifetimes
BY LifetimesFollow, AskedInvHolds, PageIsMapAndPlayer, PlayerInvHolds, PTL

(* A say-word that no later option shares answers with its own option. *)
THEOREM SayWordsAnswer == Spec => SayWordAnswers
<1>1. PlayerInv =>
        [Opened => \A c \in Choice : \A i \in DOMAIN story.options[c] :
           LET o == story.options[c]
           IN  /\ hear(c, o[i].says)
               /\ \A j \in DOMAIN o : j > i => o[j].words \cap o[i].says = {}
               => play'.recap = Append(play.recap, <<c, i>>)]_playerVars
  BY SayStep
<1>2. QED
  BY <1>1, PageIsMapAndPlayer, PlayerInvHolds, PTL DEF SayWordAnswers

(* Blue links are the path that was walked, in any playthrough of any story whose parts *)
(* lie in the rows they are drawn in.                                                   *)
THEOREM BlueIsWalked == Spec => []BraidIsHonest
BY PathIsHonest, PathInvHolds, PageIsMapAndPlayer, PlayerInvHolds, PTL

(* The player tells every story as a walk along its braid, whatever else is done to the *)
(* page meanwhile.                                                                      *)
THEOREM ExplorerRefinesWalk == Spec => PlayingIsWalking
<1>1. PlayerInit => Walks!Init
  BY WalkInitially
<1>2. PlayerInv /\ [PlayerNext]_playerVars
        => [Walks!Next]_<<IF Opened THEN play.story ELSE NoStory,
                          IF Opened THEN play.trail ELSE << >> >>
  BY WalkStep
<1>3. QED
  BY <1>1, <1>2, PageIsMapAndPlayer, PlayerInvHolds, PTL
  DEF PlayerSpec, PlayingIsWalking, Walks!Spec
=============================================================================
