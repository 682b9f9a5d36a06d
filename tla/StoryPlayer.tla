---------------------------- MODULE StoryPlayer ----------------------------
(***************************************************************************)
(* The right-hand panel of the story explorer (explorer.js): the page of a *)
(* topic with its shelf, and the player. JavaScript runs one handler at a  *)
(* time, so each click is one action. What can be clicked is what was      *)
(* written into the page last, which is not derived from the state: a      *)
(* handler that throws leaves the old buttons standing.                    *)
(***************************************************************************)
EXTENDS Braid

CONSTANTS
    NoStory,
    links,    \* the links renderBraid draws, the same for every story
    row       \* how far down it draws each segment

ASSUME NoStoryAssumption == NoStory \notin Story
ASSUME LinksAssumption == links \subseteq Segment \X Segment
ASSUME RowAssumption == row \in [Segment -> Nat]
\* Each link goes down one row, and so does every story of the data wherever it goes on.
ASSUME RowsAssumption ==
    /\ \A l \in links : row[l[2]] = row[l[1]] + 1
    /\ \A s \in Story, g, h \in Segment : Follows(s, g, h) => row[h] = row[g] + 1

VARIABLES
    play,    \* the playthrough, or NoPlay
    tab,     \* the tab last asked for
    screen,  \* what #player was last filled with: the tab marked in it, and the rest
    page,    \* the topic #browse was last filled with
    given    \* history: the names the child has given in this playthrough

playerVars == <<play, tab, screen, page, given>>

NoPlay == [story |-> NoStory]
Nothing == "nothing"   \* an empty element

\* trail and names: the segments told, and the values filled in when they were told.
\* A body is the slot that is being named, the choice that is asked, or the ending.
Body == Slot \cup Choice \cup {TheEnd}
Play == [story : Story, slots : [Slot -> Name], recap : Seq(Choice \X Nat),
         pending : Seq(Slot), trail : Seq(Segment), names : Seq([Slot -> Name]),
         walked : SUBSET Segment, body : Body]
\* It is not what the other tabs show.
ASSUME BodyAssumption == Body \cap {"why", "braid", Nothing} = {}
Tab == {"play", "why", "braid"}
Screen == [tab : Tab \cup {Nothing}, shows : Body \cup {"why", "braid", Nothing}]
Blank == [tab |-> Nothing, shows |-> Nothing]

Opened == play # NoPlay   \* #player is displayed, and not #browse
story == library[play.story]

----------------------------------------------------------------------------
(* The page of a topic. *)

Shelf(t) == {s \in Story : library[s].topic = t}
familyStories(t) ==
    LET root == IF parent[t] = NoTopic THEN t ELSE parent[t]
    IN  UNION {Shelf(u) : u \in {u \in Topic : u = root \/ parent[u] = root}}
Offer(t) == IF Shelf(t) # {} THEN Shelf(t) ELSE familyStories(t)
allTopicsList == UNION {{c} \cup {t \in Topic : parent[t] = c} : c \in Category}

closePlayer ==
    /\ play' = NoPlay
    /\ screen' = Blank
    /\ given' = [k \in Slot |-> Keep]

ShowTopic(t) ==
    /\ closePlayer
    /\ page' = t
    /\ UNCHANGED tab

\* A pill of the list of topics.
ClickTopic(t) ==
    /\ ~Opened
    /\ t \in allTopicsList
    /\ ShowTopic(t)

----------------------------------------------------------------------------
(* Rendering. A page of the story is drawn under whichever tab is marked. *)

Draw(body) == screen' = [tab |-> tab', shows |-> body]

\* The values that are filled in where the segments told name their slots.
fill(p, told) == [j \in DOMAIN told |-> p.slots]

\* Mutant of renderSegment: the body that the tab "play" returns to is not kept up.
renderSegmentOnce(p, g) ==
    LET told == run[p.story][g]
    IN  [p EXCEPT !.trail = @ \o told,
                  !.names = @ \o fill(p, told),
                  !.walked = @ \cup {told[j] : j \in DOMAIN told},
                  !.body = IF p.trail = << >> THEN library[p.story].next[End(told)] ELSE @]
\* Mutant of renderSegment: the segment that follows by itself is not told.
renderOneSegment(p, g) ==
    [p EXCEPT !.trail = Append(@, g),
              !.names = Append(@, p.slots),
              !.walked = @ \cup {g},
              !.body = library[p.story].next[End(run[p.story][g])]]
\* The playthrough p goes on at segment g, which is told with all that follows it.
renderSegment(p, g) ==
    LET told == run[p.story][g]
    IN  [p EXCEPT !.trail = @ \o told,
                  !.names = @ \o fill(p, told),
                  !.walked = @ \cup {told[j] : j \in DOMAIN told},
                  !.body = library[p.story].next[End(told)]]

startSegments(p) ==
    renderSegment([p EXCEPT !.trail = << >>, !.names = << >>], library[p.story].start)
renderNaming(p) == [p EXCEPT !.body = Head(p.pending)]
NameOrStart(p) == IF p.pending # << >> THEN renderNaming(p) ELSE startSegments(p)

renderWhyThrows == story.recorded /\ ~ Required \subseteq story.record

\* The links of the drawing that are blue.
renderBraid == {l \in links : l[1] \in play.walked /\ l[2] \in play.walked}

----------------------------------------------------------------------------
(* The player. *)

\* The naming slots of a story (ask_child).
Asked(s) == {library[s].asks[j] : j \in DOMAIN library[s].asks}

\* Mutant of Fresh: "play again" keeps what the choices have decided.
FreshWithChoices(s) ==
    [story |-> s,
     slots |-> [k \in Slot |-> IF Opened /\ k \notin Asked(s) THEN play.slots[k]
                               ELSE library[s].default[k]],
     recap |-> << >>, pending |-> library[s].asks, trail |-> << >>, names |-> << >>,
     walked |-> {library[s].start}, body |-> TheEnd]
\* Mutant of Fresh: "play again" keeps the path.
FreshWithPath(s) ==
    [story |-> s, slots |-> library[s].default, recap |-> << >>,
     pending |-> library[s].asks, trail |-> << >>, names |-> << >>,
     walked |-> {library[s].start} \cup (IF Opened THEN play.walked ELSE {}),
     body |-> TheEnd]
\* The body is empty until NameOrStart, in the same handler, fills it; here it is any.
Fresh(s) ==
    [story |-> s, slots |-> library[s].default, recap |-> << >>,
     pending |-> library[s].asks, trail |-> << >>, names |-> << >>,
     walked |-> {library[s].start}, body |-> TheEnd]

\* Mutant of PlayStory: the tab is not set back.
PlayStoryInTab(s) ==
    /\ \/ ~Opened /\ s \in Offer(page)
       \/ Opened /\ screen.shows = TheEnd /\ s = play.story
    /\ play' = NameOrStart(Fresh(s))
    /\ UNCHANGED tab
    /\ Draw(play'.body)
    /\ given' = [k \in Slot |-> Keep]
    /\ UNCHANGED page
\* A card of the shelf, or "play again" under an ending.
PlayStory(s) ==
    /\ \/ ~Opened /\ s \in Offer(page)
       \/ Opened /\ screen.shows = TheEnd /\ s = play.story
    /\ play' = NameOrStart(Fresh(s))
    /\ tab' = "play"
    /\ Draw(play'.body)
    /\ given' = [k \in Slot |-> Keep]
    /\ UNCHANGED page

setTab(t) ==
    /\ Opened
    /\ tab' = t
    /\ IF t = "play" THEN Draw(play.body)
       ELSE IF t = "why" /\ renderWhyThrows THEN UNCHANGED screen
       ELSE Draw(t)
    /\ UNCHANGED <<play, page, given>>

\* v is what the box holds: Keep when it is empty.
setName(k, v) ==
    /\ Opened /\ screen.shows = k
    /\ LET named == [play EXCEPT !.slots[k] = IF v = Keep THEN @ ELSE v,
                                 !.pending = Tail(@)]
       IN  play' = NameOrStart(named)
    /\ given' = [given EXCEPT ![k] = IF v = Keep THEN @ ELSE v]
    /\ UNCHANGED tab
    /\ Draw(play'.body)
    /\ UNCHANGED page

\* Object.assign(play.slots, o.sets_slots)
Assigned(slots, sets) == [k \in Slot |-> IF sets[k] = Keep THEN slots[k] ELSE sets[k]]

pick(c, i) ==
    /\ Opened /\ screen.shows = c
    /\ LET o == story.options[c][i]
           chosen == [play EXCEPT !.slots = Assigned(@, o.sets),
                                  !.recap = Append(@, <<c, i>>)]
       IN  play' = renderSegment(chosen, o.to)
    /\ UNCHANGED tab
    /\ Draw(play'.body)
    /\ UNCHANGED <<page, given>>

\* The options of which some word is heard in what is said; the last one counts.
Heard(c, said) == {i \in DOMAIN story.options[c] : story.options[c][i].words \cap said # {}}
\* Mutant of Best: the first option counts.
BestFirst(I) == CHOOSE i \in I : \A j \in I : j >= i
Best(I) == CHOOSE i \in I : \A j \in I : j <= i

hear(c, said) ==
    /\ Opened /\ screen.shows = c
    /\ IF Heard(c, said) # {} THEN pick(c, Best(Heard(c, said)))
       ELSE UNCHANGED playerVars

\* "back to the shelf", above the player or under an ending.
Close == Opened /\ closePlayer /\ UNCHANGED <<tab, page>>

----------------------------------------------------------------------------
PlayerInit ==
    /\ play = NoPlay
    /\ tab = "play"
    /\ screen = Blank
    /\ page = First
    /\ given = [k \in Slot |-> Keep]

PanelStep ==
    \/ \E s \in Story : PlayStory(s)
    \/ \E t \in Tab : setTab(t)
    \/ \E k \in Slot, v \in Name \cup {Keep} : setName(k, v)
    \/ \E c \in Choice : Opened /\ \E i \in DOMAIN story.options[c] : pick(c, i)
    \/ \E c \in Choice, said \in SUBSET Word : hear(c, said)
    \/ Close

PlayerNext == PanelStep \/ \E t \in Topic : ShowTopic(t)
PlayerSpec == PlayerInit /\ [][PlayerNext]_playerVars
----------------------------------------------------------------------------
PlayerTypeOK ==
    /\ play \in Play \cup {NoPlay}
    /\ tab \in Tab
    /\ screen \in Screen
    /\ page \in Topic
    /\ given \in [Slot -> Name \cup {Keep}]

\* The playthrough asks for a name that is pending, before the story has begun, or it
\* stands where its last segment leads.
Stands(p) ==
    IF p.body \in Slot
    THEN p.pending # << >> /\ p.body = Head(p.pending) /\ p.trail = << >>
    ELSE p.pending = << >> /\ p.trail # << >> /\ p.body = library[p.story].next[End(p.trail)]

(* A click acts on what the story asks now: whatever is on the screen to be named or  *)
(* answered is what the playthrough stands at, no name is asked once the story has    *)
(* begun, and the question is that of the last segment told. Holds although a tab may *)
(* be drawn, fail to be drawn, and be left at any time.                               *)
ScreenIsCurrent ==
    IF Opened THEN Stands(play) /\ (screen.shows \in Body => screen.shows = play.body)
    ELSE screen = Blank

(* What is drawn is the tab that is marked and the one asked for, unless the story's  *)
(* decision record lacks something that renderWhy needs.                              *)
TabIsShown ==
    Opened /\ ~renderWhyThrows =>
        /\ screen.tab = tab
        /\ screen.shows = IF tab = "play" THEN play.body ELSE tab

\* What the j-th choice that was made sets slot k to, or Keep, and the choices that were
\* the last to set it.
SetBy(p, j, k) == library[p.story].options[p.recap[j][1]][p.recap[j][2]].sets[k]
LastToSet(p, k) ==
    {j \in DOMAIN p.recap : /\ SetBy(p, j, k) # Keep
                            /\ \A i \in DOMAIN p.recap : i > j => SetBy(p, i, k) = Keep}
\* A slot that the child is not asked about is what the last choice that sets it says, or
\* else what the author wrote, and then every page told says so.
LivesHere(p, k) ==
    IF LastToSet(p, k) = {}
    THEN /\ p.slots[k] = library[p.story].default[k]
         /\ \A j \in DOMAIN p.names : p.names[j][k] = p.slots[k]
    ELSE \A j \in LastToSet(p, k) : p.slots[k] = SetBy(p, j, k)
\* A slot that the child is asked about is the same on every page told, and the name that
\* was given if one was, as long as no choice has set it.
LivesOn(p, k, name) ==
    LastToSet(p, k) = {} =>
        /\ \A j \in DOMAIN p.names : p.names[j][k] = p.slots[k]
        /\ name # Keep => p.slots[k] = name

(* A slot lives as long as it should (STORY_GENERATION_WORKFLOW.md:347-357). What the *)
(* choices decide "lives only inside one playthrough and resets on replay": it is     *)
(* accounted for by this playthrough's choices and the author. A name that the child  *)
(* gives stays, on the slot and from page to page, as long as no choice overwrites it. *)
(* Nothing is claimed of a name that a choice has overwritten (explorer.js:417), nor  *)
(* of what a naming slot holds when no name is given: there the document and the      *)
(* naming page itself (explorer.js:364) promise more than this code does, the name of *)
(* an earlier story and that it is never overwritten.                                 *)
SlotLifetimes ==
    Opened => \A k \in Slot :
        IF k \in Asked(play.story) THEN LivesOn(play, k, given[k]) ELSE LivesHere(play, k)

(* "Blue = the path you walked": a blue link joins two segments told one after the    *)
(* other, in this playthrough.                                                        *)
BraidIsHonest ==
    Opened => \A l \in renderBraid :
        \E j \in 1..(Len(play.trail) - 1) : l = <<play.trail[j], play.trail[j + 1]>>

(* Saying an option's own say-word answers with that option, unless a later option    *)
(* shares one of its words.                                                           *)
SayWordAnswers ==
    [][ Opened => \A c \in Choice : \A i \in DOMAIN story.options[c] :
          LET o == story.options[c]
          IN  /\ hear(c, o[i].says)
              /\ \A j \in DOMAIN o : j > i => o[j].words \cap o[i].says = {}
              => play'.recap = Append(play.recap, <<c, i>>) ]_playerVars

(* Playing is walking: see StoryWalk. *)
Walks == INSTANCE StoryWalk WITH
    reading <- IF Opened THEN play.story ELSE NoStory,
    walk    <- IF Opened THEN play.trail ELSE << >>
PlayingIsWalking == Walks!Spec
=============================================================================
