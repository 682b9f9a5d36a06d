----------------------------- MODULE StoryWalk -----------------------------
(***************************************************************************)
(* What playing a story promises: from its first segment the story goes on *)
(* by itself to a choice point, there by exactly one of that point's own   *)
(* options, and so on to an ending, where it stays until the story is      *)
(* opened again or left. Nothing is told twice, skipped or mixed with      *)
(* another story.                                                          *)
(***************************************************************************)
EXTENDS Sequences

CONSTANTS
    Story, NoStory, Choice,
    library,  \* the stories, as in Braid
    run       \* what a story tells from a segment on until there is something to choose
VARIABLES
    reading,  \* the story that is open
    walk      \* the segments told since it was opened

Init == reading = NoStory /\ walk = << >>

\* A story is opened, at its beginning or before its first segment (names are asked).
Open(s) ==
    /\ reading' = s
    /\ walk' \in {<< >>, run[s][library[s].start]}

Begin ==
    /\ reading \in Story
    /\ walk = << >>
    /\ walk' = run[reading][library[reading].start]
    /\ UNCHANGED reading

Choose(c, i) ==
    /\ reading \in Story
    /\ walk # << >>
    /\ library[reading].next[walk[Len(walk)]] = c
    /\ walk' = walk \o run[reading][library[reading].options[c][i].to]
    /\ UNCHANGED reading

Leave ==
    /\ reading' = NoStory
    /\ walk' = << >>

Next ==
    \/ \E s \in Story : Open(s)
    \/ Begin
    \/ \E c \in Choice :
          reading \in Story /\ \E i \in DOMAIN library[reading].options[c] : Choose(c, i)
    \/ Leave

Spec == Init /\ [][Next]_<<reading, walk>>
=============================================================================
