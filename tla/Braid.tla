------------------------------- MODULE Braid -------------------------------
(***************************************************************************)
(* The stories the explorer page carries (DATA.stories in explorer.js).    *)
(* A story is a braid of segments: each segment leads to another segment,  *)
(* to a choice point, or to nothing, and each option of a choice point to  *)
(* a segment.                                                              *)
(***************************************************************************)
EXTENDS Integers, Sequences, FiniteSets, Topics

CONSTANTS
    Story, Segment, Choice, Slot,
    Name,      \* values of slots, typed or written by an author
    Word,      \* words longer than two letters
    TheEnd,    \* the "next" of an ending
    Keep,      \* "this option does not set this slot"
    library    \* story |-> its JSON

\* words: those of its say-word and its label; says: the words, of any option, that are
\* found in its say-word (also inside a longer word), among which is one of its own.
Option ==
    {o \in [to : Segment, sets : [Slot -> Name \cup {Keep}],
            words : SUBSET Word, says : SUBSET Word] : o.says \cap o.words # {}}
\* What renderWhy reads of a decision record without asking whether it is there.
Required == {"request", "pattern", "weights", "tone", "teller", "value", "materials"}
StoryData ==
    [topic : Topic, start : Segment, next : [Segment -> Segment \cup Choice \cup {TheEnd}],
     options : [Choice -> Seq(Option)], asks : Seq(Slot), default : [Slot -> Name],
     recorded : BOOLEAN, record : SUBSET Required]

\* p goes from segment to segment with nothing to choose, until something is to be
\* chosen or the story ends.
Runs == UNION {[1..n -> Segment] : n \in 1..Cardinality(Segment)}
IsRun(s, p) ==
    /\ \A j \in 1..(Len(p) - 1) : library[s].next[p[j]] = p[j + 1]
    /\ library[s].next[p[Len(p)]] \notin Segment

ASSUME FiniteAssumption == IsFiniteSet(Segment)
ASSUME DisjointAssumption ==
    /\ Slot \cap Choice = {} /\ Segment \cap Choice = {}
    /\ TheEnd \notin Segment \cup Choice \cup Slot
    /\ Keep \notin Name
ASSUME LibraryAssumption == library \in [Story -> StoryData]
\* No story goes round in a circle by itself.
ASSUME BraidAssumption ==
    \A s \in Story, g \in Segment : \E p \in Runs : p[1] = g /\ IsRun(s, p)

\* What renderSegment(g) shows before it stops: it calls itself at the next segment.
run == [s \in Story |-> [g \in Segment |-> CHOOSE p \in Runs : p[1] = g /\ IsRun(s, p)]]

End(p) == p[Len(p)]

\* In story s segment h may be the one told after g.
Follows(s, g, h) ==
    LET next == library[s].next[g]
    IN  \/ next = h
        \/ next \in Choice /\ \E i \in DOMAIN library[s].options[next] :
              library[s].options[next][i].to = h
=============================================================================
