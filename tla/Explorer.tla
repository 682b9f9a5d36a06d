------------------------------ MODULE Explorer ------------------------------
(***************************************************************************)
(* The story explorer: the map and the panel on one page. showTopic is     *)
(* where they meet. It is called by a click on a disc of the map, which    *)
(* also leaves a story that is being played, and by a click on a pill of   *)
(* the panel, which also moves the selection on the map.                   *)
(***************************************************************************)
EXTENDS TopicMap, StoryPlayer

vars == <<mapVars, playerVars>>

Init == MapInit /\ PlayerInit

ChooseDisc(t) == Choose(t) /\ ShowTopic(t)
ChoosePill(t) == ClickTopic(t) /\ ChosenElsewhere(t)

Next ==
    \/ MapStep /\ UNCHANGED playerVars
    \/ PanelStep /\ UNCHANGED mapVars
    \/ \E t \in Topic : ChooseDisc(t) \/ ChoosePill(t)

Spec == Init /\ [][Next]_vars

\* requestAnimationFrame calls frame() again and again.
FairSpec == Spec /\ WF_vars(frame /\ UNCHANGED playerVars)

----------------------------------------------------------------------------
TypeOK == MapTypeOK /\ PlayerTypeOK

(* The page of the panel is that of the topic selected on the map. *)
OneTopic == page = selected
=============================================================================
