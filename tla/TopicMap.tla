------------------------------ MODULE TopicMap ------------------------------
(***************************************************************************)
(* The map of topics on the left of the story explorer (explorer.js): the  *)
(* camera, the gestures that move it, clicks on discs, and the frames.     *)
(* The browser delivers events; each handler is one action, a click being  *)
(* delivered with the mouseup it follows, before any timer runs. A timer   *)
(* runs at any time after that, a frame at any time at all.                *)
(***************************************************************************)
EXTENDS Integers, Topics

CONSTANTS
    Nowhere,    \* no press; a press on NoTopic is one beside the discs
    CLICK_SLOP,
    Turn,       \* yaw is an angle: it is counted in steps, Turn of them to a turn
    MaxPitch,   \* pitch is between -MaxPitch and MaxPitch
    MaxZoom,    \* zoom is between 1 and MaxZoom
    Steps,      \* how far one move event can go, in either direction
    MaxTimers   \* bound: releases whose timer has not run

ASSUME NowhereAssumption == Nowhere \notin Topic \cup {NoTopic}
ASSUME NumbersAssumption ==
    /\ CLICK_SLOP \in Nat /\ MaxPitch \in Nat /\ MaxTimers \in Nat
    /\ Turn \in Nat \ {0} /\ MaxZoom \in Nat \ {0} /\ Steps \subseteq Int

VARIABLES
    cam,
    hovered, selected,
    movedBy,    \* counted up to one more than the slop: beyond it nothing is compared
    needsDraw,
    drawn,      \* the picture the SVG elements show
    dragFrom,   \* is it set? The point itself does not matter
    pinchFrom,  \* is it set?
    timers,     \* timeouts of endDrag that have not run
    press,      \* where the mouse button was pressed that is still down, or Nowhere
    fingers,    \* fingers on the map
    tap,        \* where the only finger of a touch has been, without a move, or Nowhere
    travel,     \* history: how far the mouse has moved since it was pressed
    raced,      \* history: a timer was outstanding when the mouse was pressed
    cancelled   \* history: the browser took a touch away (touchcancel), and no gesture
                \* has ended since

gesture == <<dragFrom, pinchFrom, press, fingers, tap, travel, raced, cancelled>>
mapVars == <<cam, hovered, selected, movedBy, needsDraw, drawn, timers, gesture>>

Limit(x, low, high) == IF x < low THEN low ELSE IF x > high THEN high ELSE x
Abs(x) == IF x < 0 THEN -x ELSE x
Farther(d, dx, dy) == Limit(d + Abs(dx) + Abs(dy), 0, CLICK_SLOP + 1)

Camera == [yaw : 0..(Turn - 1), pitch : -MaxPitch..MaxPitch, zoom : 1..MaxZoom]
Home == [yaw |-> 0, pitch |-> 0, zoom |-> 1]

----------------------------------------------------------------------------
(* Drawing. *)

focus == IF hovered # NoTopic THEN hovered ELSE selected
near == IF focus = NoTopic THEN {}
        ELSE {focus} \cup {t \in Topic : <<focus, t>> \in edges \/ <<t, focus>> \in edges}

\* What frame() puts on the screen: from where, what stands out, and which discs and
\* links are bright.
Picture ==
    [from  |-> cam,
     focus |-> focus,
     discs |-> IF focus = NoTopic THEN Topic ELSE near,
     links |-> {e \in edges : focus # NoTopic /\ e[1] \in near /\ e[2] \in near}]

\* Mutant of frame: it draws while the map is being dragged.
frameOfDrag ==
    /\ needsDraw /\ dragFrom
    /\ needsDraw' = FALSE
    /\ drawn' = Picture
    /\ UNCHANGED <<cam, hovered, selected, movedBy, timers, gesture>>
\* A frame that has nothing to draw changes nothing.
frame ==
    /\ needsDraw
    /\ needsDraw' = FALSE
    /\ drawn' = Picture
    /\ UNCHANGED <<cam, hovered, selected, movedBy, timers, gesture>>

----------------------------------------------------------------------------
(* Handlers. Each says what it does to the variables it writes. *)

\* The part of showTopic that is about the map.
Select(t) ==
    /\ selected' = t
    /\ needsDraw' = TRUE

\* Mutant of startDrag: what the last drag has moved is left to the timer.
startDragOn == dragFrom' = TRUE /\ UNCHANGED movedBy
startDrag == dragFrom' = TRUE /\ movedBy' = 0
\* Mutant of endDrag: only the pinch is ended.
endPinch ==
    /\ pinchFrom' = FALSE
    /\ timers < MaxTimers /\ timers' = timers + 1
    /\ cancelled' = FALSE
    /\ UNCHANGED dragFrom
endDrag ==
    /\ dragFrom' = FALSE
    /\ pinchFrom' = FALSE
    /\ timers < MaxTimers /\ timers' = timers + 1
    /\ cancelled' = FALSE

\* Mutant of Drag: the length of the last move is kept, and not that of all.
DragLast(dx, dy) ==
    IF dragFrom
    THEN /\ movedBy' = Farther(0, dx, dy)
         /\ cam' = [cam EXCEPT !.yaw = (@ + dx) % Turn,
                               !.pitch = Limit(@ + dy, -MaxPitch, MaxPitch)]
         /\ needsDraw' = TRUE
    ELSE UNCHANGED <<movedBy, cam, needsDraw>>
\* moveDrag with one pointer, which drags if dragFrom is set.
Drag(dx, dy) ==
    IF dragFrom
    THEN /\ movedBy' = Farther(movedBy, dx, dy)
         /\ cam' = [cam EXCEPT !.yaw = (@ + dx) % Turn,
                               !.pitch = Limit(@ + dy, -MaxPitch, MaxPitch)]
         /\ needsDraw' = TRUE
    ELSE UNCHANGED <<movedBy, cam, needsDraw>>

----------------------------------------------------------------------------
(* The mouse. *)

\* The mouse is where the browser says it is: over the disc it has entered, or none.
MouseDown ==
    /\ press = Nowhere /\ fingers = 0
    /\ startDrag
    /\ press' = hovered
    /\ tap' = Nowhere
    /\ travel' = 0
    /\ raced' = (timers > 0)
    /\ UNCHANGED <<cam, hovered, selected, needsDraw, drawn, timers,
                   pinchFrom, fingers, cancelled>>

MouseMove(dx, dy) ==
    /\ fingers = 0
    /\ Drag(dx, dy)
    /\ travel' = IF press = Nowhere THEN travel ELSE Farther(travel, dx, dy)
    /\ UNCHANGED <<hovered, selected, drawn, timers,
                   dragFrom, pinchFrom, press, fingers, tap, raced, cancelled>>

\* The button is released. Over the disc it was pressed on that is a click as well.
OverSameDisc == press = hovered /\ hovered # NoTopic
Release ==
    /\ press # Nowhere
    /\ endDrag
    /\ press' = Nowhere /\ travel' = 0 /\ raced' = FALSE
    /\ UNCHANGED <<cam, hovered, movedBy, drawn, fingers, tap>>
MouseUp ==
    /\ Release
    /\ ~(OverSameDisc /\ movedBy <= CLICK_SLOP)
    /\ UNCHANGED <<selected, needsDraw>>
Click(t) ==
    /\ Release
    /\ OverSameDisc /\ t = hovered
    /\ movedBy <= CLICK_SLOP
    /\ Select(t)

\* A mouse button or a finger is released outside the map: endDrag listens to the window.
ReleaseElsewhere ==
    /\ press = Nowhere
    /\ endDrag
    /\ UNCHANGED <<cam, hovered, selected, movedBy, needsDraw, drawn,
                   press, fingers, tap, travel, raced>>

\* setTimeout(() => { movedBy = 0; }, 0)
ResetMoved ==
    /\ timers > 0
    /\ timers' = timers - 1
    /\ movedBy' = 0
    /\ UNCHANGED <<cam, hovered, selected, needsDraw, drawn, gesture>>

\* mouseleave of one disc, then mouseenter of another.
PointAt(t) ==
    /\ t # hovered
    /\ hovered' = t
    /\ needsDraw' = TRUE
    /\ UNCHANGED <<cam, selected, movedBy, drawn, timers, gesture>>

\* Mutant of Wheel: the zoom is not limited below.
WheelAway(z) ==
    /\ cam' = [cam EXCEPT !.zoom = IF @ + z > MaxZoom THEN MaxZoom ELSE @ + z]
    /\ needsDraw' = TRUE
    /\ UNCHANGED <<hovered, selected, movedBy, drawn, timers, gesture>>
Wheel(z) ==
    /\ cam' = [cam EXCEPT !.zoom = Limit(@ + z, 1, MaxZoom)]
    /\ needsDraw' = TRUE
    /\ UNCHANGED <<hovered, selected, movedBy, drawn, timers, gesture>>

\* Mutant of ResetView: no frame is asked for.
ResetUnseen ==
    /\ cam' = Home
    /\ UNCHANGED <<needsDraw, hovered, selected, movedBy, drawn, timers, gesture>>
ResetView ==
    /\ cam' = Home
    /\ needsDraw' = TRUE
    /\ UNCHANGED <<hovered, selected, movedBy, drawn, timers, gesture>>

----------------------------------------------------------------------------
(* Touch. *)

TouchStart(t) ==
    /\ press = Nowhere /\ fingers < 2
    /\ fingers' = fingers + 1
    /\ IF fingers' = 2
       THEN pinchFrom' = TRUE /\ UNCHANGED <<dragFrom, movedBy>>
       ELSE startDrag /\ UNCHANGED pinchFrom
    /\ tap' = IF fingers' = 1 THEN t ELSE Nowhere
    /\ UNCHANGED <<cam, hovered, selected, needsDraw, drawn, timers,
                   press, travel, raced, cancelled>>

\* Two fingers that move apart or together zoom to any level; a move that is used for
\* a gesture is taken from the browser, which then makes no click of the touch.
TouchPinch(z) ==
    /\ fingers = 2 /\ pinchFrom
    /\ cam' = [cam EXCEPT !.zoom = Limit(z, 1, MaxZoom)]
    /\ needsDraw' = TRUE
    /\ UNCHANGED <<hovered, selected, movedBy, drawn, timers, gesture>>

TouchDrag(dx, dy) ==
    /\ fingers > 0 /\ ~(fingers = 2 /\ pinchFrom)
    /\ Drag(dx, dy)
    /\ tap' = IF dragFrom THEN Nowhere ELSE tap
    /\ UNCHANGED <<hovered, selected, drawn, timers,
                   dragFrom, pinchFrom, press, fingers, travel, raced, cancelled>>

TouchEnd ==
    /\ fingers > 0
    /\ fingers' = fingers - 1
    /\ endDrag
    /\ UNCHANGED <<cam, hovered, selected, movedBy, needsDraw, drawn,
                   press, tap, travel, raced>>

\* The browser takes the touch for itself. The page does not listen to it.
TouchCancel ==
    /\ fingers > 0
    /\ fingers' = 0
    /\ tap' = Nowhere
    /\ cancelled' = TRUE
    /\ UNCHANGED <<cam, hovered, selected, movedBy, needsDraw, drawn, timers,
                   dragFrom, pinchFrom, press, travel, raced>>

\* The mouse events the browser makes of a tap: over the disc, down, up, and click.
EmulateMouse ==
    /\ fingers = 0 /\ tap # Nowhere
    /\ hovered' = tap
    /\ movedBy' = 0
    /\ endDrag
    /\ tap' = Nowhere
    /\ UNCHANGED <<cam, drawn, press, fingers, travel, raced>>
TapBeside ==
    /\ EmulateMouse
    /\ tap = NoTopic
    /\ needsDraw' = (needsDraw \/ hovered # NoTopic)
    /\ UNCHANGED selected
Tap(t) == EmulateMouse /\ tap = t /\ t # NoTopic /\ Select(t)

----------------------------------------------------------------------------
MapInit ==
    /\ cam = Home
    /\ hovered = NoTopic /\ selected = First
    /\ movedBy = 0 /\ needsDraw = TRUE
    /\ drawn = [from |-> Home, focus |-> NoTopic, discs |-> {}, links |-> {}]
    /\ dragFrom = FALSE /\ pinchFrom = FALSE /\ timers = 0
    /\ press = Nowhere /\ fingers = 0 /\ tap = Nowhere
    /\ travel = 0 /\ raced = FALSE /\ cancelled = FALSE

\* A disc is chosen on the map.
Choose(t) == Click(t) \/ Tap(t)
\* Mutant of ChosenElsewhere: the panel opens a topic and the map is only drawn again.
OpenedElsewhere(t) ==
    /\ needsDraw' = TRUE
    /\ UNCHANGED <<selected, cam, hovered, movedBy, drawn, timers, gesture>>
\* It is chosen elsewhere.
ChosenElsewhere(t) ==
    /\ Select(t)
    /\ UNCHANGED <<cam, hovered, movedBy, drawn, timers, gesture>>

MouseStep ==
    \/ MouseDown \/ MouseUp
    \/ \E t \in Topic \cup {NoTopic} : PointAt(t)
    \/ \E dx, dy \in Steps : MouseMove(dx, dy)
    \/ \E z \in {-1, 1} : Wheel(z)
    \/ ResetView \/ ReleaseElsewhere
TouchStep ==
    \/ \E t \in Topic \cup {NoTopic} : TouchStart(t)
    \/ \E z \in 1..MaxZoom : TouchPinch(z)
    \/ \E dx, dy \in Steps : TouchDrag(dx, dy)
    \/ TouchEnd \/ TouchCancel \/ TapBeside
MapStep == frame \/ ResetMoved \/ MouseStep \/ TouchStep

MapNext == MapStep \/ \E t \in Topic : Choose(t) \/ ChosenElsewhere(t)
MapSpec == MapInit /\ [][MapNext]_mapVars

----------------------------------------------------------------------------
Pictures == [from : Camera, focus : Topic \cup {NoTopic}, discs : SUBSET Topic, links : SUBSET edges]
Place == Topic \cup {NoTopic, Nowhere}

MapTypeOK ==
    /\ cam \in Camera
    /\ hovered \in Topic \cup {NoTopic} /\ selected \in Topic
    /\ movedBy \in 0..(CLICK_SLOP + 1)
    /\ needsDraw \in BOOLEAN /\ drawn \in Pictures
    /\ dragFrom \in BOOLEAN /\ pinchFrom \in BOOLEAN
    /\ timers \in 0..MaxTimers
    /\ press \in Place /\ fingers \in 0..2 /\ tap \in Place
    /\ travel \in 0..(CLICK_SLOP + 1)
    /\ raced \in BOOLEAN /\ cancelled \in BOOLEAN

(* When no frame is due, the screen shows the map as it is: every handler that changes *)
(* the camera, the selection or what is pointed at has asked for a frame.              *)
IdleIsCurrent == ~needsDraw => drawn = Picture

(* "Trackpads jitter a few pixels between press and release, and that must not eat the *)
(* click": a press and a release on one disc select it unless the mouse really moved   *)
(* in between, whatever was dragged, tapped or timed out before and meanwhile.         *)
SteadyClickCounts ==
    [][ Release /\ OverSameDisc /\ travel <= CLICK_SLOP => selected' = press ]_mapVars

(* "A click counts unless the pointer really travelled": a drag that ends on the disc  *)
(* where it began selects nothing, unless the mouse was pressed again before the timer *)
(* of the previous release had run, which then forgets what the drag has moved.        *)
DragIsNotClick ==
    [][ \A t \in Topic : Click(t) => travel <= CLICK_SLOP \/ raced ]_mapVars

(* "The map only ever moves when the viewer moves it": it turns only while a button or *)
(* a finger is down, or to where it started, except after a touch the browser has      *)
(* taken away, which leaves dragFrom set.                                              *)
TurnsOnlyWhenHeld ==
    [][ cam'.yaw # cam.yaw \/ cam'.pitch # cam.pitch =>
          press # Nowhere \/ fingers > 0 \/ cam' = Home \/ cancelled ]_mapVars

(* What is asked of the map is shown in the end.                                       *)
ShownInTheEnd == needsDraw ~> drawn = Picture
=============================================================================
