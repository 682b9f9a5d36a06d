--------------------------- MODULE TopicMapProofs ---------------------------
(***************************************************************************)
(* What holds of the map of topics, for any topics, any slop, any camera   *)
(* and any number of timers outstanding.                                   *)
(***************************************************************************)
EXTENDS TopicMap, TLAPS

(***************************************************************************)
(* While the mouse button is down there is no touch, and the movement that *)
(* is counted is at most that of the mouse. It is exactly that if no timer *)
(* was outstanding when the button was pressed.                            *)
(***************************************************************************)
Pressed ==
    press # Nowhere =>
        /\ fingers = 0 /\ tap = Nowhere
        /\ movedBy <= travel
        /\ ~raced => dragFrom /\ timers = 0 /\ movedBy = travel

(* Only a hand on the map, or a touch that was taken away, leaves dragFrom set. *)
Held == dragFrom => press # Nowhere \/ fingers > 0 \/ cancelled

MapInv == MapTypeOK /\ Pressed /\ Held /\ IdleIsCurrent

----------------------------------------------------------------------------
(* Limit keeps a number between its limits. *)
LEMMA LimitInRange ==
  ASSUME NEW x \in Int, NEW low \in Int, NEW high \in Int, low <= high
  PROVE  Limit(x, low, high) \in low..high
BY DEF Limit

(* A distance does not shrink, and of two distances the shorter stays the shorter. *)
LEMMA MovedFarther ==
  ASSUME NEW d \in 0..(CLICK_SLOP + 1), NEW e \in 0..(CLICK_SLOP + 1),
         NEW dx \in Int, NEW dy \in Int
  PROVE  /\ Farther(d, dx, dy) \in 0..(CLICK_SLOP + 1)
         /\ d <= Farther(d, dx, dy)
         /\ d <= e => Farther(d, dx, dy) <= Farther(e, dx, dy)
BY NumbersAssumption DEF Farther, Limit, Abs

(* One timer more is within the bound when the bound is not reached. *)
LEMMA OneMoreTimer == timers \in 0..MaxTimers /\ endDrag => timers' \in 0..MaxTimers
BY NumbersAssumption DEF endDrag

(* The camera stays a camera when it is turned or zoomed. *)
LEMMA TurnedCamera ==
  ASSUME NEW c \in Camera, NEW dx \in Int, NEW dy \in Int
  PROVE  [c EXCEPT !.yaw = (@ + dx) % Turn,
                   !.pitch = Limit(@ + dy, -MaxPitch, MaxPitch)] \in Camera
<1>1. c.yaw + dx \in Int /\ c.pitch + dy \in Int
  BY NumbersAssumption DEF Camera
<1>2. (c.yaw + dx) % Turn \in 0..(Turn - 1)
  BY <1>1, NumbersAssumption
<1>3. Limit(c.pitch + dy, -MaxPitch, MaxPitch) \in -MaxPitch..MaxPitch
  <2>1. -MaxPitch \in Int /\ MaxPitch \in Int /\ -MaxPitch <= MaxPitch
    BY NumbersAssumption
  <2>2. QED
    BY <1>1, <2>1 DEF Limit
<1>4. QED
  BY <1>2, <1>3 DEF Camera

LEMMA ZoomedCamera ==
  ASSUME NEW c \in Camera, NEW z \in Int
  PROVE  [c EXCEPT !.zoom = Limit(z, 1, MaxZoom)] \in Camera
<1>1. Limit(z, 1, MaxZoom) \in 1..MaxZoom
  <2>1. MaxZoom \in Int /\ 1 <= MaxZoom
    BY NumbersAssumption
  <2>2. QED
    BY <2>1 DEF Limit
<1>2. QED
  BY <1>1 DEF Camera

LEMMA HomeIsCamera == Home \in Camera
BY NumbersAssumption DEF Home, Camera

(* What frame() draws is a picture. *)
LEMMA PictureType == MapTypeOK => Picture \in Pictures
BY TopicsAssumption DEF MapTypeOK, Picture, Pictures, focus, near, Camera

(* The picture depends on the camera, the selection and what is pointed at. *)
LEMMA SamePicture ==
  ASSUME cam' = cam, hovered' = hovered, selected' = selected
  PROVE  Picture' = Picture
BY DEF Picture, focus, near
----------------------------------------------------------------------------
(* Every step of the map preserves the invariant. *)
LEMMA MapInitially == MapInit => MapInv
<1> SUFFICES ASSUME MapInit PROVE MapInv
  OBVIOUS
<1>1. MapTypeOK
  <2>1. drawn \in Pictures
    BY HomeIsCamera DEF MapInit, Pictures
  <2>2. 0 \in 0..(CLICK_SLOP + 1) /\ 0 \in 0..MaxTimers
    BY NumbersAssumption
  <2>3. First \in Topic
    BY TopicsAssumption
  <2>4. /\ cam \in Camera /\ needsDraw \in BOOLEAN
        /\ movedBy \in 0..(CLICK_SLOP + 1) /\ travel \in 0..(CLICK_SLOP + 1)
        /\ timers \in 0..MaxTimers /\ fingers \in 0..2
    BY <2>2, HomeIsCamera DEF MapInit
  <2>5. /\ hovered \in Topic \cup {NoTopic} /\ selected \in Topic
        /\ press \in Place /\ tap \in Place
    BY <2>3 DEF MapInit, Place
  <2>6. /\ dragFrom \in BOOLEAN /\ pinchFrom \in BOOLEAN
        /\ raced \in BOOLEAN /\ cancelled \in BOOLEAN
    BY DEF MapInit
  <2>7. QED
    BY <2>1, <2>4, <2>5, <2>6 DEF MapTypeOK
<1>2. Pressed /\ Held /\ IdleIsCurrent
  BY DEF MapInit, Pressed, Held, IdleIsCurrent
<1>3. QED
  BY <1>1, <1>2 DEF MapInv

(* The mouse is pressed, moved, released or clicked. *)
LEMMA MouseKeepsInv ==
  ASSUME MapInv,
         \/ MouseDown \/ MouseUp \/ \E dx, dy \in Steps : MouseMove(dx, dy)
         \/ \E t \in Topic : Click(t)
  PROVE  MapInv'
<1> USE DEF MapInv
<1>1. CASE MouseDown
  <2> USE <1>1 DEF MouseDown, startDrag
  <2>1. MapTypeOK'
    BY NumbersAssumption DEF MapTypeOK, Place
  <2>2. Pressed'
    <3>1. CASE timers > 0
      <4>1. raced'
        BY <3>1, Zenon
      <4>2. QED
        BY <4>1 DEF Pressed
    <3>2. CASE ~(timers > 0)
      <4>1. timers = 0
        BY <3>2, NumbersAssumption DEF MapTypeOK
      <4>2. QED
        BY <4>1 DEF Pressed
    <3>3. QED
      BY <3>1, <3>2
  <2>3. Held' /\ press' # Nowhere
    BY NowhereAssumption DEF Held, MapTypeOK
  <2>4. IdleIsCurrent'
    BY SamePicture DEF IdleIsCurrent
  <2>5. QED
    BY <2>1, <2>2, <2>3, <2>4
<1>2. ASSUME NEW dx \in Steps, NEW dy \in Steps, MouseMove(dx, dy)
      PROVE  MapInv'
  <2>0. dx \in Int /\ dy \in Int
    BY NumbersAssumption
  <2> USE <1>2 DEF MouseMove
  <2>1. movedBy' \in 0..(CLICK_SLOP + 1) /\ travel' \in 0..(CLICK_SLOP + 1)
    <3>1. /\ Farther(movedBy, dx, dy) \in 0..(CLICK_SLOP + 1)
          /\ Farther(travel, dx, dy) \in 0..(CLICK_SLOP + 1)
      BY <2>0, MovedFarther DEF MapTypeOK
    <3>2. QED
      BY <3>1 DEF MapTypeOK, Drag
  <2>2. cam' \in Camera
    BY <2>0, TurnedCamera DEF MapTypeOK, Drag
  <2>3. MapTypeOK'
    BY <2>1, <2>2 DEF MapTypeOK, Drag
  <2>4. Pressed'
    <3>1. movedBy <= travel => Farther(movedBy, dx, dy) <= Farther(travel, dx, dy)
      BY <2>0, MovedFarther DEF MapTypeOK
    <3>2. movedBy <= travel => movedBy <= Farther(travel, dx, dy)
      BY <2>0, <2>1, <3>1, MovedFarther, NumbersAssumption DEF MapTypeOK
    <3>3. QED
      BY <3>1, <3>2 DEF Pressed, Drag
  <2>5. Held' /\ IdleIsCurrent'
    BY SamePicture DEF Held, IdleIsCurrent, Drag
  <2>6. QED
    BY <2>3, <2>4, <2>5
<1>3. ASSUME NEW t \in Topic, MouseUp \/ Click(t)
      PROVE  MapInv'
  <2>0. timers' \in 0..MaxTimers /\ travel' \in 0..(CLICK_SLOP + 1)
    BY <1>3, OneMoreTimer, NumbersAssumption DEF MouseUp, Click, Release, MapTypeOK
  <2> USE <1>3 DEF MouseUp, Click, Release, endDrag, Select
  <2>1. MapTypeOK'
    BY <2>0 DEF MapTypeOK, Place
  <2>2. Pressed' /\ Held'
    BY DEF Pressed, Held
  <2>3. IdleIsCurrent'
    BY SamePicture DEF IdleIsCurrent
  <2>4. QED
    BY <2>1, <2>2, <2>3
<1>4. QED
  BY <1>1, <1>2, <1>3, TopicsAssumption

(* A frame is drawn, a timer runs, or something changes that is no part of a gesture. *)
LEMMA OthersKeepInv ==
  ASSUME MapInv,
         \/ frame \/ ResetMoved \/ ResetView \/ ReleaseElsewhere
         \/ \E t \in Topic \cup {NoTopic} : PointAt(t)
         \/ \E z \in {-1, 1} : Wheel(z)
         \/ \E t \in Topic : ChosenElsewhere(t)
  PROVE  MapInv'
<1> USE DEF MapInv, gesture
<1>1. CASE frame
  <2> USE <1>1 DEF frame
  <2>1. MapTypeOK' /\ Pressed' /\ Held'
    BY PictureType DEF MapTypeOK, Pressed, Held
  <2>2. IdleIsCurrent'
    BY SamePicture DEF IdleIsCurrent
  <2>3. QED
    BY <2>1, <2>2
<1>2. CASE ResetMoved
  <2> USE <1>2 DEF ResetMoved
  <2>1. MapTypeOK' /\ Pressed' /\ Held'
    BY NumbersAssumption DEF MapTypeOK, Pressed, Held
  <2>2. IdleIsCurrent'
    BY SamePicture DEF IdleIsCurrent
  <2>3. QED
    BY <2>1, <2>2
<1>3. CASE ResetView
  BY <1>3, HomeIsCamera DEF ResetView, MapTypeOK, Pressed, Held, IdleIsCurrent
<1>4. CASE ReleaseElsewhere
  <2>0. timers' \in 0..MaxTimers
    BY <1>4, OneMoreTimer DEF ReleaseElsewhere, MapTypeOK
  <2> USE <1>4 DEF ReleaseElsewhere, endDrag
  <2>1. MapTypeOK' /\ Pressed' /\ Held'
    BY <2>0 DEF MapTypeOK, Pressed, Held
  <2>2. IdleIsCurrent'
    BY SamePicture DEF IdleIsCurrent
  <2>3. QED
    BY <2>1, <2>2
<1>5. ASSUME NEW t \in Topic \cup {NoTopic}, PointAt(t)
      PROVE  MapInv'
  BY <1>5 DEF PointAt, MapTypeOK, Pressed, Held, IdleIsCurrent
<1>6. ASSUME NEW z \in {-1, 1}, Wheel(z)
      PROVE  MapInv'
  <2>1. cam' \in Camera
    <3>1. cam \in Camera /\ cam.zoom + z \in Int
      BY NumbersAssumption DEF MapTypeOK, Camera
    <3>2. [cam EXCEPT !.zoom = Limit(cam.zoom + z, 1, MaxZoom)] \in Camera
      BY <3>1, ZoomedCamera
    <3>3. QED
      BY <1>6, <3>2 DEF Wheel
  <2>2. QED
    BY <1>6, <2>1 DEF Wheel, MapTypeOK, Pressed, Held, IdleIsCurrent
<1>7. ASSUME NEW t \in Topic, ChosenElsewhere(t)
      PROVE  MapInv'
  BY <1>7 DEF ChosenElsewhere, Select, MapTypeOK, Pressed, Held, IdleIsCurrent
<1>8. QED
  BY <1>1, <1>2, <1>3, <1>4, <1>5, <1>6, <1>7

(* Fingers come, move, go, or are taken away; a tap is turned into mouse events. *)
LEMMA TouchKeepsInv ==
  ASSUME MapInv, TouchStep \/ \E t \in Topic : Tap(t)
  PROVE  MapInv'
<1> USE DEF MapInv
<1>1. ASSUME NEW t \in Topic \cup {NoTopic}, TouchStart(t)
      PROVE  MapInv'
  <2>0. fingers' \in 0..2 /\ movedBy' \in 0..(CLICK_SLOP + 1)
    BY <1>1, NumbersAssumption DEF TouchStart, startDrag, MapTypeOK
  <2> USE <1>1 DEF TouchStart, startDrag
  <2>1. MapTypeOK'
    BY <2>0 DEF MapTypeOK, Place
  <2>2. Pressed' /\ Held'
    BY DEF Pressed, Held, MapTypeOK
  <2>3. IdleIsCurrent'
    BY SamePicture DEF IdleIsCurrent
  <2>4. QED
    BY <2>1, <2>2, <2>3
<1>2. ASSUME NEW z \in 1..MaxZoom, TouchPinch(z)
      PROVE  MapInv'
  <2>1. cam' \in Camera
    <3>1. cam \in Camera /\ z \in Int
      BY DEF MapTypeOK
    <3>2. [cam EXCEPT !.zoom = Limit(z, 1, MaxZoom)] \in Camera
      BY <3>1, ZoomedCamera
    <3>3. QED
      BY <1>2, <3>2 DEF TouchPinch
  <2>2. QED
    BY <1>2, <2>1 DEF TouchPinch, gesture, MapTypeOK, Pressed, Held, IdleIsCurrent
<1>3. ASSUME NEW dx \in Steps, NEW dy \in Steps, TouchDrag(dx, dy)
      PROVE  MapInv'
  <2>0. dx \in Int /\ dy \in Int
    BY NumbersAssumption
  <2> USE <1>3 DEF TouchDrag
  <2>1. movedBy' \in 0..(CLICK_SLOP + 1)
    BY <2>0, MovedFarther DEF MapTypeOK, Drag
  <2>2. cam' \in Camera
    BY <2>0, TurnedCamera DEF MapTypeOK, Drag
  <2>3. MapTypeOK'
    BY <2>1, <2>2 DEF MapTypeOK, Drag, Place
  <2>4. Pressed' /\ Held'
    BY DEF Pressed, Held
  <2>5. IdleIsCurrent'
    BY SamePicture DEF IdleIsCurrent, Drag
  <2>6. QED
    BY <2>3, <2>4, <2>5
<1>4. CASE TouchEnd \/ TouchCancel
  <2>0. fingers' \in 0..2 /\ timers' \in 0..MaxTimers
    BY <1>4, OneMoreTimer DEF TouchEnd, TouchCancel, MapTypeOK
  <2> USE <1>4 DEF TouchEnd, TouchCancel, endDrag
  <2>1. MapTypeOK'
    BY <2>0 DEF MapTypeOK, Place
  <2>2. Pressed' /\ Held'
    BY DEF Pressed, Held, MapTypeOK
  <2>3. IdleIsCurrent'
    BY SamePicture DEF IdleIsCurrent
  <2>4. QED
    BY <2>1, <2>2, <2>3
<1>5. ASSUME NEW t \in Topic, TapBeside \/ Tap(t)
      PROVE  MapInv'
  <2>0. timers' \in 0..MaxTimers /\ 0 \in 0..(CLICK_SLOP + 1)
    BY <1>5, OneMoreTimer, NumbersAssumption DEF TapBeside, Tap, EmulateMouse, MapTypeOK
  <2> USE <1>5 DEF TapBeside, Tap, EmulateMouse, endDrag, Select
  <2>1. MapTypeOK'
    BY <2>0 DEF MapTypeOK, Place
  <2>2. Pressed' /\ Held'
    BY DEF Pressed, Held
  <2>3. IdleIsCurrent'
    BY SamePicture DEF IdleIsCurrent
  <2>4. QED
    BY <2>1, <2>2, <2>3
<1>6. QED
  BY <1>1, <1>2, <1>3, <1>4, <1>5, TopicsAssumption DEF TouchStep

LEMMA MapKeepsInv == MapInv /\ [MapNext]_mapVars => MapInv'
<1> SUFFICES ASSUME MapInv, [MapNext]_mapVars PROVE MapInv'
  OBVIOUS
<1>1. CASE MapNext
  BY <1>1, MouseKeepsInv, OthersKeepInv, TouchKeepsInv
  DEF MapNext, MapStep, MouseStep, TouchStep, Choose
<1>2. CASE UNCHANGED mapVars
  BY <1>2, SamePicture
  DEF mapVars, gesture, MapInv, MapTypeOK, Pressed, Held, IdleIsCurrent
<1>3. QED
  BY <1>1, <1>2

LEMMA MapInvHolds == MapSpec => []MapInv
<1>1. QED
  BY MapInitially, MapKeepsInv, PTL DEF MapSpec

----------------------------------------------------------------------------
(* Only a release over the map ends a press. *)
LEMMA EndsOfPress ==
  ASSUME MapInv, [MapNext]_mapVars, press # Nowhere, press' = Nowhere
  PROVE  MouseUp \/ \E t \in Topic : Click(t)
<1> USE NowhereAssumption DEF MapInv, Pressed, mapVars, gesture
<1>1. press' # press
  OBVIOUS
<1>2. ~(UNCHANGED mapVars)
  BY <1>1
<1>3. ~(frame \/ ResetMoved \/ ResetView \/ ReleaseElsewhere \/ MouseDown)
  BY <1>1 DEF frame, ResetMoved, ResetView, ReleaseElsewhere, MouseDown
<1>4. /\ ~ \E t \in Topic \cup {NoTopic} : PointAt(t)
      /\ ~ \E z \in {-1, 1} : Wheel(z)
      /\ ~ \E t \in Topic : ChosenElsewhere(t)
      /\ ~ \E dx, dy \in Steps : MouseMove(dx, dy)
  BY <1>1 DEF PointAt, Wheel, ChosenElsewhere, MouseMove
<1>5. ~TouchStep /\ ~ \E t \in Topic : Tap(t)
  BY <1>1
  DEF TouchStep, TouchStart, TouchPinch, TouchDrag, TouchEnd, TouchCancel, TapBeside, Tap,
      EmulateMouse
<1>6. QED
  BY <1>2, <1>3, <1>4, <1>5 DEF MapNext, MapStep, MouseStep, Choose

LEMMA SteadyStep ==
  ASSUME MapInv, [MapNext]_mapVars, Release, OverSameDisc, travel <= CLICK_SLOP
  PROVE  selected' = press
<1>1. press # Nowhere /\ press' = Nowhere
  BY DEF Release
<1>2. movedBy <= CLICK_SLOP
  BY <1>1, NumbersAssumption DEF MapInv, MapTypeOK, Pressed
<1>3. ~MouseUp
  BY <1>2 DEF MouseUp
<1>4. PICK t \in Topic : Click(t)
  BY <1>1, <1>3, EndsOfPress
<1>5. QED
  BY <1>4 DEF Click, OverSameDisc, Select

LEMMA ClickStep ==
  ASSUME MapInv, NEW t \in Topic, Click(t)
  PROVE  travel <= CLICK_SLOP \/ raced
<1>1. press # Nowhere /\ movedBy <= CLICK_SLOP
  BY DEF Click, Release
<1>2. QED
  BY <1>1 DEF MapInv, Pressed

LEMMA TurnStep ==
  ASSUME MapInv, [MapNext]_mapVars, cam'.yaw # cam.yaw \/ cam'.pitch # cam.pitch
  PROVE  press # Nowhere \/ fingers > 0 \/ cam' = Home \/ cancelled
<1> SUFFICES ASSUME cam' # Home PROVE dragFrom
  BY DEF MapInv, Held
<1>1. cam' # cam
  OBVIOUS
<1>2. ~(UNCHANGED mapVars)
  BY <1>1 DEF mapVars
<1>3. ~(frame \/ ResetMoved \/ ResetView \/ ReleaseElsewhere \/ MouseDown \/ MouseUp)
  BY <1>1
  DEF frame, ResetMoved, ResetView, ReleaseElsewhere, MouseDown, MouseUp, Release
<1>4. /\ ~ \E t \in Topic \cup {NoTopic} : PointAt(t)
      /\ ~ \E t \in Topic : ChosenElsewhere(t) \/ Click(t) \/ Tap(t)
      /\ ~ \E t \in Topic \cup {NoTopic} : TouchStart(t)
      /\ ~(TouchEnd \/ TouchCancel \/ TapBeside)
  BY <1>1
  DEF PointAt, ChosenElsewhere, Click, Release, Tap, TouchStart, TouchEnd, TouchCancel,
      TapBeside, EmulateMouse
<1>5. cam \in Camera
  BY DEF MapInv, MapTypeOK
<1>6. /\ ~ \E z \in {-1, 1} : Wheel(z)
      /\ ~ \E z \in 1..MaxZoom : TouchPinch(z)
  BY <1>5 DEF Wheel, TouchPinch, Camera
<1>7. (\E dx, dy \in Steps : MouseMove(dx, dy) \/ TouchDrag(dx, dy)) => dragFrom
  BY <1>1 DEF MouseMove, TouchDrag, Drag
<1>8. QED
  BY <1>2, <1>3, <1>4, <1>6, <1>7 DEF MapNext, MapStep, MouseStep, TouchStep, Choose

----------------------------------------------------------------------------
(* The map's variables keep their types: the camera stays within its limits, and what *)
(* is drawn is a picture of this map.                                                 *)
THEOREM MapTypeCorrect == MapSpec => []MapTypeOK
<1>1. MapInv => MapTypeOK
  BY DEF MapInv
<1>2. QED
  BY <1>1, MapInvHolds, PTL

(* The frame loop may skip a frame whenever nothing asks for one: what is on the screen *)
(* is then the map as it is.                                                            *)
THEOREM NothingUnseen == MapSpec => []IdleIsCurrent
<1>1. MapInv => IdleIsCurrent
  BY DEF MapInv
<1>2. QED
  BY <1>1, MapInvHolds, PTL

(* No timer, drag or touch of before takes away a click that has not moved. *)
THEOREM SteadyClicks == MapSpec => SteadyClickCounts
<1>1. MapInv /\ [MapNext]_mapVars
        => [Release /\ OverSameDisc /\ travel <= CLICK_SLOP => selected' = press]_mapVars
  BY SteadyStep
<1>2. QED
  BY <1>1, MapInvHolds, PTL DEF MapSpec, SteadyClickCounts

(* A drag is no click, unless a timer was outstanding when it began. *)
THEOREM DragsSelectNothing == MapSpec => DragIsNotClick
<1>1. MapInv => [\A t \in Topic : Click(t) => travel <= CLICK_SLOP \/ raced]_mapVars
  BY ClickStep
<1>2. QED
  BY <1>1, MapInvHolds, PTL DEF DragIsNotClick

(* The map turns under a hand, to where it started, or after a touch that the browser *)
(* has taken away.                                                                    *)
THEOREM TurnsUnderAHand == MapSpec => TurnsOnlyWhenHeld
<1>1. MapInv /\ [MapNext]_mapVars
        => [cam'.yaw # cam.yaw \/ cam'.pitch # cam.pitch =>
              press # Nowhere \/ fingers > 0 \/ cam' = Home \/ cancelled]_mapVars
  BY TurnStep
<1>2. QED
  BY <1>1, MapInvHolds, PTL DEF MapSpec, TurnsOnlyWhenHeld
=============================================================================
