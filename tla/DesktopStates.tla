---------------------------- MODULE DesktopStates ----------------------------
(***************************************************************************)
(* The states, transitions and events of the phone's desktop, as           *)
(* IPhoneDesktopController::createStates and the createChildStates of its  *)
(* composite states build them (HAVE_PAGESCROLL defined): values for the   *)
(* constants of StateMachine.                                              *)
(*                                                                         *)
(* A recogniser that looks at positions, times and speeds (a click, a      *)
(* hover, a collision) either accepts or refuses an event of the right     *)
(* type; a plain event or signal transition always accepts its event.      *)
(***************************************************************************)
EXTENDS Naturals, Sequences, FiniteSets

DRoot == "root"
DNone == "none"

DParent ==
  [Normal |-> DRoot, App |-> DRoot, Shifting |-> DRoot, Shaking |-> DRoot,
   Draging |-> "Shifting", Inertia |-> "Shifting",
   Pickedup |-> "Shaking", Putdown |-> "Shaking",
   ShakingAndScrolling |-> "Shaking",
   PickedNormal |-> "Pickedup", Transposition |-> "Pickedup",
   PageTurning |-> "Pickedup",
   ShakeDraging |-> "ShakingAndScrolling",
   ShakeInertia |-> "ShakingAndScrolling"]

DState == DOMAIN DParent \cup {DRoot}

\* A state and its ancestors: the tree is at most three levels deep.
DChain ==
  LET up(S) == S \cup {DParent[s] : s \in S \ {DRoot}}
  IN [s \in DState |-> up(up(up({s})))]

DInitial ==
  [s \in DState |->
     CASE s = DRoot -> "Normal"
       [] s = "Shifting" -> "Draging"
       [] s = "Shaking" -> "Pickedup"
       [] s = "Pickedup" -> "PickedNormal"
       [] s = "ShakingAndScrolling" -> "ShakeDraging"
       [] OTHER -> DNone]

\* The transitions of each state, in the order the constructors add them.
DTable ==
  [s \in DState |->
     CASE s = "Normal" -> <<"click", "appStart", "standStill", "shift">>
       [] s = "App" -> <<"appQuit">>
       [] s = "Shaking" -> <<"stopShaking", "escape">>
       [] s = "Draging" -> <<"drag", "filterClick", "fling", "settle">>
       [] s = "Inertia" -> <<"flingEnd", "flingStop">>
       [] s = "Pickedup" -> <<"carry", "putDown">>
       [] s = "Putdown" -> <<"pickUp", "shakeShift">>
       [] s = "ShakingAndScrolling" -> <<"shakeShiftEnd">>
       [] s = "PickedNormal" -> <<"collide", "hoverRight", "hoverLeft">>
       [] s = "Transposition" -> <<"transposed">>
       [] s = "PageTurning" -> <<"pageTurned">>
       [] s = "ShakeDraging" -> <<"shakeDrag", "shakeFling", "shakeSettle">>
       [] s = "ShakeInertia" -> <<"shakeFlingEnd", "shakeFlingStop">>
       [] OTHER -> <<>>]

DTarget ==
  [click |-> DNone, appStart |-> "App", standStill |-> "Shaking",
   shift |-> "Shifting", appQuit |-> "Normal",
   stopShaking |-> "Normal", escape |-> "Normal",
   drag |-> DNone, filterClick |-> "App", fling |-> "Inertia",
   settle |-> "Normal", flingEnd |-> "Normal", flingStop |-> "Draging",
   putDown |-> "Putdown", carry |-> DNone,
   pickUp |-> "Pickedup", shakeShift |-> "ShakingAndScrolling",
   shakeShiftEnd |-> "Putdown",
   collide |-> "Transposition", hoverRight |-> "PageTurning",
   hoverLeft |-> "PageTurning",
   transposed |-> "PickedNormal", pageTurned |-> "PickedNormal",
   shakeDrag |-> DNone, shakeFling |-> "ShakeInertia",
   shakeSettle |-> "Putdown",
   shakeFlingEnd |-> "Putdown", shakeFlingStop |-> "ShakeDraging"]

DTransition == DOMAIN DTarget

\* The events the window procedure, the animations, the activity's callbacks
\* and the toolbar produce (key stands for the released escape key).
DEvent ==
  {"press", "release", "move", "timer", "key", "appStart", "appQuit",
   "stopShaking", "flingDone", "shakeFlingDone", "itemsMoved", "pageMoved"}

\* Transitions that take every event of the kind they listen to.
DMustFire ==
  {<<"move", "click">>, <<"appStart", "appStart">>, <<"move", "shift">>,
   <<"appQuit", "appQuit">>, <<"stopShaking", "stopShaking">>,
   <<"key", "escape">>, <<"move", "drag">>, <<"press", "flingStop">>,
   <<"release", "putDown">>, <<"move", "carry">>, <<"move", "shakeShift">>,
   <<"release", "shakeShiftEnd">>, <<"move", "shakeDrag">>,
   <<"press", "shakeFlingStop">>,
   <<"flingDone", "flingEnd">>, <<"shakeFlingDone", "shakeFlingEnd">>}

\* Recognisers that also look at where, when and how fast.  A finished signal
\* of an animation the transition is no longer bound to is refused.
DMayFire ==
  DMustFire \cup
  {<<"release", "click">>, <<"timer", "standStill">>,
   <<"release", "filterClick">>, <<"release", "fling">>,
   <<"release", "settle">>, <<"press", "pickUp">>,
   <<"timer", "collide">>, <<"timer", "hoverRight">>,
   <<"timer", "hoverLeft">>,
   <<"itemsMoved", "transposed">>, <<"pageMoved", "pageTurned">>,
   <<"release", "shakeFling">>, <<"release", "shakeSettle">>}

\* TryStopShaking hands its signal to processEvent itself.
DDirectEvents == {"stopShaking"}

\* onLeave of these states waits for the state's animation.
DPumpOnLeave == {"Transposition", "PageTurning"}

\* A click pushes an activity (which animates the switch); a press during a
\* fling waits for the fling to end.
DPumpOnAction ==
  {<<"release", "click">>, <<"release", "filterClick">>,
   <<"press", "flingStop">>, <<"press", "shakeFlingStop">>}
=============================================================================
