----------------------------- MODULE ActivityStack -----------------------------
(***************************************************************************)
(* The stack of activities (the screens of the phone) of                   *)
(* common/ActivityStack.cc, with any client.                               *)
(*                                                                         *)
(* push(), pop() and popTo() are calls of the one GUI thread, but they are *)
(* not atomic: the switch effect, and the animation that the desktop plays *)
(* in its own onPause and onResume, run a nested message loop.  What that  *)
(* loop dispatches happens in the middle of the operation, while its       *)
(* locals `prev' and `next' hold pointers.  m_status is what keeps a       *)
(* second operation out; nothing keeps MSG_CLOSE out.                      *)
(*                                                                         *)
(* An activity stands for an instance: its address may be used again once  *)
(* its window is destroyed.                                                *)
(***************************************************************************)
EXTENDS Integers, Sequences

CONSTANTS
  Activity,     \* the activities that can be created
  NoActivity,   \* the NULL pointer
  Name,         \* the name an activity was created by
  Animates,     \* those that animate in onPause and onResume (the desktop)
  ClosesItself, \* those with a button that closes their own window
  MaxNest       \* bound on operations under way at the same time

ASSUME ActivityAssumption ==
  /\ NoActivity \notin Activity
  /\ DOMAIN Name = Activity
  /\ Animates \subseteq Activity
  /\ ClosesItself \subseteq Activity
  /\ MaxNest \in Nat \ {0}

VARIABLES
  stack,    \* m_activities, the top at the end
  status,   \* m_status
  calls,    \* the operations under way, the innermost at the end
  called,   \* the last life-cycle callback each activity received
  windows,  \* the activities whose window exists
  shown,    \* the windows that are shown
  closing   \* the windows with a MSG_CLOSE on its way

vars == <<stack, status, calls, called, windows, shown, closing>>

-----------------------------------------------------------------------------
(* Operations under way. *)

\* The locals of one operation.  step: in the switch effect, or in onPause of
\* `from' (push) or onResume of `to' (pop, popTo).
Call ==
  [op : {"push", "pop", "popTo"}, step : {"effect", "callback"},
   from : Activity \cup {NoActivity}, to : Activity \cup {NoActivity}]

Callbacks == {"none", "onStart", "onPause", "onResume", "onStop"}

OnStack == {stack[i] : i \in DOMAIN stack}

Top == IF stack = <<>> THEN NoActivity ELSE stack[Len(stack)]

UnderTop == IF Len(stack) < 2 THEN NoActivity ELSE stack[Len(stack) - 1]

TopCall == calls[Len(calls)]

CallersOf == SubSeq(calls, 1, Len(calls) - 1)

\* needSwitchEffect(): always, but for a desktop that is up: it clears the flag
\* in show() and sets it again in onStart and onStop.
NeedsEffect(a) ==
  a \in Animates =>
    called[a] = "onStop" \/ (called[a] = "onStart" /\ a \notin shown)

\* The innermost operation is in a nested message loop.
Pumping ==
  /\ calls # <<>>
  /\ \/ /\ TopCall.step = "effect"
        /\ NeedsEffect(TopCall.from) /\ NeedsEffect(TopCall.to)
     \/ /\ TopCall.step = "callback"
        /\ TopCall.op = "push" => TopCall.from \in Animates
        /\ TopCall.op # "push" => TopCall.to \in Animates

InMessageLoop == calls = <<>> \/ Pumping

\* An operation begins between two activities (the effect is skipped when one
\* of them is missing).
Begin(op, from, to) ==
  /\ Len(calls) < MaxNest
  /\ calls' = Append(calls,
       [op |-> op, from |-> from, to |-> to,
        step |-> IF NoActivity \in {from, to} THEN "callback" ELSE "effect"])

-----------------------------------------------------------------------------
(* The operations, up to their switch effect. *)

Init ==
  /\ stack = <<>> /\ status = "READY" /\ calls = <<>>
  /\ called = [a \in Activity |-> "none"]
  /\ windows = {} /\ shown = {} /\ closing = {}

\* A variant of push() without the test of m_status.
PushUnguarded(a) ==
  /\ InMessageLoop
  /\ a \notin windows \cup OnStack
  /\ Begin("push", Top, a)
  /\ status' = "PUSH"
  /\ stack' = Append(stack, a)
  /\ called' = [called EXCEPT ![a] = "onStart"]
  /\ windows' = windows \cup {a}
  /\ UNCHANGED <<shown, closing>>

\* push(): the new activity is created, pushed, hidden and started.
Push(a) ==
  /\ InMessageLoop
  /\ status = "READY"
  /\ a \notin windows \cup OnStack
  /\ Begin("push", Top, a)
  /\ status' = "PUSH"
  /\ stack' = Append(stack, a)
  /\ called' = [called EXCEPT ![a] = "onStart"]
  /\ windows' = windows \cup {a}
  /\ UNCHANGED <<shown, closing>>

\* A variant that sends MSG_CLOSE before the effect.
PopClosesFirst ==
  /\ InMessageLoop
  /\ status = "READY"
  /\ stack # <<>>
  /\ Begin("pop", Top, UnderTop)
  /\ status' = "POP"
  /\ called' = [called EXCEPT ![Top] = "onStop"]
  /\ closing' = closing \cup {Top}
  /\ UNCHANGED <<stack, windows, shown>>

\* pop(), also reached through back(): the top activity is stopped.
Pop ==
  /\ InMessageLoop
  /\ status = "READY"
  /\ stack # <<>>
  /\ Begin("pop", Top, UnderTop)
  /\ status' = "POP"
  /\ called' = [called EXCEPT ![Top] = "onStop"]
  /\ UNCHANGED <<stack, windows, shown, closing>>

\* A variant that also switches from the top activity to itself.
PopToAny(which) ==
  /\ InMessageLoop
  /\ status = "READY"
  /\ which \in OnStack
  /\ Begin("popTo", Top, which)
  /\ status' = "POP"
  /\ called' = [called EXCEPT ![Top] = "onStop"]
  /\ UNCHANGED <<stack, windows, shown, closing>>

\* popTo(): only the top activity is stopped; for the top itself nothing is
\* done (not even its intent is delivered).
PopTo(which) ==
  /\ InMessageLoop
  /\ status = "READY"
  /\ which \in OnStack /\ which # Top
  /\ Begin("popTo", Top, which)
  /\ status' = "POP"
  /\ called' = [called EXCEPT ![Top] = "onStop"]
  /\ UNCHANGED <<stack, windows, shown, closing>>

\* The places of the stack with an activity of this name.
Places(n) == {i \in DOMAIN stack : Name[stack[i]] = n}

\* searchActivityByName(): from m_activities.begin() on.
Search(n) ==
  IF Places(n) = {} THEN NoActivity
  ELSE stack[CHOOSE i \in Places(n) : \A j \in Places(n) : i <= j]

\* switchTo(), also reached through home() with the desktop's name.
SwitchTo(n) ==
  \/ /\ Search(n) = NoActivity
     /\ \E a \in Activity : Name[a] = n /\ Push(a)
  \/ /\ Search(n) # NoActivity
     /\ PopTo(Search(n))

-----------------------------------------------------------------------------
(* The rest of the operations. *)

\* The window of an activity, if there is one: MiniGUI refuses the handle of a
\* window that was destroyed.
Window(a) == {a} \cap windows

\* The switch effect is over: onPause of the covered activity, or onResume of
\* the uncovered one.  A desktop that is resumed puts its own window up first.
EffectEnds ==
  /\ calls # <<>> /\ TopCall.step = "effect"
  /\ calls' = Append(CallersOf, [TopCall EXCEPT !.step = "callback"])
  /\ IF TopCall.op = "push"
     THEN /\ called' = [called EXCEPT ![TopCall.from] = "onPause"]
          /\ UNCHANGED shown
     ELSE /\ called' = [called EXCEPT ![TopCall.to] = "onResume"]
          /\ shown' = IF TopCall.to \in Animates
                      THEN (shown \cup Window(TopCall.to)) \ {Top}
                      ELSE shown
  /\ UNCHANGED <<stack, status, windows, closing>>

\* The operation returns and m_status is READY again.
Returns(op) ==
  /\ calls # <<>> /\ TopCall.step = "callback" /\ TopCall.op = op
  /\ calls' = CallersOf
  /\ status' = "READY"

\* MSG_CLOSE to the windows of S.
CloseAll(S) == closing' = closing \cup (S \cap windows)

\* A variant that leaves the covered window up.
PushEndsKeepsPrev ==
  /\ Returns("push")
  /\ shown' = shown \cup Window(TopCall.to)
  /\ UNCHANGED <<stack, called, windows, closing>>

\* innerPush() ends: the new window is shown and the covered one hidden.
PushEnds ==
  /\ Returns("push")
  /\ shown' = (shown \cup Window(TopCall.to)) \ {TopCall.from}
  /\ UNCHANGED <<stack, called, windows, closing>>

\* A variant that forgets to set m_status back.
PopEndsKeepsStatus ==
  /\ calls # <<>> /\ TopCall.step = "callback" /\ TopCall.op = "pop"
  /\ calls' = CallersOf
  /\ shown' = shown \cup Window(TopCall.to)
  /\ stack' = SubSeq(stack, 1, Len(stack) - 1)
  /\ CloseAll({TopCall.from})
  /\ UNCHANGED <<status, called, windows>>

\* innerPop() ends: the uncovered window is shown, the top entry removed, and
\* MSG_CLOSE sent to the activity that was on top when the call began.
PopEnds ==
  /\ Returns("pop")
  /\ shown' = shown \cup Window(TopCall.to)
  /\ stack' = SubSeq(stack, 1, Len(stack) - 1)
  /\ CloseAll({TopCall.from})
  /\ UNCHANGED <<called, windows>>

\* How much of the stack is left once everything above an activity is removed.
Kept(which) ==
  CHOOSE n \in 0 .. Len(stack) :
    /\ n # 0 => stack[n] = which
    /\ \A i \in n + 1 .. Len(stack) : stack[i] # which

Above(which) == {stack[i] : i \in Kept(which) + 1 .. Len(stack)}

\* A variant that closes the window of the top activity only.
PopToEndsClosesTop ==
  /\ Returns("popTo")
  /\ shown' = shown \cup Window(TopCall.to)
  /\ stack' = SubSeq(stack, 1, Kept(TopCall.to))
  /\ CloseAll({Top})
  /\ UNCHANGED <<called, windows>>

\* A variant that keeps the entries between the two activities.
PopToEndsKeepsMiddle ==
  /\ Returns("popTo")
  /\ shown' = shown \cup Window(TopCall.to)
  /\ stack' = SubSeq(stack, 1, Len(stack) - 1)
  /\ CloseAll({Top})
  /\ UNCHANGED <<called, windows>>

\* popTo() ends: everything above `which' is removed and told to close.
PopToEnds ==
  /\ Returns("popTo")
  /\ shown' = shown \cup Window(TopCall.to)
  /\ stack' = SubSeq(stack, 1, Kept(TopCall.to))
  /\ CloseAll(Above(TopCall.to))
  /\ UNCHANGED <<called, windows>>

\* A variant that leaves the window listed as shown.
CloseWindowStaysShown(a) ==
  /\ InMessageLoop
  /\ a \in closing
  /\ closing' = closing \ {a}
  /\ windows' = windows \ {a}
  /\ UNCHANGED <<stack, status, calls, called, shown>>

\* A variant whose handler does not destroy the window.
CloseWindowIgnored(a) ==
  /\ InMessageLoop
  /\ a \in closing
  /\ closing' = closing \ {a}
  /\ UNCHANGED <<stack, status, calls, called, windows, shown>>

\* MSG_CLOSE is dispatched: the window is destroyed, and the activity deleted.
\* (If it is still on the stack, what the program does with it from then on is
\* undefined: here it goes on with the memory as it was; a crash would only cut
\* the behaviour short.)
CloseWindow(a) ==
  /\ InMessageLoop
  /\ a \in closing
  /\ closing' = closing \ {a}
  /\ windows' = windows \ {a}
  /\ shown' = shown \ {a}
  /\ UNCHANGED <<stack, status, calls, called>>

\* The Return button of the picture player, clicked while an operation is
\* under way: its pop() is refused, but it sends itself MSG_CLOSE anyhow.
ExitWhileBusy(a) ==
  /\ Pumping /\ status # "READY"
  /\ a \in ClosesItself \cap shown \cap windows
  /\ closing' = closing \cup {a}
  /\ UNCHANGED <<stack, status, calls, called, windows, shown>>

Step == EffectEnds \/ PushEnds \/ PopEnds \/ PopToEnds

Next ==
  \/ \E a \in Activity : Push(a)
  \/ Pop
  \/ \E n \in {Name[a] : a \in Activity} : SwitchTo(n)
  \/ Step
  \/ \E a \in Activity : CloseWindow(a) \/ ExitWhileBusy(a)

Spec == Init /\ [][Next]_vars

\* The GUI thread runs on and every animation ends; a message loop takes a
\* MSG_CLOSE that was sent before any input message.
Fairness == WF_vars(Step) /\ \A a \in Activity : SF_vars(CloseWindow(a))

FairSpec == Spec /\ Fairness

-----------------------------------------------------------------------------
(* Properties. *)

\* Every variable holds a value of its type.
TypeOK ==
  /\ stack \in Seq(Activity)
  /\ status \in {"READY", "PUSH", "POP"}
  /\ calls \in Seq(Call)
  /\ called \in [Activity -> Callbacks]
  /\ windows \subseteq Activity
  /\ shown \subseteq windows
  /\ closing \subseteq windows

\* The pointers an operation took when it began still say what they said, after
\* any number of nested message loops: `to' of a push is the top and `from' is
\* right under it; `from' of a pop is the top and `to' is right under it, or
\* (popTo) somewhere under it.  The pop_back at the end of innerPop relies on it.
PointersCurrent ==
  \A i \in DOMAIN calls :
    LET c == calls[i] IN
    CASE c.op = "push" -> c.to = Top /\ c.from = UnderTop
      [] c.op = "pop" -> c.from = Top /\ c.to = UnderTop
      [] c.op = "popTo" -> c.from = Top /\ c.to \in OnStack \ {Top}

\* The windows an operation or the stack still points to exist: nothing the
\* stack does lets MSG_CLOSE reach them first, whatever the nested loops
\* dispatch.  Only an activity that closes itself can break it.
HeldWindowsExist ==
  OnStack \ ClosesItself \subseteq windows

\* Every window that left the stack has its MSG_CLOSE on its way: none leaks.
NoOrphanWindow == windows \subseteq OnStack \cup closing

\* Between operations, the top activity was started or resumed last, and every
\* activity it covers was paused last (or has closed itself).
CoveredArePaused ==
  status = "READY" =>
    \A i \in DOMAIN stack :
      IF i = Len(stack)
      THEN called[stack[i]] \in {"onStart", "onResume"}
      ELSE called[stack[i]] = "onPause"

\* Between operations, of the activities on the stack only the top one is
\* shown (or none is, if it has closed itself).
OnlyTopShown == status = "READY" => shown \cap OnStack \subseteq {Top}

\* The order of the callbacks of one activity: it is paused and stopped only
\* while it is up, resumed only when paused, and started once per window.
CallbackOrder ==
  [][\A a \in Activity : called'[a] # called[a] =>
       CASE called'[a] = "onStart" -> a \notin windows
         [] called'[a] = "onPause" -> called[a] \in {"onStart", "onResume"}
         [] called'[a] = "onResume" -> called[a] = "onPause"
         [] called'[a] = "onStop" -> called[a] \in {"onStart", "onResume"}]_vars

\* Every operation ends: the stack takes requests again.
OperationsEnd == status # "READY" ~> status = "READY"

\* An activity that was told to close is destroyed.
ClosedAreDestroyed ==
  \A a \in Activity : a \in closing ~> a \notin windows

\* "Do the same thing as pop()" (the comment on popTo): an activity whose window
\* is told to close by the stack was stopped first.
StoppedBeforeClose ==
  \A a \in closing \ OnStack : called[a] = "onStop"

\* assert(IsMainWindow(currApp->hwnd())) in idleHandler, which any message loop
\* may call: the window of the top activity exists.
TopWindowExists == (InMessageLoop /\ stack # <<>>) => Top \in windows
=============================================================================
