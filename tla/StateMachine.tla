---------------------------- MODULE StateMachine ----------------------------
(***************************************************************************)
(* The hierarchical state machine of common/StateMachine.cc, for any tree  *)
(* of states and any table of transitions.                                 *)
(*                                                                         *)
(* There is one GUI thread.  Concurrency is re-entrancy: a callback        *)
(* (onLeave, a transition's action) that waits for an animation runs a     *)
(* nested message loop, and what that loop dispatches runs on top of the   *)
(* processEvent call that is still under way.  `frames[1 .. depth]' is the *)
(* C call stack of onEvent/processEvent; only the top frame moves, and new *)
(* calls are made only by the main message loop (depth = 0) or by the      *)
(* nested loop of a top frame that pumps messages.                         *)
(***************************************************************************)
EXTENDS Integers, Sequences, StateTree

CONSTANTS
  Transition, NoTransition, \* the transitions, the NULL transition pointer
  Table,                    \* m_transitions of each state, in test order
  Target,                   \* m_target, NoState for a targetless transition
  Event, NoEvent,           \* the events that can be posted or processed
  MayFire,                  \* <<e, t>> : eventTest of t can accept e
  MustFire,                 \* <<e, t>> : eventTest of t always accepts e
  DirectEvents,             \* events handed to processEvent by a caller
  PumpOnLeave,              \* states whose onLeave runs a message loop
  PumpOnAction,             \* <<e, t>> : t's action on e runs a message loop
  MaxQueue,                 \* bound on queued events and pending notices
  MaxNest                   \* bound on the depth of nested calls

\* No transition leads to the root: every target in the code is a State the
\* client created.
TableAssumption ==
  /\ NoTransition \notin Transition
  /\ Table \in [State -> Seq(Transition)]
  /\ Target \in [Transition -> (State \ {Root}) \cup {NoState}]

EventAssumption ==
  /\ NoEvent \notin Event
  /\ MustFire \subseteq MayFire
  /\ MayFire \subseteq Event \X Transition
  /\ DirectEvents \subseteq Event
  /\ PumpOnLeave \subseteq State
  /\ PumpOnAction \subseteq MayFire
  /\ MaxQueue \in Nat \ {0}
  /\ MaxNest \in Nat \ {0}

ASSUME StateMachineAssumption ==
  TreeAssumption /\ TableAssumption /\ EventAssumption

VARIABLES
  status,   \* m_status
  events,   \* m_events
  notices,  \* MSG_USER_STATEMACHINE_EVENT messages not dispatched yet
  current,  \* m_currentState (NoState: not assigned yet)
  entered,  \* the states whose m_entered is true
  depth,    \* number of onEvent/processEvent activations on the call stack
  frames,   \* the activations, frames[depth] on top
  failed    \* which assertion aborted the program, "none" while none did

vars == <<status, events, notices, current, entered, depth, frames, failed>>

-----------------------------------------------------------------------------
(* Activations. *)

Phases == {"loop", "scan", "leave", "enter"}

\* The locals of one activation.  `drains': it is an onEvent loop.
\* from: m_currentState when the walk began; host, index: the transition
\* tested next; toLeave, toEnter: the rest of the two lists; target: the state
\* being jumped to; pump: the callback just called runs a nested message loop.
Frame ==
  [drains : BOOLEAN, event : Event \cup {NoEvent}, phase : Phases,
   from : State, host : State, index : Nat \ {0},
   target : State, toLeave : SUBSET State, toEnter : SUBSET State,
   pump : BOOLEAN]

\* A call that begins in phase p at state s, with the states T to enter.
Activation(drains, e, p, s, T) ==
  [drains |-> drains, event |-> e, phase |-> p,
   from |-> s, host |-> s, index |-> 1,
   target |-> Root, toLeave |-> {}, toEnter |-> T, pump |-> FALSE]

NoFrame == Activation(FALSE, NoEvent, "loop", Root, {})

\* onEvent's loop, between two events.
Draining == Activation(TRUE, NoEvent, "loop", Root, {})

\* processEvent begins at the current state with its first transition.
Scanning(drains, e) == Activation(drains, e, "scan", current, {})

Top == IF depth > 0 THEN frames[depth] ELSE NoFrame

\* The GUI thread is inside a message loop: the main one or a nested one.
InMessageLoop ==
  /\ failed = "none" /\ status # "IDLE"
  /\ depth = 0 \/ Top.pump

\* The GUI thread is running the code of the top activation.
Running(phase) == failed = "none" /\ depth > 0 /\ ~Top.pump /\ Top.phase = phase

SetTop(f) == frames' = [frames EXCEPT ![depth] = f]

Push(f) ==
  /\ depth < MaxNest
  /\ depth' = depth + 1
  /\ frames' = [frames EXCEPT ![depth + 1] = f]

Pop ==
  /\ depth' = depth - 1
  /\ frames' = [frames EXCEPT ![depth] = NoFrame]

\* processEvent returns: to onEvent's while loop, or to a direct caller.
Return ==
  IF Top.drains
  THEN SetTop(Draining) /\ UNCHANGED depth
  ELSE Pop

-----------------------------------------------------------------------------
(* The operations. *)

Init ==
  /\ status = "IDLE" /\ events = <<>> /\ notices = 0
  /\ current = NoState /\ entered = {}
  /\ depth = 0 /\ frames = [i \in 1 .. MaxNest |-> NoFrame]
  /\ failed = "none"

\* start(): enters the root and follows the initial states.
Start ==
  /\ status = "IDLE"
  /\ status' = "RUNNING"
  /\ Push(Activation(FALSE, NoEvent, "enter", Root, {Root}))
  /\ UNCHANGED <<events, notices, current, entered, failed>>

\* postEvent(): queue it and send the window a notice.
PostEvent(e) ==
  /\ InMessageLoop
  /\ Len(events) < MaxQueue /\ notices < MaxQueue
  /\ events' = Append(events, e)
  /\ notices' = notices + 1
  /\ UNCHANGED <<status, current, entered, depth, frames, failed>>

\* A variant of onEvent without the test for PROCESSING.
OnEventUnguarded ==
  /\ InMessageLoop
  /\ notices > 0
  /\ notices' = notices - 1
  /\ status' = "PROCESSING" /\ Push(Draining)
  /\ UNCHANGED <<events, current, entered, failed>>

\* MSG_USER_STATEMACHINE_EVENT is dispatched: onEvent() returns at once while
\* an onEvent loop is active anywhere on the stack, else it starts a loop.
OnEvent ==
  /\ InMessageLoop
  /\ notices > 0
  /\ notices' = notices - 1
  /\ \/ /\ status = "PROCESSING"
        /\ UNCHANGED <<status, depth, frames>>
     \/ /\ status # "PROCESSING"
        /\ status' = "PROCESSING" /\ Push(Draining)
  /\ UNCHANGED <<events, current, entered, failed>>

\* A variant that handles the newest event first.
LoopTakeNewest ==
  /\ Running("loop")
  /\ events # <<>>
  /\ events' = SubSeq(events, 1, Len(events) - 1)
  /\ SetTop(Scanning(TRUE, events[Len(events)]))
  /\ UNCHANGED <<status, notices, current, entered, depth, failed>>

\* The body of onEvent's loop: the oldest event goes to processEvent.
LoopTake ==
  /\ Running("loop")
  /\ events # <<>>
  /\ events' = Tail(events)
  /\ SetTop(Scanning(TRUE, Head(events)))
  /\ UNCHANGED <<status, notices, current, entered, depth, failed>>

\* A variant that handles one event for each notice.
LoopEndAlways ==
  /\ Running("loop")
  /\ status' = "RUNNING"
  /\ Pop
  /\ UNCHANGED <<events, notices, current, entered, failed>>

\* A variant that never goes back to RUNNING.
LoopEndKeepsStatus ==
  /\ Running("loop")
  /\ events = <<>>
  /\ Pop
  /\ UNCHANGED <<status, events, notices, current, entered, failed>>

\* The queue is empty: onEvent returns.
LoopEnd ==
  /\ Running("loop")
  /\ events = <<>>
  /\ status' = "RUNNING"
  /\ Pop
  /\ UNCHANGED <<events, notices, current, entered, failed>>

\* A caller hands an event to processEvent itself (it is not guarded by
\* m_status); m_currentState is asserted to be set.
ProcessEvent(e) ==
  /\ InMessageLoop
  /\ current # NoState
  /\ Push(Scanning(FALSE, e))
  /\ UNCHANGED <<status, events, notices, current, entered, failed>>

-----------------------------------------------------------------------------
(* processEvent: looking for a transition. *)

Testing ==
  /\ Running("scan")
  /\ Top.host # Root
  /\ Top.index <= Len(Table[Top.host])

Tested == Table[Top.host][Top.index]

\* eventTest() refuses the event.
ScanMiss ==
  /\ Testing
  /\ <<Top.event, Tested>> \notin MustFire
  /\ SetTop([Top EXCEPT !.index = @ + 1])
  /\ UNCHANGED <<status, events, notices, current, entered, depth, failed>>

\* A targetless transition runs its action and the scan goes on.
ScanTargetless ==
  /\ Testing
  /\ <<Top.event, Tested>> \in MayFire
  /\ Target[Tested] = NoState
  /\ SetTop([Top EXCEPT !.index = @ + 1,
                        !.pump = <<Top.event, Tested>> \in PumpOnAction])
  /\ UNCHANGED <<status, events, notices, current, entered, depth, failed>>

\* A transition with a target: both paths follow from the tree.
ScanHit ==
  /\ Testing
  /\ <<Top.event, Tested>> \in MayFire
  /\ Target[Tested] # NoState
  /\ LET t == Target[Tested]
     IN SetTop([Top EXCEPT !.phase = "leave", !.target = t,
                           !.toLeave = LeavePath(Top.from, Top.host, t),
                           !.toEnter = EnterPath(Top.host, t)])
  /\ UNCHANGED <<status, events, notices, current, entered, depth, failed>>

\* A variant that tests the same state again.
ScanUpInPlace ==
  /\ Running("scan")
  /\ Top.host # Root
  /\ Top.index > Len(Table[Top.host])
  /\ SetTop([Top EXCEPT !.index = 1])
  /\ UNCHANGED <<status, events, notices, current, entered, depth, failed>>

\* No transition of this state takes the event: try its parent.
ScanUp ==
  /\ Running("scan")
  /\ Top.host # Root
  /\ Top.index > Len(Table[Top.host])
  /\ SetTop([Top EXCEPT !.host = Parent[Top.host], !.index = 1])
  /\ UNCHANGED <<status, events, notices, current, entered, depth, failed>>

\* The root is reached: the event is dropped.
ScanEnd ==
  /\ Running("scan")
  /\ Top.host = Root
  /\ Return
  /\ UNCHANGED <<status, events, notices, current, entered, failed>>

-----------------------------------------------------------------------------
(* processEvent: taking the transition. *)

\* leave() on the next state of the path; it asserts m_entered.
LeaveState(s) ==
  /\ Running("leave")
  /\ s \in Deepest(Top.toLeave)
  /\ SetTop([Top EXCEPT !.toLeave = @ \ {s}, !.pump = s \in PumpOnLeave])
  /\ entered' = entered \ {s}
  /\ failed' = IF s \in entered THEN "none" ELSE "releave"
  /\ UNCHANGED <<status, events, notices, current, depth>>

\* trans->action(): after every leave, before any enter.
TakeAction ==
  /\ Running("leave")
  /\ Top.toLeave = {}
  /\ SetTop([Top EXCEPT !.phase = "enter",
                        !.pump = <<Top.event, Tested>> \in PumpOnAction])
  /\ UNCHANGED <<status, events, notices, current, entered, depth, failed>>

\* enter(): asserts that the state is not entered.
Enters(s) ==
  /\ Running("enter")
  /\ s \in Highest(Top.toEnter)
  /\ entered' = entered \cup {s}
  /\ failed' = IF s \in entered THEN "renter" ELSE "none"

\* A state above the target is entered without following its initial state.
EnterAncestor(s) ==
  /\ Enters(s)
  /\ s # Top.target
  /\ SetTop([Top EXCEPT !.toEnter = @ \ {s}])
  /\ UNCHANGED <<status, events, notices, current, depth>>

\* A variant without the test for a missing initial state.
EnterAndJumpAlways(s) ==
  /\ Enters(s)
  /\ s = Top.target
  /\ SetTop([Top EXCEPT !.toEnter = {Initial[s]}, !.target = Initial[s]])
  /\ UNCHANGED <<status, events, notices, current, depth>>

\* The target, or an initial state reached from it, has an initial state.
EnterAndJump(s) ==
  /\ Enters(s)
  /\ s = Top.target
  /\ Initial[s] # NoState
  /\ SetTop([Top EXCEPT !.toEnter = {Initial[s]}, !.target = Initial[s]])
  /\ UNCHANGED <<status, events, notices, current, depth>>

\* A variant that does not follow the initial states.
EnterLeafAtTarget(s) ==
  /\ Enters(s)
  /\ s = Top.target
  /\ current' = s
  /\ Return
  /\ UNCHANGED <<status, events, notices>>

\* The jump ends in a leaf: only now is m_currentState assigned, and the call
\* returns (resetting the recognisers of the states that stayed entered).
EnterLeaf(s) ==
  /\ Enters(s)
  /\ s = Top.target
  /\ Initial[s] = NoState
  /\ current' = s
  /\ Return
  /\ UNCHANGED <<status, events, notices>>

\* The nested message loop of a callback ends and the callback returns.
CallbackReturns ==
  /\ failed = "none" /\ depth > 0 /\ Top.pump
  /\ SetTop([Top EXCEPT !.pump = FALSE])
  /\ UNCHANGED <<status, events, notices, current, entered, depth, failed>>

Step ==
  \/ LoopTake \/ LoopEnd
  \/ ScanMiss \/ ScanTargetless \/ ScanHit \/ ScanUp \/ ScanEnd
  \/ \E s \in State : LeaveState(s)
  \/ TakeAction
  \/ \E s \in State : EnterAncestor(s) \/ EnterAndJump(s) \/ EnterLeaf(s)

Next ==
  \/ Start
  \/ \E e \in Event \ DirectEvents : PostEvent(e)
  \/ OnEvent
  \/ \E e \in DirectEvents : ProcessEvent(e)
  \/ Step
  \/ CallbackReturns

Spec == Init /\ [][Next]_vars

\* The GUI thread keeps running the code it is in, the message loops dispatch
\* the notices they hold, and every animation a callback waits for ends.
Fairness == WF_vars(Step) /\ WF_vars(OnEvent) /\ WF_vars(CallbackReturns)

FairSpec == Spec /\ WF_vars(Start) /\ Fairness

-----------------------------------------------------------------------------
(* The abstract statechart. *)

\* The event that is being answered: that of the outermost processEvent.
Busy ==
  IF depth > 0 /\ frames[1].phase # "loop" THEN frames[1].event ELSE NoEvent

Chart ==
  INSTANCE Statechart WITH leaf <- current, pending <- events, busy <- Busy

\* The machine implements the statechart: queued events are answered in
\* order, one at a time, each by one transition of the current leaf.
ImplementsStatechart == Chart!Spec

-----------------------------------------------------------------------------
(* Properties. *)

\* Every variable holds a value of its type.
TypeOK ==
  /\ status \in {"IDLE", "RUNNING", "PROCESSING"}
  /\ events \in Seq(Event)
  /\ notices \in Nat
  /\ current \in State \cup {NoState}
  /\ entered \subseteq State
  /\ depth \in 0 .. MaxNest
  /\ frames \in [1 .. MaxNest -> Frame]
  /\ failed \in {"none", "releave", "renter"}

\* The assertions of State::enter and State::leave hold: no state is entered
\* twice or left twice.
NoAssertionFails == failed = "none"

\* At most one processEvent is under way: an event is handled to completion
\* before the next one is looked at.
RunToCompletion == depth <= 1

\* Between events, the entered states are exactly the current leaf and its
\* ancestors, although enter and leave only ever touch m_entered one by one.
ConfigurationOK ==
  (depth = 0 /\ status # "IDLE") =>
    /\ current \in State /\ Initial[current] = NoState
    /\ entered = Chain[current]

\* Also in the middle of a transition a state is entered only inside its
\* entered parent, and at most one child of a state is entered.
NestedConfiguration ==
  \A s, r \in entered \ {Root} :
    /\ Parent[s] \in entered
    /\ Parent[s] = Parent[r] => s = r

\* An event is never left in the queue with no notice on its way and no
\* onEvent loop on the call stack, although the nested loop of a callback
\* swallows the notices it dispatches.
NoStrandedEvent ==
  events # <<>> => notices > 0 \/ \E i \in 1 .. depth : frames[i].drains

\* Events are handed to processEvent as long as there are any: since only that
\* removes them and they leave in order, every posted event is handled.
QueueServed == []<>(events # <<>>) => []<><<LoopTake>>_vars

\* Every activation ends: the machine comes back to the message loop or to
\* the next event of the queue.
ActivationEnds ==
  (depth > 0 /\ Top.phase # "loop") ~> (depth = 0 \/ Top.phase = "loop")
=============================================================================
