----------------------------- MODULE Statechart -----------------------------
(***************************************************************************)
(* What the clients of common/StateMachine.cc rely on: a statechart that   *)
(* rests in one leaf, takes its events one at a time in the order they     *)
(* were posted, and answers each of them with at most one transition out   *)
(* of the leaf or of one of the leaf's ancestors.  While an event is being *)
(* answered nothing else is.                                               *)
(***************************************************************************)
EXTENDS Integers, Sequences

CONSTANTS
  State, Root, NoState, Parent, Chain, Initial,
  Transition, Table, Target, Event, NoEvent, MayFire, DirectEvents

VARIABLES
  leaf,     \* the current leaf, NoState before the machine is started
  pending,  \* the posted events, oldest first
  busy      \* the event being answered, or NoEvent

cvars == <<leaf, pending, busy>>

\* Entering s ends in the leaf l: below s every step is to an initial child.
SettlesIn(s, l) ==
  /\ s \in Chain[l] /\ Initial[l] = NoState
  /\ \A a \in Chain[l] \ Chain[s] : Initial[Parent[a]] = a

\* e can move the machine from the leaf l to the leaf m.
Moves(e, l, m) ==
  \E host \in Chain[l] \ {Root} :
    \E i \in 1 .. Len(Table[host]) :
      LET t == Table[host][i]
      IN /\ <<e, t>> \in MayFire
         /\ Target[t] # NoState
         /\ SettlesIn(Target[t], m)

Init == leaf = NoState /\ pending = <<>> /\ busy = NoEvent

\* The machine starts in the leaf below the root.
Start ==
  /\ leaf = NoState
  /\ leaf' \in State /\ SettlesIn(Root, leaf')
  /\ UNCHANGED <<pending, busy>>

Post(e) == pending' = Append(pending, e) /\ UNCHANGED <<leaf, busy>>

\* The oldest event is taken when no other is being answered.
Take ==
  /\ leaf # NoState /\ busy = NoEvent
  /\ pending # <<>>
  /\ busy' = Head(pending) /\ pending' = Tail(pending)
  /\ UNCHANGED leaf

\* A caller has an event answered at once.
TakeDirect(e) ==
  /\ leaf # NoState /\ busy = NoEvent
  /\ busy' = e
  /\ UNCHANGED <<leaf, pending>>

\* The event is answered by a transition or dropped.
Answer ==
  /\ busy # NoEvent
  /\ busy' = NoEvent
  /\ \/ leaf' = leaf
     \/ leaf' \in State /\ Moves(busy, leaf, leaf')
  /\ UNCHANGED pending

Next ==
  \/ Start
  \/ \E e \in Event : Post(e)
  \/ Take
  \/ \E e \in DirectEvents : TakeDirect(e)
  \/ Answer

Spec == Init /\ [][Next]_cvars
=============================================================================
