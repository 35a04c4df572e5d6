---------------------------- MODULE TransitionWalk ----------------------------
(***************************************************************************)
(* The second half of StateMachine::processEvent, pointer by pointer: how  *)
(* it walks up the tree from the current leaf and from the target until    *)
(* the two walks meet, which states it leaves on the way, and which it     *)
(* enters afterwards.  Module StateMachine uses the sets of StateTree      *)
(* instead; here they are compared with the walk.                          *)
(***************************************************************************)
EXTENDS Integers, Sequences, FiniteSets, StateTree

\* A tree of objects is finite.
ASSUME WalkAssumption == TreeAssumption /\ IsFiniteSet(State)

VARIABLES
  current, host, target, \* m_currentState, the transition's state, its target
  old, new,              \* old_state, new_state
  left,                  \* the states leave() was called on, in order
  toEnter,               \* target_2_ancestor
  at                     \* which loop of processEvent is running

vars == <<current, host, target, old, new, left, toEnter, at>>

\* parentState(), NULL for the root.
ParentState(s) == IF s = Root THEN NoState ELSE Parent[s]

\* depth(): the number of ancestors.
Depth(s) == Cardinality(ProperAncestors(s))

\* A leaf with a transition to `target' on itself or on an ancestor.
Init ==
  /\ current \in {s \in State : Initial[s] = NoState}
  /\ host \in Chain[current] \ {Root}
  /\ target \in State \ {Root}
  /\ old = current /\ new = target
  /\ left = <<>> /\ toEnter = <<>>
  /\ at = "leave"

Leave(s) == left' = Append(left, s)

\* target_2_ancestor grows at its front, and new_state goes up.
Collect ==
  /\ toEnter' = <<new>> \o toEnter
  /\ new' = ParentState(new)

\* The states from the current one up to the transition's.
LeaveToHost ==
  /\ at = "leave"
  /\ Leave(old)
  /\ IF old = host
     THEN at' = "level" /\ UNCHANGED old
     ELSE old' = ParentState(old) /\ UNCHANGED at
  /\ UNCHANGED <<current, host, target, new, toEnter>>

\* Up from the host, while it is more than one level below the target.
LeaveToLevel ==
  /\ at = "level"
  /\ IF Depth(old) - Depth(new) > 1
     THEN /\ old' = ParentState(old)
          /\ Leave(ParentState(old))
          /\ UNCHANGED at
     ELSE at' = "collect" /\ UNCHANGED <<old, left>>
  /\ UNCHANGED <<current, host, target, new, toEnter>>

\* A variant that stops one level too low.
CollectOneLess ==
  /\ at = "collect"
  /\ IF Depth(new) - Depth(old) > 0
     THEN Collect /\ UNCHANGED at
     ELSE at' = "meet" /\ UNCHANGED <<new, toEnter>>
  /\ UNCHANGED <<current, host, target, old, left>>

\* Up from the target, until it is one level above.
CollectToLevel ==
  /\ at = "collect"
  /\ IF Depth(new) - Depth(old) >= 0
     THEN Collect /\ UNCHANGED at
     ELSE at' = "meet" /\ UNCHANGED <<new, toEnter>>
  /\ UNCHANGED <<current, host, target, old, left>>

\* A variant that moves the left side only.
ClimbAlone ==
  /\ at = "meet"
  /\ IF ParentState(old) # new
     THEN /\ old' = ParentState(old)
          /\ Leave(ParentState(old))
          /\ UNCHANGED <<new, toEnter, at>>
     ELSE at' = "same" /\ UNCHANGED <<old, new, left, toEnter>>
  /\ UNCHANGED <<current, host, target>>

\* Both sides up, until the parent of the one is the other.
ClimbTogether ==
  /\ at = "meet"
  /\ IF ParentState(old) # new
     THEN /\ old' = ParentState(old)
          /\ Leave(ParentState(old))
          /\ Collect
          /\ UNCHANGED at
     ELSE at' = "same" /\ UNCHANGED <<old, new, left, toEnter>>
  /\ UNCHANGED <<current, host, target>>

\* A variant without the case of a target above the host.
LeaveTargetNever ==
  /\ at = "same"
  /\ at' = "done"
  /\ UNCHANGED <<current, host, target, old, new, left, toEnter>>

\* Nothing to enter: the target is an ancestor, to be left and entered again.
LeaveTarget ==
  /\ at = "same"
  /\ IF toEnter = <<>>
     THEN Leave(ParentState(old)) /\ toEnter' = <<new>>
     ELSE UNCHANGED <<left, toEnter>>
  /\ at' = "done"
  /\ UNCHANGED <<current, host, target, old, new>>

Next == LeaveToHost \/ LeaveToLevel \/ CollectToLevel \/ ClimbTogether \/ LeaveTarget

Spec == Init /\ [][Next]_vars

-----------------------------------------------------------------------------
(* Properties. *)

\* The walk follows no NULL parent pointer and leaves no NULL state.
NoNullParent ==
  /\ old \in State /\ new \in State
  /\ \A i \in DOMAIN left : left[i] \in State \ {Root}

\* assert(old_state->depth() == new_state->depth() + 1), between the loops: it
\* is what makes the two sides of the last loop meet.
LevelsMeet == at \in {"meet", "same"} => Depth(old) = Depth(new) + 1

\* Each of S once, a state before (Below) the states above it.
InOrder(seq, S, Before(_, _)) ==
  /\ {seq[i] : i \in DOMAIN seq} = S
  /\ \A i, j \in DOMAIN seq : i < j => Before(seq[i], seq[j])

\* When the walk is over, the states left and the states to enter are those of
\* LeavePath and EnterPath, deepest first and highest first.
WalkIsPath ==
  at = "done" =>
    /\ InOrder(left, LeavePath(current, host, target),
               LAMBDA s, r : r \in ProperAncestors(s))
    /\ InOrder(toEnter, EnterPath(host, target),
               LAMBDA s, r : s \in ProperAncestors(r))
=============================================================================
