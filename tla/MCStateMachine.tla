--------------------------- MODULE MCStateMachine ---------------------------
(***************************************************************************)
(* StateMachine on a small tree with a transition from every state to      *)
(* every state: self transitions, transitions to an ancestor or a          *)
(* descendant, to a sibling and across the tree, on the leaf itself or     *)
(* inherited from any of its ancestors.                                    *)
(*                                                                         *)
(*        root                                                             *)
(*        /  \            initial states: a, a1, a11                      *)
(*       a    b                                                            *)
(*      / \                                                               *)
(*    a1   a2                                                              *)
(*    |                                                                    *)
(*   a11                                                                   *)
(***************************************************************************)
EXTENDS StateMachine

ShapeParent ==
  [a |-> "root", b |-> "root", a1 |-> "a", a2 |-> "a", a11 |-> "a1"]

ShapeState == DOMAIN ShapeParent \cup {"root"}

ShapeChain ==
  LET up(S) == S \cup {ShapeParent[s] : s \in S \ {"root"}}
  IN [s \in ShapeState |-> up(up(up({s})))]

ShapeInitial ==
  [root |-> "a", a |-> "a1", a1 |-> "a11", a2 |-> "none", a11 |-> "none",
   b |-> "none"]

\* Every transition may take the event named for its target, or refuse it.
ShapeEvent == ShapeState \ {"root"}
ShapeTransition == ShapeEvent \X ShapeEvent
ShapeTable ==
  [s \in ShapeState |->
     IF s = "root" THEN <<>>
     ELSE <<<<s, "a">>, <<s, "b">>, <<s, "a1">>, <<s, "a2">>, <<s, "a11">>>>]
ShapeTarget == [t \in ShapeTransition |-> t[2]]
ShapeMayFire == {<<t[2], t>> : t \in ShapeTransition}
=============================================================================
