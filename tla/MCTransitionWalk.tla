---------------------------- MODULE MCTransitionWalk ----------------------------
(* The full binary tree of depth 4, states numbered level by level: a walk     *)
(* depends only on the depths of the four states and of their meeting points,  *)
(* and every combination of depths up to 4 occurs.                             *)
EXTENDS TransitionWalk

TreeState == 1 .. 31
TreeParent == [s \in 2 .. 31 |-> s \div 2]
TreeChain[s \in TreeState] == IF s = 1 THEN {1} ELSE {s} \cup TreeChain[s \div 2]
TreeInitial == [s \in TreeState |-> IF s < 16 THEN 2 * s ELSE 0]
=============================================================================
