-------------------------- MODULE MCDesktopMachine --------------------------
(* The state machine of StateMachine on the desktop's tree. *)
EXTENDS StateMachine, DesktopStates

\* The events that arrive through the queue: all but the toolbar's signal.
QueuedEvents == DEvent \ DDirectEvents

QueuedMayFire == {p \in DMayFire : p[1] \in QueuedEvents}
QueuedMustFire == {p \in DMustFire : p[1] \in QueuedEvents}
=============================================================================
