---------------------------- MODULE MCActivityStack ----------------------------
(* The desktop, the picture player, and two instances of another activity. *)
EXTENDS ActivityStack

MCActivity == {"desktop", "player", "app1", "app2"}

MCName ==
  [a \in MCActivity |-> IF a \in {"app1", "app2"} THEN "app" ELSE a]
=============================================================================
