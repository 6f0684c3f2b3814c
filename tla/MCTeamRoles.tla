---------------------------- MODULE MCTeamRoles ----------------------------
(* Three field players.  In the first layout all see the same order at the *)
(* ball, each with figures of its own; 2 is ahead of 3 by less than the    *)
(* bonus of the attacker.  In the second 2 and 3 each take themselves for  *)
(* the first at the ball, and 2 stands at it.  The first at the goal is    *)
(* one that does not attack, or the first at the ball itself.              *)
EXTENDS TeamRoles

Three(a, b, c) == [q \in Players |-> CASE q = 2 -> a [] q = 3 -> b [] OTHER -> c]

MCLayouts ==
  { [eta |-> Three(Three(10, 11, 30), Three(12, 13, 22), Three(10, 11, 15)),
     def |-> Three(40, 10, 12), side |-> Three(0, 1, 2), near |-> {}],
    [eta |-> Three(Three(10, 21, 32), Three(25, 10, 32), Three(10, 21, 32)),
     def |-> Three(10, 40, 22), side |-> Three(2, 1, 0), near |-> {2}] }
=============================================================================
