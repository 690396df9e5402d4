----------------------------- MODULE MCEdgeReplay ------------------------------
(* An instance of EdgeReplay for TLC. *)
EXTENDS EdgeReplay

CONSTANTS i1, i2, i3, p1, p2

Placed == [i \in Ids |-> IF i = i3 THEN p2 ELSE p1]

=============================================================================
