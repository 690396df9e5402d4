------------------------------- MODULE MCBurst --------------------------------
(* An instance of Burst for TLC. *)
EXTENDS Burst, TLC

CONSTANTS p1, p2

\* All but the first message go to the same partition.
Mostly == [i \in Ids |-> IF i = 1 THEN p1 ELSE p2]

=============================================================================
