---------------------------- MODULE MCDeliveryScale ----------------------------
(* An instance of DeliveryScale for TLC. *)
EXTENDS DeliveryScale

CONSTANTS sent, failed

\* Two steps to a minute, the window starting in the middle of the first.
DrawnRows == {<<sent, 0>>, <<sent, 1>>, <<failed, 1>>, <<failed, 3>>}

=============================================================================
