------------------------------ MODULE MCDelivery ------------------------------
(* Instances of Delivery for TLC. *)
EXTENDS Delivery, TLC

CONSTANTS i1, i2, p1, p2

\* Each id has a partition of its own.
Apart == (i1 :> p1) @@ (i2 :> p2)

Limits(outages, inserts, refreshes, crashes) ==
  ("outages" :> outages) @@ ("inserts" :> inserts)
    @@ ("refreshes" :> refreshes) @@ ("crashes" :> crashes)

\* Each failure may happen once.
Failures == Limits(1, 1, 1, 1)

=============================================================================
