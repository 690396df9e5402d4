---------------------------- MODULE MCGatewayBench -----------------------------
(* An instance of GatewayBench for TLC. *)
EXTENDS GatewayBench, TLC

CONSTANTS c1, c2, d1, d2

Own == (c1 :> d1) @@ (c2 :> d2)
TwoAndOne == (d1 :> 2) @@ (d2 :> 1)

\* Any number of sends, one late or lost answer, no other failure.
BenchLimits ==
  ("sends" :> 9) @@ ("timeouts" :> 1) @@ ("outages" :> 0) @@ ("faults" :> 0) @@ ("crashes" :> 0)

=============================================================================
