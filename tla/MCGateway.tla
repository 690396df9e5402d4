------------------------------ MODULE MCGateway ------------------------------
(* Instances of Gateway for TLC: the limits of each kind of run. *)
EXTENDS Gateway, TLC

Limits(sends, timeouts, outages, faults, crashes) ==
  ("sends" :> sends) @@ ("timeouts" :> timeouts) @@ ("outages" :> outages)
    @@ ("faults" :> faults) @@ ("crashes" :> crashes)

\* The process may die once, the disk is sound.
RestartLimits == Limits(3, 1, 1, 0, 1)
\* A slow broker, two outages, two disk faults and a restart.
FaultLimits == Limits(3, 1, 2, 2, 1)
\* One disk fault while the broker is away, the process lives on.
StickyLimits == Limits(3, 0, 1, 1, 0)

=============================================================================
