------------------------------ MODULE DrainLoop -------------------------------
(***************************************************************************)
(* How cmd/segmentbench and cmd/deliveryburst wait for their backlog: ask  *)
(* the broker how long each partition is, take what the readers have taken *)
(* off it, and ask again until nothing is left or the time is over.  The   *)
(* loop is the same in both.                                               *)
(***************************************************************************)
EXTENDS StreamReader, Integers, FiniteSetsExt

VARIABLES
  bounds,      \* bounds[p]: the end of p the broker has told, or NotAsked
  overdue,     \* drainDeadline is past
  finalLag     \* the lag computed last, -1 before the first

drainVars == <<bounds, overdue, finalLag>>

NotAsked == -1
NoBounds == [p \in Partitions |-> NotAsked]
Asked == {p \in Partitions : bounds[p] # NotAsked}

DrainInit ==
  /\ bounds = NoBounds
  /\ overdue = FALSE
  /\ finalLag = -1

\* PartitionOffsets asks one leader after the other; the test of the deadline
\* comes before the first.
AskOffset(p) ==
  /\ p \notin Asked
  /\ Asked = {} => ~overdue
  /\ bounds' = [bounds EXCEPT ![p] = Len(part[p])]
  /\ UNCHANGED <<overdue, finalLag>>

\* What was learnt is thrown away, and the loop starts again.
AskFails ==
  /\ Asked = {} => ~overdue
  /\ bounds' = NoBounds
  /\ UNCHANGED <<overdue, finalLag>>

FirstOffset == -2

\* What Reader.Offset says: where the reader was set until its first message.
CurrentOffsets(p) == IF offset[p] = 0 THEN FirstOffset ELSE offset[p]

\* Deviation: the last message of a partition is taken for read.
LagOffByOne == MapThenSumSet(LAMBDA p : Max({0, bounds[p] - 1 - CurrentOffsets(p)}), Partitions)

Lag == MapThenSumSet(LAMBDA p : Max({0, bounds[p] - CurrentOffsets(p)}), Partitions)

Measure ==
  /\ Asked = Partitions
  /\ finalLag' = Lag
  /\ bounds' = NoBounds
  /\ UNCHANGED overdue

DeadlinePasses ==
  /\ ~overdue
  /\ overdue' = TRUE
  /\ UNCHANGED <<bounds, finalLag>>

\* The loop is left.
Waited == finalLag = 0 \/ (overdue /\ Asked = {})

=============================================================================
