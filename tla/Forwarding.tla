----------------------------- MODULE Forwarding -----------------------------
(***************************************************************************)
(* What the ingest gateway promises for each reading, without dedup, spool *)
(* or drainer: a reading it accepted is on its way until it is in the      *)
(* topic, and it is in the topic for good.  Readings on their way get lost *)
(* only once the disk or the process has failed.                           *)
(***************************************************************************)
CONSTANT Readings

VARIABLES
  status,
  troubled      \* whether disk or process have failed yet

vars == <<status, troubled>>

Init ==
  /\ status = [r \in Readings |-> "unknown"]
  /\ troubled = FALSE

\* Becomes(R, st): the readings in R change to st, the others stay.
Becomes(R, st) ==
  status' = [r \in Readings |-> IF r \in R THEN st ELSE status[r]]

Accept(r) ==
  /\ status[r] \in {"unknown", "lost"}
  /\ Becomes({r}, "onItsWay")

Forward(r) ==
  /\ status[r] = "onItsWay"
  /\ Becomes({r}, "forwarded")

\* The failure and the loss it causes can be one step; no reading needs to
\* be lost in a failure.
Lose(R) ==
  /\ R # {} => troubled'
  /\ \A r \in R : status[r] = "onItsWay"
  /\ Becomes(R, "lost")

Next ==
  /\ troubled => troubled'
  /\ \/ \E r \in Readings : Accept(r) \/ Forward(r)
     \/ \E R \in SUBSET Readings : Lose(R)

Spec == Init /\ [][Next]_vars

=============================================================================
