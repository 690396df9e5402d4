------------------------------- MODULE Delivery -------------------------------
(***************************************************************************)
(* The service of cmd/deliverygateway from the request of a provider to    *)
(* the rollup table the dashboard reads: the edge, one reader goroutine    *)
(* per partition behind a shared channel, the goroutine that collects and  *)
(* inserts batches, and the one that rebuilds the rollup.                  *)
(*                                                                         *)
(* The rollup groups by minute, channel and status; here every id is a     *)
(* group of its own, so that a group's count is the count of its id.       *)
(***************************************************************************)
EXTENDS Edge, Collector, FiniteSetsExt

CONSTANTS
  Limit,         \* bound of the model: failures of each kind
  MaxFailures    \* bound of the model: failures of all kinds together

Kinds == {"outages", "inserts", "refreshes", "crashes"}

ASSUME DeliveryAssumption ==
  /\ Limit \in [Kinds -> Nat]
  /\ MaxFailures \in Nat

VARIABLES
  rollup,      \* rollup[i]: what delivery_rollup_minute counts for i
  refresh,     \* where RefreshRollup is: "idle", or "truncated" before the fill
  lateFills,   \* fills the store still works on after their caller gave up
  spent        \* failures so far, by kind

rollupVars == <<rollup, refresh, lateFills>>
vars == <<edgeVars, consumerVars, rollupVars, spent>>

Spend(kind) ==
  /\ spent[kind] < Limit[kind]
  /\ MapThenSumSet(LAMBDA k : spent[k], Kinds) < MaxFailures
  /\ spent' = [spent EXCEPT ![kind] = @ + 1]

Init ==
  /\ EdgeInit
  /\ CollectorInit
  /\ rollup = Nothing
  /\ refresh = "idle"
  /\ lateFills = << >>
  /\ spent = [k \in Kinds |-> 0]

-----------------------------------------------------------------------------
(* The consumer side.                                                      *)

ReaderStep(p) == Reads(p) /\ UNCHANGED <<edgeVars, rollupVars, spent>>

ReaderFails(p) ==
  /\ ReaderReturns(p)
  /\ Spend("outages")
  /\ UNCHANGED <<edgeVars, chBatch, inserting, rows, rollupVars>>

Collect == (Receive \/ FlushTick) /\ UNCHANGED <<edgeVars, rollupVars, spent>>

InsertEnds ==
  /\ \/ InsertStores /\ UNCHANGED spent
     \/ InsertFails /\ Spend("inserts")
  /\ UNCHANGED <<edgeVars, rollupVars>>

-----------------------------------------------------------------------------
(* RefreshRollup, at every tick of its own goroutine: two requests.        *)

\* Deviation: the table is not emptied first.
TruncateNothing ==
  /\ refresh = "idle"
  /\ refresh' = "truncated"
  /\ UNCHANGED <<edgeVars, consumerVars, rollup, lateFills, spent>>

Truncate ==
  /\ refresh = "idle"
  /\ rollup' = Nothing
  /\ refresh' = "truncated"
  /\ UNCHANGED <<edgeVars, consumerVars, lateFills, spent>>

\* An error of the first request ends the refresh.
TruncateFails ==
  /\ refresh = "idle"
  /\ Spend("refreshes")
  /\ rollup' \in {rollup, Nothing}
  /\ UNCHANGED <<edgeVars, consumerVars, refresh, lateFills>>

\* Deviation: the fill counts distinct ids, as the raw query does.
FillDistinct ==
  /\ refresh = "truncated"
  /\ rollup' = [i \in Ids |-> rollup[i] + (IF rows[i] > 0 THEN 1 ELSE 0)]
  /\ refresh' = "idle"
  /\ UNCHANGED <<edgeVars, consumerVars, lateFills, spent>>

\* INSERT ... SELECT count() adds to whatever the rollup holds.
Fill ==
  /\ refresh = "truncated"
  /\ rollup' = [i \in Ids |-> rollup[i] + rows[i]]
  /\ refresh' = "idle"
  /\ UNCHANGED <<edgeVars, consumerVars, lateFills, spent>>

\* The second request fails: the store has not taken it, or it still works on
\* it while the client's timeout has ended the refresh.
FillFails ==
  /\ refresh = "truncated"
  /\ Spend("refreshes")
  /\ refresh' = "idle"
  /\ lateFills' \in {lateFills, Append(lateFills, rows)}
  /\ UNCHANGED <<edgeVars, consumerVars, rollup>>

FillEnds ==
  /\ lateFills # << >>
  /\ rollup' = [i \in Ids |-> rollup[i] + Head(lateFills)[i]]
  /\ lateFills' = Tail(lateFills)
  /\ UNCHANGED <<edgeVars, consumerVars, refresh, spent>>

-----------------------------------------------------------------------------

\* Every start reads each partition from its first message.  A request under
\* way when the process dies may still be carried out.
Restart ==
  /\ Spend("crashes")
  /\ EdgeRestart
  /\ offset' = FromFirst
  /\ hand' = NoneInHand
  /\ alive' = [p \in Partitions |-> TRUE]
  /\ chan' = << >>
  /\ chBatch' = << >>
  /\ inserting' = << >>
  /\ rows' \in {rows, Plus(rows, inserting)}
  /\ rollup' = rollup
  /\ refresh' = "idle"
  /\ \/ UNCHANGED lateFills
     \/ refresh = "truncated" /\ lateFills' = Append(lateFills, rows)

EdgeStep == EdgeNext /\ UNCHANGED <<consumerVars, rollupVars, spent>>

Next ==
  \/ EdgeStep
  \/ \E p \in Partitions : ReaderStep(p) \/ ReaderFails(p)
  \/ Collect \/ InsertEnds
  \/ Truncate \/ TruncateFails \/ Fill \/ FillFails \/ FillEnds
  \/ Restart

Spec == Init /\ [][Next]_vars

\* Every goroutine runs, and every request to the store comes to an end; the
\* tickers tick.  Go's select need not be fair between the channel and the
\* ticker.  Nothing is assumed of providers, broker or late requests.
Fairness ==
  /\ \A p \in Partitions : WF_vars(ReaderStep(p))
  /\ WF_vars(Collect)
  /\ WF_vars(InsertEnds)
  /\ WF_vars(Truncate \/ TruncateFails)
  /\ WF_vars(Fill \/ FillFails)

FairSpec == Spec /\ Fairness

-----------------------------------------------------------------------------

\* The types, and the bounds of the channel and the batch.
TypeOK ==
  /\ EdgeTypes
  /\ CollectorTypes
  /\ rollup \in [Ids -> Nat]
  /\ refresh \in {"idle", "truncated"}
  /\ lateFills \in Seq([Ids -> Nat])
  /\ spent \in [Kinds -> Nat]

\* Between topic and table no message is left out, whatever the interleaving
\* of readers, batches, tickers and restarts, as long as no insert fails.
NoneSkipped ==
  spent.inserts = 0 =>
    \A i \in Ids : rows[i] + InFlight(i) + Unread(i) >= InTopic(i)

\* A message is stored at most once per start of the process.
StoredOncePerStart ==
  \A i \in Ids :
    rows[i] + InFlight(i) + Unread(i) <= InTopic(i) * (1 + spent.crashes)

\* The summary is not ahead of the raw log, but for fills the store finishes
\* after their refresh was given up.
RollupNotAhead ==
  \A i \in Ids : rollup[i] <= rows[i] * (1 + spent.refreshes + spent.crashes)

\* Every message of the topic is stored in the end: readers, channel, batch
\* and tickers never block each other for good.
EventuallyStored ==
  [](spent.inserts = 0 /\ \A p \in Partitions : alive[p]) =>
    \A i \in Ids, n \in 1 .. 2 : InTopic(i) >= n ~> rows[i] >= n

\* After whatever failures the dashboard's numbers are those of the raw log
\* again.
RollupCatchesUp == []<>(\A i \in Ids : rollup[i] = rows[i])

=============================================================================
