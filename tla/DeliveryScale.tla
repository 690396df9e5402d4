----------------------------- MODULE DeliveryScale -----------------------------
(***************************************************************************)
(* cmd/deliveryscale: workers load a generated corpus into ClickHouse,     *)
(* then the rollup is rebuilt once, compared with a recompute of the raw   *)
(* log, and both are asked the dashboard's question.                       *)
(*                                                                         *)
(* A row is its number.  Which channel, status and time the generator      *)
(* draws for it does not matter before the table is asked, so that it is   *)
(* drawn at the start.  A table is a count for each row; the rollup sums   *)
(* them up by minute, channel and status.                                  *)
(***************************************************************************)
EXTENDS Naturals, FiniteSetsExt

CONSTANTS
  Workers,       \* insertWorkers
  Total,         \* totalEvents
  BatchSize,
  Groups,        \* channels with a status
  Stamps,        \* times, in steps of a fraction of a minute
  Steps,         \* how many of them a minute has
  windowStart,
  Drawn,         \* the groups and times the generator draws
  MaxFailures    \* bound of the model: inserts that fail

ASSUME ScaleAssumption ==
  /\ Total \in Nat /\ BatchSize \in Nat \ {0} /\ Steps \in Nat \ {0}
  /\ Stamps \subseteq Nat /\ windowStart \in Nat
  /\ Drawn \subseteq Groups \X Stamps
  /\ MaxFailures \in Nat

VARIABLES
  main,        \* what main does next
  skipLoad,
  drawn,       \* drawn[i]: group and time of row i
  nextBatch,   \* the number of batches handed out
  worker,      \* worker[w]: the batches w inserts, none or one
  returned,    \* workers that found no batch left
  inserted,    \* rows reported as loaded
  raw,         \* delivery_events
  rollup,      \* delivery_rollup_minute
  lateInserts, \* batches the store still works on after their client gave up
  stale,       \* auxiliary: one of them came after the rollup was filled
  failures,
  recompute,   \* recompute[g]: the recompute's count
  exact        \* the RESULT: all pairs match, and so do the totals

tables == <<raw, rollup, lateInserts, stale>>
load == <<nextBatch, worker, returned, inserted, failures>>
verdict == <<recompute, exact>>
input == <<skipLoad, drawn>>
vars == <<main, tables, load, verdict, input>>

Rows == 1 .. Total
Empty == [i \in Rows |-> 0]

numBatches == (Total + BatchSize - 1) \div BatchSize

\* genBatch, the last batch being shorter.
BatchRows(b) == {i \in Rows : b * BatchSize < i /\ i <= b * BatchSize + BatchSize}

InsertBatch(table, b) == [i \in Rows |-> table[i] + (IF i \in BatchRows(b) THEN 1 ELSE 0)]

\* An earlier run may have left anything in the tables.
Init ==
  /\ skipLoad \in BOOLEAN
  /\ main = IF skipLoad THEN "recompute" ELSE "truncate events"
  /\ drawn \in [Rows -> Drawn]
  /\ raw \in [Rows -> 0 .. 1]
  /\ rollup \in {Empty, raw, [i \in Rows |-> 1]}
  /\ nextBatch = 0
  /\ worker = [w \in Workers |-> {}]
  /\ returned = {}
  /\ inserted = 0
  /\ lateInserts = {}
  /\ stale = FALSE
  /\ failures = 0
  /\ recompute = [g \in Groups |-> 0]
  /\ exact = FALSE

-----------------------------------------------------------------------------
(* TruncateAll, two requests.                                              *)

TruncateEvents ==
  /\ main = "truncate events"
  /\ raw' = Empty
  /\ main' = "truncate rollup"
  /\ UNCHANGED <<rollup, lateInserts, stale, load, verdict, input>>

TruncateRollup ==
  /\ main = "truncate rollup"
  /\ rollup' = Empty
  /\ main' = "load"
  /\ UNCHANGED <<raw, lateInserts, stale, load, verdict, input>>

-----------------------------------------------------------------------------
(* The workers.                                                            *)

Claims(w, b) ==
  IF b < numBatches
  THEN worker' = [worker EXCEPT ![w] = {b}] /\ UNCHANGED returned
  ELSE returned' = returned \cup {w} /\ UNCHANGED worker

\* Deviation: the counter is not atomic, and another worker's write is lost.
ClaimBatchTorn(w) ==
  /\ main = "load"
  /\ worker[w] = {} /\ w \notin returned
  /\ Claims(w, nextBatch)
  /\ nextBatch' \in {nextBatch, nextBatch + 1}
  /\ UNCHANGED <<main, inserted, failures, tables, verdict, input>>

\* atomic.AddInt64 on a counter that starts at -1.
ClaimBatch(w) ==
  /\ main = "load"
  /\ worker[w] = {} /\ w \notin returned
  /\ Claims(w, nextBatch)
  /\ nextBatch' = nextBatch + 1
  /\ UNCHANGED <<main, inserted, failures, tables, verdict, input>>

InsertStores(w) ==
  \E b \in worker[w] :
    /\ raw' = InsertBatch(raw, b)
    /\ inserted' = inserted + Cardinality(BatchRows(b))
    /\ worker' = [worker EXCEPT ![w] = {}]
    /\ UNCHANGED <<main, nextBatch, returned, failures, rollup, lateInserts, stale, verdict, input>>

\* The error is logged and the next batch is taken.  The store has refused
\* the rows, has taken them, or still works on them.
InsertFails(w) ==
  /\ failures < MaxFailures
  /\ failures' = failures + 1
  /\ \E b \in worker[w] :
       \/ raw' \in {raw, InsertBatch(raw, b)} /\ UNCHANGED lateInserts
       \/ lateInserts' = lateInserts \cup {b} /\ UNCHANGED raw
  /\ worker' = [worker EXCEPT ![w] = {}]
  /\ UNCHANGED <<main, nextBatch, returned, inserted, rollup, stale, verdict, input>>

Filled == main \in {"recompute", "compare", "done"}

InsertEndsLate(b) ==
  /\ b \in lateInserts
  /\ raw' = InsertBatch(raw, b)
  /\ lateInserts' = lateInserts \ {b}
  /\ stale' = (stale \/ Filled)
  /\ UNCHANGED <<main, rollup, load, verdict, input>>

\* Deviation: main does not wait for the workers.
LoadEndsEarly ==
  /\ main = "load"
  /\ nextBatch >= numBatches
  /\ main' = "refresh"
  /\ UNCHANGED <<tables, load, verdict, input>>

LoadEnds ==
  /\ main = "load"
  /\ returned = Workers
  /\ main' = "refresh"
  /\ UNCHANGED <<tables, load, verdict, input>>

-----------------------------------------------------------------------------
(* RefreshRollup, two requests, and the check.                             *)

RefreshTruncates ==
  /\ main = "refresh"
  /\ rollup' = Empty
  /\ main' = "fill"
  /\ UNCHANGED <<raw, lateInserts, stale, load, verdict, input>>

RefreshFills ==
  /\ main = "fill"
  /\ rollup' = [i \in Rows |-> rollup[i] + raw[i]]
  /\ main' = "recompute"
  /\ UNCHANGED <<raw, lateInserts, stale, load, verdict, input>>

RowsIn(g) == {i \in Rows : drawn[i][1] = g}
Count(table, rows) == MapThenSumSet(LAMBDA i : table[i], rows)

RecomputeChannelStatusCounts ==
  /\ main = "recompute"
  /\ recompute' = [g \in Groups |-> Count(raw, RowsIn(g))]
  /\ main' = "compare"
  /\ UNCHANGED <<tables, load, exact, input>>

\* Only what the recompute returned is compared, and only that is summed.
Compare ==
  /\ main = "compare"
  /\ exact' = \A g \in Groups : recompute[g] > 0 => Count(rollup, RowsIn(g)) = recompute[g]
  /\ main' = "done"
  /\ UNCHANGED <<tables, load, recompute, input>>

\* A request of main fails.
Fatal ==
  /\ main \notin {"load", "done", "fatal"}
  /\ main' = "fatal"
  /\ UNCHANGED <<tables, load, verdict, input>>

Next ==
  \/ TruncateEvents \/ TruncateRollup
  \/ \E w \in Workers : ClaimBatch(w) \/ InsertStores(w) \/ InsertFails(w)
  \/ \E b \in lateInserts : InsertEndsLate(b)
  \/ LoadEnds \/ RefreshTruncates \/ RefreshFills
  \/ RecomputeChannelStatusCounts \/ Compare \/ Fatal

Spec == Init /\ [][Next]_vars

-----------------------------------------------------------------------------
(* The dashboard's two queries.                                            *)

toStartOfMinute(t) == (t \div Steps) * Steps
Minutes == {toStartOfMinute(t) : t \in Stamps}

RowsOf(m, g) == {i \in RowsIn(g) : toStartOfMinute(drawn[i][2]) = m}

DashboardRawQuery(m, g) ==
  Cardinality({i \in RowsOf(m, g) : raw[i] > 0 /\ drawn[i][2] >= windowStart})

\* Deviation: a minute is taken when its end is in the window.
DashboardRollupQueryToEnd(m, g) ==
  IF m + Steps > windowStart THEN Count(rollup, RowsOf(m, g)) ELSE 0

DashboardRollupQuery(m, g) ==
  IF m >= windowStart THEN Count(rollup, RowsOf(m, g)) ELSE 0

-----------------------------------------------------------------------------

Loaded == ~skipLoad /\ main \notin {"truncate events", "truncate rollup", "fatal"}

\* No two workers load the same rows, whatever an earlier run left in the
\* table, and none are left out unless an insert failed; the number printed as
\* loaded is that of the rows then.
LoadedOnce ==
  Loaded =>
    /\ \A i \in Rows : raw[i] <= 1
    /\ main # "load" /\ failures = 0 =>
         inserted = Total /\ \A i \in Rows : raw[i] = 1

\* After a load the check says "exact" and the two tables do agree, in the
\* groups the comparison leaves out as well, even if inserts failed: only an
\* insert that the store ends after the rollup was filled makes a difference.
ExactAfterLoad ==
  Loaded /\ main = "done" /\ ~stale =>
    exact /\ \A g \in Groups : Count(rollup, RowsIn(g)) = Count(raw, RowsIn(g))

\* The dashboard's answers for the whole minutes of the window are the same
\* from both tables after a load; for the minute the window starts in, the raw
\* log has an answer and the rollup none.
WholeMinutesAgree ==
  Loaded /\ main = "done" /\ ~stale =>
    \A m \in Minutes, g \in Groups :
      DashboardRollupQuery(m, g) = IF m >= windowStart THEN DashboardRawQuery(m, g) ELSE 0

=============================================================================
