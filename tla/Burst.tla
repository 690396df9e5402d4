-------------------------------- MODULE Burst ---------------------------------
(***************************************************************************)
(* cmd/deliveryburst: workers send webhooks through the edge in two phases *)
(* while a consumer drains the topic into ClickHouse; then main waits for  *)
(* a lag of zero, cancels the consumer and ends.  The ids are numbers, in  *)
(* the order they are sent, each sent once.                                *)
(***************************************************************************)
EXTENDS Edge, Collector, DrainLoop

CONSTANT MaxFailures   \* bound of the model: kinds of failure in a behaviour

\* A run lasts for a given time, and a topic has a given number of partitions.
ASSUME BurstAssumption ==
  /\ MaxFailures \in Nat
  /\ Ids \subseteq Nat /\ IsFiniteSet(Ids)
  /\ IsFiniteSet(Partitions)

VARIABLES
  main,        \* "baseline", "burst", "drain", "cancelled", "done"
  posted,      \* webhooks sent so far
  returned,    \* the workers of the phase that have seen stop
  consumer,    \* "runs", or "stops" once it has seen the context end
  consumed,    \* its counter
  failed       \* kinds of failure that have happened, each at most once

benchVars == <<main, posted, returned, consumer, consumed, failed>>
vars == <<edgeVars, consumerVars, drainVars, benchVars>>

Fail(kind) ==
  /\ kind \notin failed
  /\ Cardinality(failed) < MaxFailures
  /\ failed' = failed \cup {kind}

Init ==
  /\ EdgeInit
  /\ CollectorInit
  /\ DrainInit
  /\ main = "baseline"
  /\ posted = 0
  /\ returned = {}
  /\ consumer = "runs"
  /\ consumed = 0
  /\ failed = {}

-----------------------------------------------------------------------------
(* sendAt: a worker sends at every tick until stop is closed.              *)

Sending == main \in {"baseline", "burst"}

WorkerPosts(s) ==
  /\ Sending
  /\ s \notin returned
  /\ posted + 1 \in Ids
  /\ PostNew(s, posted + 1)
  /\ posted' = posted + 1
  /\ UNCHANGED <<consumerVars, drainVars, main, returned, consumer, consumed, failed>>

\* count grows when Ingest returns no error.
WorkerAnswered(s) ==
  /\ \/ ProduceAcked(s) /\ UNCHANGED failed
     \/ ProduceFails(s) /\ Fail("produce")
  /\ UNCHANGED <<consumerVars, drainVars, main, posted, returned, consumer, consumed>>

Writer ==
  /\ \E i \in Ids : LateWrite(i) \/ LateDrop(i)
  /\ UNCHANGED <<consumerVars, drainVars, benchVars>>

\* Deviation: the worker does not wait for the answer to its last webhook.
WorkerReturnsEarly(s) ==
  /\ Sending
  /\ s \notin returned
  /\ returned' = returned \cup {s}
  /\ UNCHANGED <<edgeVars, consumerVars, drainVars, main, posted, consumer, consumed, failed>>

WorkerReturns(s) ==
  /\ Sending
  /\ s \notin returned
  /\ call[s] = {}
  /\ returned' = returned \cup {s}
  /\ UNCHANGED <<edgeVars, consumerVars, drainVars, main, posted, consumer, consumed, failed>>

\* wg.Wait, and on to the next phase.
PhaseEnds ==
  /\ Sending
  /\ returned = Senders
  /\ main' = IF main = "baseline" THEN "burst" ELSE "drain"
  /\ returned' = {}
  /\ UNCHANGED <<edgeVars, consumerVars, drainVars, posted, consumer, consumed, failed>>

-----------------------------------------------------------------------------
(* The consumer goroutine and the readers behind it.                       *)

Cancelled == main \in {"cancelled", "done"}
consumerDone == consumer = "stops" /\ Waiting

ReaderStep(p) ==
  /\ \/ Reads(p) /\ UNCHANGED failed
     \/ /\ ReaderReturns(p)
        /\ Fail("outage")
        /\ UNCHANGED <<chBatch, inserting, rows>>
  /\ UNCHANGED <<edgeVars, drainVars, main, posted, returned, consumer, consumed>>

ReaderStops(p) ==
  /\ Cancelled
  /\ ReaderCancelled(p)
  /\ UNCHANGED <<edgeVars, chBatch, inserting, rows, drainVars, benchVars>>

\* The code counts a message after the flush it may cause.
Collect ==
  /\ consumer = "runs"
  /\ \/ Receive /\ consumed' = consumed + 1
     \/ FlushTick /\ UNCHANGED consumed
  /\ UNCHANGED <<edgeVars, drainVars, main, posted, returned, consumer, failed>>

InsertEnds ==
  /\ \/ InsertStores /\ UNCHANGED failed
     \/ InsertFails /\ Fail("insert")
  /\ UNCHANGED <<edgeVars, drainVars, main, posted, returned, consumer, consumed>>

\* Deviation: the goroutine waits for the end of the channel.
CollectorStopsOnClose ==
  /\ FALSE
  /\ UNCHANGED vars

\* Deviation: the goroutine returns without a last flush.
CollectorDropsBatch ==
  /\ Cancelled
  /\ consumer = "runs"
  /\ Waiting
  /\ consumer' = "stops"
  /\ UNCHANGED <<edgeVars, consumerVars, drainVars, main, posted, returned, consumed, failed>>

\* The context is done: select may take this branch with messages in the
\* channel.
CollectorStops ==
  /\ Cancelled
  /\ consumer = "runs"
  /\ Waiting
  /\ Flush(chBatch)
  /\ consumer' = "stops"
  /\ UNCHANGED <<edgeVars, readerVars, rows, drainVars, main, posted, returned, consumed, failed>>

-----------------------------------------------------------------------------
(* main, after it has sent.                                                *)

Draining ==
  /\ main = "drain"
  /\ ~Waited
  /\ \/ /\ (\E p \in Partitions : AskOffset(p)) \/ Measure
        /\ UNCHANGED failed
     \/ AskFails /\ Fail("offsets")
  /\ UNCHANGED <<edgeVars, consumerVars, main, posted, returned, consumer, consumed>>

\* Not before the first round, which starts long before the deadline.
TimeIsUp ==
  /\ main = "drain"
  /\ ~Waited
  /\ Asked # {} \/ finalLag > 0 \/ "offsets" \in failed
  /\ DeadlinePasses
  /\ UNCHANGED <<edgeVars, consumerVars, benchVars>>

cancelConsume ==
  /\ main = "drain"
  /\ Waited
  /\ main' = "cancelled"
  /\ UNCHANGED <<edgeVars, consumerVars, drainVars, posted, returned, consumer, consumed, failed>>

MainEnds ==
  /\ main = "cancelled"
  /\ consumerDone
  /\ main' = "done"
  /\ UNCHANGED <<edgeVars, consumerVars, drainVars, posted, returned, consumer, consumed, failed>>

Next ==
  \/ \E s \in Senders : WorkerPosts(s) \/ WorkerAnswered(s) \/ WorkerReturns(s)
  \/ Writer \/ PhaseEnds
  \/ \E p \in Partitions : ReaderStep(p) \/ ReaderStops(p)
  \/ Collect \/ InsertEnds \/ CollectorStops
  \/ Draining \/ TimeIsUp \/ cancelConsume \/ MainEnds

Spec == Init /\ [][Next]_vars

\* Goroutines run, requests come to an end, the timers of the phases and of
\* the deadline fire.  Nothing is assumed of the broker or of late messages.
Fairness ==
  /\ \A s \in Senders : WF_vars(WorkerAnswered(s)) /\ WF_vars(WorkerReturns(s))
  /\ \A p \in Partitions : WF_vars(ReaderStops(p))
  /\ WF_vars(PhaseEnds)
  /\ WF_vars(Collect \/ CollectorStops)
  /\ WF_vars(InsertEnds)
  /\ WF_vars(Draining \/ cancelConsume \/ MainEnds)
  /\ WF_vars(TimeIsUp)

FairSpec == Spec /\ Fairness

-----------------------------------------------------------------------------

Accepted == {i \in Ids : "accepted" \in answers[i]}
InTable == {i \in Ids : rows[i] > 0}

\* When a lag of zero is computed, what the benchmark counts as sent is stored
\* or held by the consumer: the workers were waited for, the bounds were asked
\* after that, and no reader is past a message it has not passed on.
DrainedIsInHand ==
  main = "drain" /\ finalLag = 0 /\ "insert" \notin failed =>
    \A i \in Accepted : i \in InTable \/ InFlight(i) > 0

\* A lag of zero is not a table that holds everything: the offsets move when a
\* message is read, and what the readers and the channel held at the end is
\* dropped.  It is never more than that, for the last batch is flushed.
DrainedWithin ==
  main = "done" /\ finalLag = 0 /\ "insert" \notin failed =>
    Cardinality(Accepted \ InTable) <= ChanCap + Cardinality(Partitions)

\* The number of webhooks the benchmark prints as consumed is the number of
\* rows in the table once the consumer is done.
ConsumedAreStored ==
  consumerDone /\ "insert" \notin failed =>
    MapThenSumSet(LAMBDA i : rows[i], Ids) = consumed

\* The benchmark comes to its end and leaves no goroutine behind, although
\* nothing ever closes the channel, a reader may have returned early and the
\* offsets may not be known: neither the barrier of the workers, the wait for
\* the lag nor that for the consumer blocks for ever.
BenchmarkEnds == <>(main = "done" /\ \A p \in Partitions : ~alive[p])

=============================================================================
