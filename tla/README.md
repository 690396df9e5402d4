# A specification of the device telemetry gateway

TLA+ modules, TLC configurations and TLAPS proofs for the Go program under
`src/`. Paths below are relative to `src/`.

## 1. The system

The repository holds three pipelines that share a shape: an edge that drops
duplicates, a Kafka topic, and something behind the topic.

```
devices --WebSocket--> handleIngest -> Pipeline.Ingest -> Dedup.Admit
                                          | Produce (200 ms)
                                          |   ok ----------------> topic "telemetry"
                                          |   error -> Spool.Write -> spool file
                       RunDrainer (tick) -> Spool.Drain -> retries --> topic / spool

storefront events ----> eventingest.Pipeline ----> topic -> segmentbench consumer
                                                     -> ClickHouse events
                                                     -> Redis segment membership
delivery webhooks ----> deliverystats.Pipeline --> topic -> deliverygateway consumer
                                                     -> ClickHouse delivery_events
                                                     -> rollup -> /api/summary -> dashboard
```

### Inventory

| Part | State | Operations | What is hard |
|---|---|---|---|
| Reading dedup, `internal/ingest/dedup.go` | per device: a set and a FIFO queue of sequence numbers | `Admit`, `EntryCount`, `DeviceCount` | the two structures must agree at the cap; called by every connection |
| Ingest pipeline, `internal/ingest/pipeline.go` | none of its own | `Ingest`, `RunDrainer`, `drainOnce` | a produce has three outcomes (acknowledged, refused, time over with the message still in the writer); handlers and retries interleave |
| Spool, `internal/ingest/spool.go` | the file, a `bufio.Writer` | `NewSpool`, `Write`, `Drain`, `SizeBytes`, `Close` | truncation before the retry, torn records, read errors taken for the end, the writer's sticky error |
| WebSocket server, `internal/wsserver` | one goroutine per connection | read, decode, `Ingest` | connections run in parallel |
| Kafka producer, `internal/kafkaclient/producer.go` | the kafka-go writer's queue | `Produce`, injected outage | late writes |
| Gateway process, `cmd/gateway` | all of the above but file and topic is lost when it dies | start | what a restart forgets |
| Storefront edge, `internal/eventingest` | a bounded set of event ids | `Ingest` | no spool: an id is remembered before the produce that may fail |
| Delivery edge, `internal/deliverystats/{pipeline,dedup}.go` | a bounded set of webhook ids | `Ingest` | the same |
| Delivery gateway, `cmd/deliverygateway` | the batch, tickers, HTTP handlers | receive, consume, flush, refresh, summary | batches lost on a failed insert, refresh in two requests, topic read again from its start after a restart |
| ClickHouse stores | tables | insert, refresh, queries | none of it transactional |
| Stream readers and consumers, `internal/kafkaclient` | offsets, a channel of 4096 | `Messages`, `CurrentOffsets`, `ConsumeAvailable*` | an offset runs ahead of what was applied |
| Segment engine, `internal/segment` | Redis hashes, sorted sets and sets; ClickHouse events | `ApplyEvent`, `Finalize`, `Recompute`, `DiffSets` | events out of order or twice, boundaries of time windows, two sets that must agree |
| Gateway benchmarks, `cmd/outagebench`, `cmd/loadgen` | what was written and read back | send, wait, read back, compare | what they conclude from an empty file or from numbers |
| Generators, `cmd/deliverygen`, `cmd/eventgen` | counters | send, read back, compare with `ReferenceDedup` | a read-back that is cut looks like one that is complete |
| Burst and segment benchmarks, `cmd/deliveryburst`, `cmd/segmentbench` | counters, phases, the lag | send, consume, wait for a lag of 0, cancel | an offset is not a stored row; nothing closes the channel |
| Scale benchmark, `cmd/deliveryscale` | a shared batch number | load, refresh, check, query | workers share a counter; the check looks at one side only |
| Measurements, `cmd/loadcurve`, `cmd/soak`, `cmd/throughputbench`, `cmd/deliverythroughput` | counters | drive and time | rates only |
| Dashboard, `web/deliverydashboard` | the last answer | polls `/api/summary` | answers out of order |

### How the parts interact

- A **connection's goroutine** calls `Ingest`, which takes the dedup's mutex,
  then calls the producer, then perhaps takes the spool's mutex. No lock is held
  over a call of another part, so every interleaving of these three steps with
  other goroutines can happen, and the models have one action for each.
- The **drainer** shares the spool's mutex with the handlers. `Drain` empties the
  file under it; the retries that follow run without it, at most
  `drainConcurrency` at once, and spill again under it.
- The **Kafka writer** of each producer outlives its callers: what a caller gave
  up may be written later. The writer also sends a message again when an
  acknowledgement is lost.
- In the **delivery gateway** the edge and the consumer side meet only in the
  topic. Reader goroutines feed one channel; one goroutine collects and inserts;
  another rebuilds the rollup; the summary reads it in between.
- A **restart** keeps files, topics and tables and forgets everything else.

### What makes each part correct

- Dedup: it is a sliding window over the last 4096 admissions of a device.
- Ingest, spool, drainer: a reading that passed dedup is forwarded or still held;
  it is not multiplied; a duplicate is dropped only if the reading is safe; the
  backlog is drained once the broker is back.
- Webhook edge: a success answer without a message behind it only if some sender
  was told of a failure.
- Delivery gateway: no message skipped between topic and table, none stored more
  than once per start; the dashboard's table comes into step with the log again.
- Segment engine: the membership kept event by event equals the recompute's.
- Benchmarks: what they report (drained, nothing lost, exact, identical) is so, or
  differs from it only for the reasons the properties name; they come to their end.

## 2. Modules

| Module | Models | |
|---|---|---|
| `SeenSet` | `deviceSeen` and its eviction | no state; shared by `Dedup`, `Gateway` and `Edge` |
| `Dedup` | `Dedup.Admit` | implements `DedupWindow` |
| `DedupWindow` | abstract: what Admit answers, from the history alone | |
| `Gateway` | `cmd/gateway`: handlers, producer, spool, drainer, faults, restart | implements `Forwarding` |
| `Forwarding` | abstract: what happens to each reading, seen from outside | |
| `GatewayBench` | `cmd/outagebench` and `cmd/loadgen`: devices, sockets, outage, wait, read-back, verdict | extends `Gateway` |
| `Topic` | a Kafka topic: a log per partition | |
| `Edge` | dedup and producer without a spool | extends `Topic`; webhooks; storefront events have the same code |
| `EdgeReplay` | `cmd/deliverygen` and `cmd/eventgen`, with `ReferenceDedup` and the read-back | extends `Edge` |
| `StreamReader` | the goroutines that read a topic's partitions into one channel | extends `Topic` |
| `Collector` | the goroutine behind the channel that inserts batches; `cmd/deliverygateway` and `cmd/deliveryburst` have the same | extends `StreamReader` |
| `Delivery` | `cmd/deliverygateway` with reader, store and rollup | extends `Edge` and `Collector` |
| `DrainLoop` | how `cmd/segmentbench` and `cmd/deliveryburst` wait for a lag of 0 | extends `StreamReader` |
| `Burst` | `cmd/deliveryburst`; the burst phase of `cmd/segmentbench` has the same phases and wait | extends `Edge`, `Collector` and `DrainLoop` |
| `DeliveryScale` | `cmd/deliveryscale`: load, `RefreshRollup`, exactness check, the dashboard's queries | |
| `Segments` | both answers of `internal/segment`: `Applied` and `EvaluateProfile` over a profile's Redis state, `Recompute` over the rows of the event log | no state; shared definitions of segments, as in the code |
| `SegmentBench` | `cmd/segmentbench` up to its comparison, with `ApplyEvent`, `reevaluate` and `Finalize` | extends `Segments` |
| `MCDedup`, `MCGateway`, `MCGatewayBench`, `MCDelivery`, `MCEdgeReplay`, `MCBurst`, `MCDeliveryScale`, `MCSegments` | values of the constants for TLC | |
| `DedupProofs`, `DeliveryProofs`, `BurstProofs`, `EdgeReplayProofs` | theorems and proofs about the module of that name | |
| `GatewayProofs`, `ScaleProofs`, `SegmentProofs` | theorems and proofs about `Gateway` and `GatewayBench`, about `DeliveryScale`, about `SegmentBench` | |
| `PipelineProofs` | lemmas about `Edge` and `Collector` that `DeliveryProofs` and `BurstProofs` share | |

Definitions whose comment starts with *Deviation* are not part of the
specification: each is a variant of the definition below it, with a slip such
code is prone to, and is there to test that the properties notice.

### State and actions of `Gateway`

| Variable | Code |
|---|---|
| `seen` | `Dedup.seen` |
| `conn[c]` | where the goroutine of connection `c` is: in `ReadMessage`, in `Produce`, before `Spool.Write` |
| `file` | the spool file, a sequence of records; a torn record is `Torn` |
| `sticky` | the `bufio.Writer` keeps its first error for ever |
| `batch` | the records of the running `drainOnce`, each queued for the semaphore, in `Produce`, before `Spool.Write`, or done |
| `late`, `topic` | copies in the Kafka writer whose caller is gone, copies in the topic |
| `brokerUp` | whether `Produce` is refused |
| `used`, `admits` | auxiliary: events counted against their bounds, admissions counted |

`ReceiveDuplicate`, `ReceiveNew`, `ConnProduce`, `ConnSpill` are the sections of
`handleIngest` and `Ingest`; `DrainTake`, `DrainReadFault` and `DrainFails` the
outcomes of `Spool.Drain`; `DrainLaunch`, `DrainProduce`, `DrainSpill`, `DrainEnds`
the loop of `drainOnce`, its goroutines and `wg.Wait`; `LateWrite`, `LateDrop`
the Kafka writer; `BrokerGoes`, `BrokerReturns`, `Restart` the environment.

A produce ends in one of three ways: acknowledged (with one copy, or with two
when an acknowledgement was lost on the way), refused, or given up after 200 ms
with the message still in the writer. A spool write appends the record, or fails
and makes the writer sticky, with or without a torn record in the file.
`ReadBacks` says what `Drain` reads from a file with a torn record: everything
before it; never the record right behind it, whose bytes the torn one takes; and
of the records behind that one any may be missed.

### State and actions of `Edge` and `Delivery`

| Variable | Code |
|---|---|
| `seen`, `call[s]` | `WebhookDedup`; the id a request has in `Produce` |
| `answers[i]` | what the senders of `i` were told: 200 accepted, 200 duplicate, or failed (502, or a connection that broke) |
| `late`, `part[p]` | as above; a partition of the topic |
| `offset`, `hand`, `alive` | per partition: the reader's offset, the message it waits to send, whether its goroutine still runs |
| `chan`, `chBatch`, `inserting` | the channel, the batch, the batch taken out by `flushCH` |
| `rows`, `rollup`, `refresh`, `lateFills` | the two tables; where `RefreshRollup` is; fills the store still works on after their caller gave up |

Every id is a group of the rollup of its own: counts of a real group are sums of
these.

### State and actions of `GatewayBench`

The variables of `Gateway`, and: `toSend[c]` and `wire[c]`, what the device of a
connection has still to write and the frames its handler has not read;
`written[r]`, the count of frames (`sentCount`); `main`, `unread`, `got`, the
read-back partition by partition; `bench`, which of the two programs it is;
`leftover`, auxiliary: the spool file an earlier run left was not empty.

`DeviceWrites` returns when the frame is in the socket; `HandlerReads` is the
`Receive` of `Gateway` on the frame that comes first; `AllSent` is `wg.Wait`,
which waits for devices and not for handlers; `WaitEnds` is the wait of
`cmd/outagebench` for an empty spool file or its deadline. The drainer empties
the file before it retries, so that the file's size says little: `WaitEnds` has
no further guard, and the properties say what can be concluded without one.

### State and actions of `EdgeReplay`

`delivered` is a corpus: every id, some again, in any order. `Ingest` and
`IngestReturns` are the send loop with its three counters; `ReadPartition` is
`ConsumeAvailable` on one partition, which may end early without an error;
`ReadFails` is a partition that cannot be read at all, which ends the program;
`Compare` is `equalIDSets` on what was read and `ReferenceDedup`.

### State and actions of `Burst`

| Variable | Code |
|---|---|
| `main`, `posted`, `returned` | the phase of main; the webhooks handed to workers; the workers that have seen `stop` |
| `consumer`, `consumed` | the consumer goroutine and its counter |
| `bounds`, `overdue`, `finalLag` | what `PartitionOffsets` has told so far, the deadline, the lag computed last |
| `failed` | auxiliary: kinds of failure that have happened |

The readers go on while the lag is computed, and the consumer stops at any
moment after `cancelConsume`, with messages left in the channel.

### State and actions of `DeliveryScale`

`raw` and `rollup` count each row of the corpus; `nextBatch`, `worker`, `returned`
are the shared counter and the workers; `lateInserts` are requests the store
works on after the client's timeout; `recompute` and `exact` are the check. The
tables may hold anything an earlier run has left. What channel, status and time
a row gets is drawn in `Init`, since nothing depends on it before the check. It
is assumed that no request of an earlier run, aborted in its load, still works
when this one starts.

### State and actions of `SegmentBench`

| Variable | Code |
|---|---|
| `corpus`, `sent`, `topic` | what `Build` made and how much of it the workers have sent; what Kafka holds |
| `taken`, `cons`, `consumed` | the consumer goroutine: messages it has received, where it is in `ApplyEvent`, the counter main waits for |
| `chBatch`, `inserting[g]`, `rows` | the batch both goroutines flush, what each of them is inserting, the events table |
| `stats[p]` | the hash `stats:p`, the hash `catviews:p` and the ZSET `purch:p` |
| `segs[p]`, `members[s]` | the sets `segments:p` and `segmember:s` |
| `delta[g]` | the membership delta a goroutine has computed and not yet written |
| `main`, `todo`, `exact` | where main is, the profiles of the sweep, the result of the comparison |
| `settled`, `spent` | auxiliary: whether all of the topic was applied when main stopped waiting; failures by kind |

`Receive`, `FlushTick` and `ConsumerInserted` are the consumer's `select` and its
`flushCH`; `ApplyStats`, `Reevaluate`, `WriteDelta` the three exchanges of
`ApplyEvent` with Redis, each with its failure; `StopWaiting`, `MainInserted`,
`Touched`, `Sweep`, `SweepWrites`, `Compare` what main does after it has sent the
corpus. A pipeline of Redis is no transaction: `DeltaCut` writes any part of a
delta that the order of its commands allows. The stats pipeline is carried out
not at all, once, or twice, when the client sends it again.

A category that is missing, a purchase's score in whole seconds, the inclusive
bound of the trim and `dateDiff` on whole seconds are modelled by what they do.
Prices are integers: how the two sums of floats round is left out.

## 3. What the runs check

Deadlock is checked as well in all passing runs but those of programs that end
(`edge_replay`, `burst`, `delivery_scale`, `segment_engine`).

| Run | Instance | Shows |
|---|---|---|
| `dedup_window` | 2 devices, 3 numbers, a cap of 2, 4 admissions per device | `Dedup` answers as the window does (`ImplementsWindow`); set and queue agree (`SetMatchesOrder`); no number comes back too early; memory is bounded (`TypeOK`) |
| `gateway` | 2 connections, 2 readings, 3 sends, cap 2, 2 retries at once; one timeout, two outages, two disk faults, one restart; fair; 0.8 million states | the semaphore's bound (`TypeOK`); `NoLoss`; `NoExtraCopies`; `TwiceOnlyAfterTimeoutOrRestart`; `DuplicateIsOnItsWay` and `SpooledSurvives`; `ImplementsForwarding`; `EventuallyForwarded`; `DrainAttemptEnds` |
| `gateway_bench` | 2 devices with a connection each, two readings and one, one repetition, one retry at once; a sound disk, a process that lives, a spool file that may hold a reading of an earlier run; 1.7 million states | `GoodMeansLanded`; `LostIsOnItsWay` |
| `delivery` | 2 concurrent requests, 2 ids, 2 partitions, cap 1, channel 1, batch 2; each failure once, two in all; fair | `NoSilentLoss`; `NoneSkipped`; `StoredOncePerStart`; `RollupNotAhead`; `EventuallyStored`; `RollupCatchesUp` |
| `edge_replay` | 3 ids, up to 2 repetitions in any order, 2 partitions; any produce may fail or come late, a resend, a cut read-back; 1.1 million states | `EdgeAgreesWithReference`; `VerdictIsFair` |
| `burst` | 1 worker, 4 webhooks, 2 partitions, channel 1, batch 2, one failure of any kind; fair; 1.1 million states | `DrainedIsInHand`; `DrainedWithin`; `ConsumedAreStored`; `BenchmarkEnds` |
| `delivery_scale` | 2 workers, 5 rows in batches of 2, 2 groups, 2 minutes and a window that starts within the first; two failed inserts; 1.6 million states | `LoadedOnce`; `ExactAfterLoad`; `WholeMinutesAgree` |
| `segment_engine` | 2 profiles, streams of 3 of 5 events in any order, one segment of each family, batch 2, one failure of any kind, a deadline at any moment | `AgreesWithRecompute`; `FinalizeResolves`; `UntimedNeverLag`; `SetsAgree` |

`DuplicateIsOnItsWay` and `SpooledSurvives` are stated for a sound disk: with a
failed write a reading is remembered and held nowhere, and with a read error
`Drain` destroys what it has not read. `NoLoss` and `ImplementsForwarding` say
that nothing but such a fault or a crash does so.

### Where the code differs from what it says

| Run | What happens | What is said |
|---|---|---|
| `gateway_crash_in_drain` | the file is truncated before anything in it is retried; a process that dies meanwhile loses all of it | "a reading is never lost between drain attempts", `internal/ingest/pipeline.go` |
| `gateway_sticky_writer` | after one failed write the spool is never drained again by this process | "written to disk, forward it later", `internal/ingest/spool.go` |
| `edge_duplicate` | a failed produce leaves the id behind; the retry is answered as a duplicate | "already on its way, or already landed", `internal/deliverystats/pipeline.go` |
| `segment_identical` | the trim of the purchase set takes a purchase that is exactly as old as the retention, and the recompute's window has it | "membership identical to a full recompute on all 50 test segments", `README.md` |

`AgreesWithRecompute` says for each family what it needs of the stream for both
answers to be one: purchase windows need no repetition and no purchase on a
boundary; views of a category and `never_purchased` need nothing; the number of
categories needs views that name one; activity needs the order of time; carts
and churn need it too, and whole seconds. Without `settled` and the end of the
consumer's last insert it fails: main flushes and compares while the consumer may
be inserting the batch it took out by its ticker, and the recompute misses rows.
A sweep that overtakes the consumer, because the deadline passed or a repeated
message filled the counter, writes a delta that is out of date, and a profile
that has bought is back in `never_purchased`; `UntimedNeverLag` therefore asks
that main waited for everything.

Seen in the models, without a run of their own:

- `Spool.Drain` takes a read error for the end of the file and truncates the
  unread records away (`DrainReadFault`); a record written behind a torn one
  after a restart is swallowed (`ReadBacks`).
- One error of `ReadMessage` ends a partition's reader for good, though it is
  said to consume "continuously"; `EventuallyStored` has to assume readers alive.
- After a restart of the delivery gateway the rollup counts every webhook twice,
  where the raw query counts distinct ids.
- `Reader.Offset` of a partition without a message is -2, so that its lag is 2
  for ever and the drain waits for its cap. When no round of offsets has
  succeeded by then, the lag stays -1, and the report says "drained".
- `cmd/outagebench`: `outageUntil` is set before the first device starts, and
  `Produce` compares only with that end, so that the outage begins at once; a
  spool file of an earlier run is drained into the new topic; since numbers are
  compared, an additional copy makes up for a missing reading; an empty file is
  not a cleared backlog, and the result then calls readings lost that are on
  their way (`LostIsOnItsWay`).
- `cmd/eventgen` does not create its topic, and the topics and seeds of the
  generators are fixed: a second run on the same topic reads the first one's
  messages as well. `EdgeReplay` starts with an empty topic.
- `cmd/deliveryscale -skip-load` with an empty log compares no pair at all and
  calls any rollup exact.
- `DashboardRawQuery` and `DashboardRollupQuery` are called "the identical
  dashboard question"; for the minute the window starts in, the first has an
  answer and the second none (`WholeMinutesAgree`).
- The dashboard shows whichever poll's answer comes last, which can be an older
  one until the next poll.

### Bounds

TLC explores every interleaving of these small instances. Two connections (two
requests) are what a race needs; two readings of one device are what dedup,
spool order and eviction need, and a device more only repeats them, since a
device's record is touched by its own readings alone (`MCDedup` has two). Three
sends allow a reading, its duplicate and one that evicts it. A cap of 2 never
evicts here, a cap of 1 always does. `Limit` bounds how often the environment
may do each thing; the runs together hold every pair of a fault with an outage,
a timeout or a restart. `DrainConcurrency` 1 makes the semaphore block, 2 lets
retries interleave. In `Delivery` the channel of 1 blocks both readers, and a
batch of 2 is flushed both full and by the ticker; `MaxFailures` bounds the
failures of a behaviour. The safety properties also hold with three requests and
all four failures in one behaviour (13 million states), too many to keep as a
run. In `SegmentBench` a second is 2 ticks, an hour one second, a day two seconds,
and purchases are kept for two days: windows open and close, and boundaries are
hit, within three events. The second profile's event lets time pass for the
first. In `Burst` four webhooks fill both readers' hands, the channel and a batch
at once, which is the most the cancellation can cut off. In `EdgeReplay` two
repetitions give an id three times or two ids twice, before, between or behind
the others. In `GatewayBench` the outage is over before the end, as in
`cmd/outagebench`, and connections do not break. In `DeliveryScale` the last
batch is a short one, and a late insert can come before, between and after the
requests of the refresh. The theorems of section 4 need none of these bounds.

### Fairness

`Gateway`: weak fairness for each handler's produce and spill, for the start of
a drain and for the steps of a drain that runs. The Go scheduler runs every
goroutine that can run; `Produce` ends within its 200 ms; disk calls return; the
ticker ticks. Nothing is assumed of devices, of the broker, of a failing disk or
of late messages. `EventuallyForwarded` states what it asks of them: a broker
that stays available and no failure of disk or process.

`Delivery`: weak fairness for each reader, the collector, the end of an insert
(the HTTP client has a timeout), and both requests of a refresh. `select` is not
assumed to be fair between channel and ticker.

`Burst`: weak fairness for answers to the workers, the timers of the phases and
of the deadline, the collector, the end of an insert, main's own steps and the
readers once they are cancelled. Nothing is assumed of the broker: readers may
read nothing, and the offsets may move at any time. `BenchmarkEnds` thus rests on
the deadline alone.

The properties of the other modules are safety properties, checked without
fairness.

## 4. What is proved

The theorems hold for every value of the constants under the named assumptions
of the modules:

- caps, sizes and `DrainConcurrency` are positive, limits are numbers
  (`CapAssumption`, `DedupAssumption`, `GatewayAssumption`, `EdgeAssumption`,
  `StreamAssumption`, `CollectorAssumption`, `DeliveryAssumption`,
  `ScaleAssumption`, `BenchAssumption` of `SegmentBench`), and every id has a
  partition (`TopicAssumption`);
- the list of segments is finite and each has the parameters of its family
  (`Parameters`): as `GenerateTestSegments` returns them, the thresholds are
  positive, the categories known and no window is longer than the 90 days Redis
  keeps a purchase; a day is a whole number of seconds, and no category is the
  missing one (`SegmentsAssumption`). Each event is of a known profile, has a
  time after the epoch and an integral price, names a known category or none,
  and its id is no other event's, as `Build` makes them (`BenchAssumption`);
- in `GatewayBench` each device has one connection and sends its numbers from 1
  on (its `BenchAssumption`); in `EdgeReplay` the corpus is finite and one loop
  sends it (`ReplayAssumption`);
- in `Burst` the webhooks are numbered, finitely many, since a run lasts a given
  time, and the topic has finitely many partitions (`BurstAssumption`).

Nothing bounds the sets of connections, devices, senders, ids, numbers, profiles,
events and workers; but for the ids and partitions of `Burst` and the ids of
`EdgeReplay` they may be infinite. Limits on failures are any numbers. Some
theorems have a hypothesis of their own:

- `TwiceOnlyAfterTimeoutOrRestartHolds` is about devices whose numbers fit the
  cap;
- `LoadedOnceHolds` is about at least one worker, since with `-insert-workers 0`
  the program loads nothing and goes on;
- `LostIsOnItsWayHolds` is about a sound disk, as `GatewayBench` is, and in the
  replay benchmark about devices whose readings fit the cap (`FitsCap`): a number
  sent again after it was evicted is admitted and counted a second time;
- `GoodMeansLandedHolds` is about finitely many readings, since the outage
  benchmark compares sums over them;
- `EdgeAgreesWithReference` and `VerdictIsFair` say themselves that the corpus
  fits the edge's set.

| Theorem | States |
|---|---|
| `DedupProofs!TypeCorrect`, `SetMatchesOrderHolds` | `Spec => []TypeOK`, `Spec => []SetMatchesOrder` |
| `DedupProofs!NoEarlyReadmissionHolds` | `Spec => []NoEarlyReadmission` |
| `DedupProofs!WindowImplemented` | `Spec => Window!Spec` |
| `GatewayProofs!TypeCorrect` | `Spec => []TypeOK`, with the semaphore's bound |
| `GatewayProofs!NoLossHolds` | `Spec => []NoLoss` |
| `GatewayProofs!ForwardingImplemented` | `Spec => ImplementsForwarding` |
| `GatewayProofs!DuplicateIsOnItsWayHolds`, `SpooledSurvivesHolds` | the two action properties, for a disk that works and any outages, timeouts and restarts |
| `GatewayProofs!NoExtraCopiesHolds` | `Spec => []NoExtraCopies`, disk faults and restarts included |
| `GatewayProofs!TwiceOnlyAfterTimeoutOrRestartHolds` | `Spec => []TwiceOnlyAfterTimeoutOrRestart`, for devices within the cap |
| `GatewayProofs!LostIsOnItsWayHolds` | `BenchSpec => []LostIsOnItsWay`, on a sound disk, in the replay benchmark for devices within the cap |
| `GatewayProofs!GoodMeansLandedHolds` | `BenchSpec => []GoodMeansLanded`, for finitely many readings |
| `EdgeReplayProofs!EdgeAgreesWithReferenceHolds`, `VerdictIsFairHolds` | `Spec => []EdgeAgreesWithReference`, `Spec => []VerdictIsFair` |
| `DeliveryProofs!NoSilentLossHolds` | `Spec => []NoSilentLoss`, for the whole service of `cmd/deliverygateway` |
| `DeliveryProofs!TypesHold` | `Spec => []TypeOK`, with the bounds of channel, batch and set of ids |
| `DeliveryProofs!NoneSkippedHolds`, `StoredOncePerStartHolds` | `Spec => []NoneSkipped`, `Spec => []StoredOncePerStart` |
| `DeliveryProofs!RollupNotAheadHolds` | `Spec => []RollupNotAhead` |
| `SegmentProofs!TypesHold` | `Spec => []TypeOK`: batches, and counter, hand and program counter in step |
| `SegmentProofs!SetsAgreeHolds` | `Spec => []SetsAgree` |
| `SegmentProofs!FinalizeResolvesHolds` | `Spec => FinalizeResolves` |
| `SegmentProofs!UntimedNeverLagHolds` | `Spec => []UntimedNeverLag`, for any stream, repetitions and missing messages included |
| `SegmentProofs!AgreesWithRecomputeHolds` | `Spec => AgreesWithRecompute`: all eight families, for any stream, order of the table's rows, segments and batch sizes |
| `ScaleProofs!LoadedOnceHolds` | `Spec => []LoadedOnce`, with at least one worker |
| `ScaleProofs!ExactAfterLoadHolds`, `WholeMinutesAgreeHolds` | `Spec => []ExactAfterLoad`, `Spec => []WholeMinutesAgree` |
| `BurstProofs!DrainedIsInHandHolds` | `Spec => []DrainedIsInHand` |
| `BurstProofs!ConsumedAreStoredHolds`, `DrainedWithinHolds` | `Spec => []ConsumedAreStored`, `Spec => []DrainedWithin` |

**Dedup.** `TypeOK` and `SetMatchesOrder` say nothing of the past, but whether a
number may be admitted again depends on it. The invariant adds `Mirrors`: the
eviction queue is the end of the history, all of it while it is shorter than the
cap. With it a number outside the set does not occur among the last cap's worth
of admissions, which gives the spacing of `NoEarlyReadmission` when one is
appended, and makes the answer the window's answer.

**Gateway, where readings are.** `NoLoss` alone is not inductive: a spool whose
writer has failed, or whose file holds a torn record, would lose readings without
a fault being counted. `IInv` adds `SoundSpool` (neither can be without a fault)
and `OnlyAdmitted` (what is anywhere was admitted). Each action is then shown to
have one of three effects on the readings (`Effect`): some that were present
vanish (`LosesSome`), one enters (`AcceptsR`), or one reaches the topic
(`ForwardsR`); and to keep a safe reading safe, to count a disk fault, or to
start afresh (`KeepsSafe`). `NoLoss` and the refinement both follow from the
effect, so that each action is looked at once. The refinement maps a reading to
`forwarded`, `onItsWay`, `lost` or `unknown` by where its copies are.

`DuplicateIsOnItsWay` needs one more conjunct, `RememberedIsSafe`: while the disk
works, what the dedup remembers is in the topic or held. `NoLoss` does not give
it, since a restart ends what `NoLoss` says; but a restart also empties the
dedup, and what is remembered afterwards was taken over by a handler afterwards
(`RememberedIsTakenOver`). `SpooledSurvives` follows from `SoundSpool`: a file
without a torn record is read back as a whole (`SpoolKept`).

**Gateway, how many copies there are.** `NoExtraCopies` weighs the copies of a
reading against its admissions and the late answers. Every step keeps that
balance (`Balanced`): what it takes from handlers, file or batch covers what it
adds, a new handler is paid for by an admission, and a second copy in the writer
by a timeout. To count over any set of connections at all, the invariant carries
`HandlersFinite`: a reading is with finitely many handlers, each of which has
come by one step. `TwiceOnlyAfterTimeoutOrRestart` follows once no device
evicts: `SeenWhole` (set and queue have the same size, which never passes the
cap) and `AdmittedOnce` (a number outside the set has not been admitted since the
last restart).

**Gateway benchmarks.** Each step of `GatewayBench` is a step of the gateway or
leaves it alone (`BenchIsGateway`), so the gateway's lemmas serve again; its
initial states are not the gateway's, since a run may find the spool file of an
earlier one. For `LostIsOnItsWay`, `SafeInv` says that a reading once written is on
the wire, in the topic or held: a handler that reads a frame off the wire takes it
over, or drops a duplicate of what is remembered, and that is safe
(`RememberedIsSafe`). That nothing came back too often rests on `SourceInv` (what
is admitted was written, and no more is read back than the topic holds), on
`CountedInv` (the outage benchmark sends a number once, so it is on the wire,
still to be sent or admitted, and only one of these) or `FittingInv` (within the
cap a number is remembered for good, so it is admitted once), and on
`NoExtraCopies`, which needs an empty file at the start. The verdict of the outage
benchmark compares numbers only: without resends and leftovers every reading was
read back at most as often as it was written, and two such sums are equal only if
their terms are (`EqualSums`).

**Generators.** `ReferenceDedup` folds over the corpus, and the corpus is sent
element by element, so the induction is over the state: `PrefixResults` names the
results of the reference after each element (`ReferenceIsFold` and
`PrefixesExist` show that they exist and that the last one is the fold), and
`SendInv` says that at any moment the edge's set and the counters are those of the
result reached so far (`Agrees`). Since the corpus fits the edge's set, nothing is
ever evicted (`NothingForgotten`). For the verdict, `TopicInv` follows the topic:
as long as no produce failed and every webhook took one write (`Quiet`), an id is
there once if the edge knows it and no call has it, and otherwise not at all; and
`ReadInv` says that what was read back is what the partitions hold that were read.

**Delivery, its edge.** `NoSilentLoss` alone is not inductive: a duplicate answer
relies on what the set of ids holds, so `EdgeInv` adds `SeenIsTraceable` (an id in
the set has landed, is in a call, or some sender of it was told of a failure) and
the types of the calls. `PipelineProofs` shows for each action of the edge which
effect it has on calls, answers, set and topic (`EdgeEffect`), and that every
effect keeps the invariant: an id leaves its call by landing or by a "failed"
answer, and what has landed stays. `DeliveryProofs` then needs only that every
step of the service is a step of the edge, a restart of it, or leaves the edge
alone (`NextIsEdgeStep`).

**Delivery, behind the topic.** `PipelineProofs` also counts for each id its rows, its
copies in hands, channel, batch and insert, and its messages that are not read
yet (`Ledger`). Reading, sending, collecting and inserting keep the ledger and
the topic (`Balanced`), a failed insert may lower it (`Drops`), a webhook that
lands raises both by the same number (`Grows`), and a restart forgets what is in
flight and reads the topic again (`Rereads`). For `Rereads` a message has to be in
the partition its key names, and in the hand of that partition's reader
(`Placed`). `NoneSkipped` and `StoredOncePerStart` are the two sides of the
balance: without a failed insert the ledger is at least the topic, and it is at
most the topic times the starts. `RollupNotAhead` is about products, rows times
fills; `RollupInv` bounds the fills the rollup may hold by one, unless the table
has just been truncated, plus the refreshes and starts that failed and whose late
fill is not still to come (`FillsHeld`), and each late fill by the rows, which
only grow.

**Segments.** `TypeInv` describes the whole benchmark, and in it what keeps the
goroutines apart: where the consumer is decides what is in its hand, in its
delta and in its counter. For
`SetsAgree` the pairs that are in one Redis set and not in the other are the set
`Torn`; a pipeline of `Write` adds none, one that is cut adds at most the pair
whose two commands it came between (`TearsOne`), and each cut is an error of Redis that
is counted, so `TornInv` bounds the set's size, although two goroutines write
deltas computed from states that have changed since. `FinalizeResolves` needs that
only profiles with an event in Redis have a membership, also in the deltas still
to be written (`TouchedInv`), so that the sweep, which visits the touched ones,
leaves none out; that a consumer which has applied the whole topic has no step
left that writes (`SettledInv`); and that the profiles the sweep is done with are
as of the corpus's end (`SweptInv`).

`UntimedNeverLag` relates what Redis keeps of a profile to what a query counts in
the topic. While Redis has not failed, the profile's hashes are counts of its
messages among those applied (`CountInv`, whose bound `AppliedTo` includes the
event in hand once its stats pipeline is done; `HandInv` says the hand is the
topic's next message). So both answers are one in a family without a time
(`UntimedAgree`), whatever the time of the evaluation (`AnyTime`), and no message
is later than the corpus (`LatestBounds`), so the recompute sees them all. The membership itself may be
behind only for the profile in the consumer's hand, and then what is behind is in
its delta (`LagInv`). Since Redis has not failed no pair is torn (`TornKeeps`),
which carries the result from `segments:p` to `segmember:s`.

`AgreesWithRecompute` joins three arguments.
(1) *The table holds the topic's events, in whatever order.* While the store has
not failed, each set of events is as often in the table, the two inserts and the
batch together as among the messages taken (`StoredInv`); at a fair comparison
inserts and batch are empty (`IdleInv`), so for each set of events topic and table
hold equally many (`SameEvents`). Every query has then one answer over both
(`SameHaving`): a group is the positions of a set of events (`GroupsAre`), whose
number, values, latest time and, where no message is repeated, sum of prices depend
on nothing else.
(2) *Redis remembers of a profile what a query would find.* While Redis has not
failed, `HistoryInv` says it of times and purchases as `CountInv` does of counts:
the three times are those of the last message of their kind, and a purchase is a
member of the ZSET unless some purchase applied trimmed it away (`HoldsPurchases`),
which need not have come after it in time. In order, the last message is the latest
(`LastIsLatest`). On whole seconds scores and `dateDiff` compare as the times do
(`SecOrder`, `DaysPassedIs`), and then nothing trimmed is in a window of at most the
retention, provided no two purchases are exactly the retention apart
(`KeptInWindow`): the members in the window and the rows in it correspond
one to one, with equal prices (`WindowIs`). Hence the timed families (`TimedAgree`),
each from exactly what `Comparable` asks of it.
(3) *The set is what Redis remembers, as of the corpus's end*, by `SweptInv`
and `TornInv`.

**Scale.** `ClaimInv` says where a claimed batch can be: with one worker, with the
store after the client's timeout, or settled. `RawInv` keeps a row from being
stored twice: it is stored only if its batch was claimed and is not pending, and
batches share no row (`BatchesDisjoint`, which needs arithmetic on products).
`CompleteInv` says that without a failure a claimed batch which no worker holds
is in the table, so that once every worker has found no batch left all rows are,
and the count that the program reports is theirs. `FilledInv` follows the tables
from the fill to the verdict: unless a late insert came in between they are equal
row by row, hence in every group and, since a row is stored once, the raw
query's distinct count is the rollup's sum.

**Burst.** A lag of zero is computed from offsets that main asked for one
partition after the other, while readers go on. It means something because the
workers are done before the first question (`SendingInv`) and because an accepted
webhook is in the topic for good and in no writer (`PostInv`): so each bound
covers what was accepted, and a reader whose offset has reached its bound has read
all of it (`LagInv`, `ReadOff`). With the ledger, which is kept until the consumer
is cancelled (`LedgerInv`), what was read is stored or in flight:
`DrainedIsInHand`. After the cancellation a reader may drop the one message it
holds and then runs no more (`MissingInv`: at most one webhook per partition), and
what stays in the channel is at most `ChanCap`: `DrainedWithin`. For
`ConsumedAreStored` the counter is compared with the sum over all rows
(`ConsumedInv`).

**Folds.** `MapThenSumSet` and `FoldLeft` are folds over a finite set, and what they
compute is proved by induction over finite sets. The library states that induction for an operator parameter,
which the provers cannot instantiate; the proofs take a least counterexample
among the subsets of a finite set instead (`LeastSubset`), by the
well-foundedness of strict inclusion.

Only model-checked: liveness, and all that rests on fairness, which the prover
does not reach: `EventuallyForwarded`, `DrainAttemptEnds`, `EventuallyStored`,
`RollupCatchesUp`, `BenchmarkEnds`. Every other property of the passing runs is
proved.

## 5. What is not modelled

- The bytes of the spool: records behind a torn one that happen to decode as a
  reading nobody wrote; two faults inside one `Drain` call; the seek after the
  truncation failing; `Close`.
- Frames that do not parse and requests that are refused for their form: nothing
  changes. Connections that open or close: a connection that reads nothing is one.
- Effects of a failed store call that come later than the call, but for the fill.
- Contents of messages: readings, events and webhooks are their keys.
- In `SegmentBench`: a stats pipeline cut in its middle; an evaluation whose
  several reads see the other goroutine's writes in between; one pipeline of a
  goroutine running between the commands of the other's; the partitions' readers,
  which only delay messages or, as in `Delivery`, stop. The burst phase of
  `cmd/segmentbench` is `Burst` with `ApplyEvent` in place of the collected batch.
- `cmd/loadcurve`, `cmd/throughputbench` and `cmd/deliverythroughput` (with
  `DeliveryBatchProducer`) call their pipeline in a loop and print rates; they
  share no state but counters. `cmd/soak` watches the size of the dedup, whose
  bound is `Dedup!TypeOK`.
- A second run of a generator or benchmark on the same topic, and a topic that
  does not exist.
- The dashboard, which keeps nothing but the last answer.
- Generated code, the contents of random corpora, latencies.

## 6. Plan

Done: the gateway, its window, its abstract specification and the benchmarks on
top of it; the delivery service with its edge, readers and tables; the generators;
the segment engine; the burst and scale benchmarks. All with theorems: every
invariant and every action property that the passing runs check is proved, and
so is the refinement of the window and of the forwarding.

Left: liveness stays with TLC. Of what section 5 lists, the reads of an evaluation
that see the other goroutine's writes in between would be the next to model.
