------------------------------ MODULE Collector -------------------------------
(***************************************************************************)
(* The goroutine behind a stream reader that collects messages and inserts *)
(* them in batches.  It is the same in cmd/deliverygateway and             *)
(* cmd/deliveryburst but for the size of a batch.                          *)
(***************************************************************************)
EXTENDS StreamReader

CONSTANT BatchSize   \* chBatchSize; 200 and 500 in the code

ASSUME CollectorAssumption == BatchSize \in Nat \ {0}

VARIABLES
  chBatch,     \* the batch that is collected
  inserting,   \* the batch InsertBatch is sending, << >> between inserts
  rows         \* rows[i]: rows of i in delivery_events

consumerVars == <<readerVars, chBatch, inserting, rows>>

Nothing == [i \in Ids |-> 0]
Plus(counts, q) == [i \in Ids |-> counts[i] + CountIn(q, i)]

CollectorInit ==
  /\ StreamInit
  /\ chBatch = << >>
  /\ inserting = << >>
  /\ rows = Nothing

\* One step of the reader goroutine of p.
Reads(p) == (ReadMessage(p) \/ Send(p)) /\ UNCHANGED <<chBatch, inserting, rows>>

Waiting == inserting = << >>       \* in its select

\* Deviation: the batch is not taken out.
FlushKeepsBatch(batch) == inserting' = batch /\ chBatch' = batch

\* flushCH up to the insert: the batch is taken out before it is stored.
Flush(batch) == inserting' = batch /\ chBatch' = << >>

\* Deviation: the batch is flushed one message late.
ReceiveFlushesLate ==
  /\ Waiting
  /\ chan # << >>
  /\ chan' = Tail(chan)
  /\ LET batch == Append(chBatch, Head(chan)) IN
     IF Len(batch) > BatchSize
     THEN Flush(batch)
     ELSE chBatch' = batch /\ UNCHANGED inserting
  /\ UNCHANGED <<offset, hand, alive, rows>>

Receive ==
  /\ Waiting
  /\ chan # << >>
  /\ chan' = Tail(chan)
  /\ LET batch == Append(chBatch, Head(chan)) IN
     IF Len(batch) >= BatchSize
     THEN Flush(batch)
     ELSE chBatch' = batch /\ UNCHANGED inserting
  /\ UNCHANGED <<offset, hand, alive, rows>>

\* Deviation: the ticker leaves a batch that is not full to the next message.
FlushTickFull ==
  /\ Waiting
  /\ Len(chBatch) >= BatchSize
  /\ Flush(chBatch)
  /\ UNCHANGED <<readerVars, rows>>

FlushTick ==
  /\ Waiting
  /\ chBatch # << >>
  /\ Flush(chBatch)
  /\ UNCHANGED <<readerVars, rows>>

InsertStores ==
  /\ inserting # << >>
  /\ rows' = Plus(rows, inserting)
  /\ inserting' = << >>
  /\ UNCHANGED <<readerVars, chBatch>>

\* The error is logged and the batch is gone; the store may have taken it.
InsertFails ==
  /\ inserting # << >>
  /\ rows' \in {rows, Plus(rows, inserting)}
  /\ inserting' = << >>
  /\ UNCHANGED <<readerVars, chBatch>>

CollectorTypes ==
  /\ StreamTypes
  /\ chBatch \in Seq(Ids) /\ Len(chBatch) < BatchSize
  /\ inserting \in Seq(Ids) /\ Len(inserting) <= BatchSize
  /\ rows \in [Ids -> Nat]

Unread(i) == Cardinality({n \in CopiesOf(i) : n > offset[Home[i]]})
InFlight(i) ==
  CountIn(hand[Home[i]], i) + CountIn(chan, i) + CountIn(chBatch, i) + CountIn(inserting, i)

=============================================================================
