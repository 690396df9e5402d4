---------------------------- MODULE DeliveryProofs ----------------------------
(***************************************************************************)
(* What the delivery service promises its providers holds whatever the     *)
(* goroutines behind the topic do, and across restarts; behind the topic   *)
(* no message is skipped or stored more often than the process starts, and *)
(* the rollup does not run ahead of what is stored.                        *)
(***************************************************************************)
EXTENDS Delivery, PipelineProofs

\* Every step of the service is a step of its edge, a restart of it, or none
\* of its business.
LEMMA NextIsEdgeStep ==
  [Next]_vars => EdgeNext \/ EdgeRestart \/ UNCHANGED edgeVars
<1>1. EdgeStep => EdgeNext
  BY DEF EdgeStep
<1>2. ASSUME NEW p \in Partitions, ReaderStep(p) \/ ReaderFails(p) PROVE UNCHANGED edgeVars
  BY <1>2 DEF ReaderStep, ReaderFails
<1>3. Collect \/ InsertEnds => UNCHANGED edgeVars
  BY DEF Collect, InsertEnds
<1>4. Truncate \/ TruncateFails \/ Fill \/ FillFails \/ FillEnds => UNCHANGED edgeVars
  BY DEF Truncate, TruncateFails, Fill, FillFails, FillEnds
<1>5. Restart => EdgeRestart
  BY DEF Restart
<1>6. UNCHANGED vars => UNCHANGED edgeVars
  BY DEF vars
<1> QED
  BY <1>1, <1>2, <1>3, <1>4, <1>5, <1>6 DEF Next

\* No webhook disappears without a sender of it being told, however many
\* senders, partitions and failures there are (Pipeline.Ingest, main's
\* handler).
THEOREM NoSilentLossHolds == Spec => []NoSilentLoss
<1>1. Init => EdgeInv
  BY InitEdgeInv DEF Init
<1>2. EdgeInv /\ [Next]_vars => EdgeInv'
  BY NextIsEdgeStep, EdgeKeepsInv
<1>3. EdgeInv => NoSilentLoss
  BY DEF EdgeInv
<1> QED
  BY <1>1, <1>2, <1>3, PTL DEF Spec

-----------------------------------------------------------------------------
(* Types.                                                                  *)

RollupTypes ==
  /\ rollup \in [Ids -> Nat]
  /\ refresh \in {"idle", "truncated"}
  /\ lateFills \in Seq([Ids -> Nat])
  /\ spent \in [Kinds -> Nat]

DataInv == EdgeInv /\ EdgeData /\ ConsumerInv /\ RollupTypes

LEMMA SpendFacts ==
  ASSUME spent \in [Kinds -> Nat], NEW kind \in Kinds, Spend(kind)
  PROVE  /\ spent' \in [Kinds -> Nat]
         /\ spent'[kind] = spent[kind] + 1
         /\ \A k \in Kinds : k # kind => spent'[k] = spent[k]
BY DEF Spend

\* A restart forgets what is in flight and reads the whole topic again.
Rereads ==
  \A j \in Ids : /\ InTopic(j)' = InTopic(j)
                 /\ InTopic(j) <= Ledger(j)'
                 /\ Ledger(j)' <= Ledger(j) + InTopic(j)
                 /\ Ledger(j)' \in Nat

LEMMA RestartRereads ==
  ASSUME ConsumerInv, Restart
  PROVE  ConsumerInv' /\ Rereads
<1>1. /\ offset' = FromFirst /\ hand' = NoneInHand
      /\ alive' = [p \in Partitions |-> TRUE]
      /\ chan' = << >> /\ chBatch' = << >> /\ inserting' = << >>
      /\ rows' = rows \/ rows' = Plus(rows, inserting)
      /\ part' = part
  BY DEF Restart, EdgeRestart
<1>2. \A j \in Ids : CountIn(inserting, j) \in Nat /\ rows[j] \in Nat
  BY Countable
<1>3. rows' \in [Ids -> Nat]
  BY <1>1, <1>2 DEF Plus, ConsumerInv, CollectorTypes
<1>4. /\ offset' \in [Partitions -> Nat]
      /\ \A p \in Partitions : offset'[p] = 0 /\ hand'[p] = << >>
  BY <1>1 DEF FromFirst, NoneInHand
<1>5. StreamTypes'
  <2>1. \A p \in Partitions : offset'[p] \in 0 .. Len(part'[p])
    BY <1>1, <1>4 DEF ConsumerInv
  <2>2. hand' \in [Partitions -> {<< >>} \cup {<<i>> : i \in Ids}]
    BY <1>1 DEF NoneInHand
  <2> QED
    BY <1>1, <2>1, <2>2, StreamAssumption DEF StreamTypes
<1>6. CollectorTypes'
  BY <1>1, <1>3, <1>5, CollectorAssumption DEF CollectorTypes
<1>7. ConsumerInv'
  BY <1>1, <1>4, <1>6 DEF ConsumerInv, Placed
<1>8. ASSUME NEW j \in Ids
      PROVE  /\ InTopic(j)' = InTopic(j) /\ InTopic(j) <= Ledger(j)'
             /\ Ledger(j)' <= Ledger(j) + InTopic(j) /\ Ledger(j)' \in Nat
  <2>1. Home[j] \in Partitions /\ InTopic(j) \in Nat
    BY Countable
  <2>2. InTopic(j)' = InTopic(j)
    BY <1>1 DEF InTopic, CopiesOf
  <2>3. Unread(j)' = InTopic(j)
    <3>1. {n \in CopiesOf(j) : n > offset'[Home[j]]} = CopiesOf(j)
      <4>1. offset'[Home[j]] = 0
        BY <1>4, <2>1
      <4>2. \A n \in CopiesOf(j) : n > 0
        BY <2>1 DEF CopiesOf, ConsumerInv
      <4> QED
        BY <4>1, <4>2
    <3>2. CopiesOf(j)' = CopiesOf(j)
      BY <1>1 DEF CopiesOf
    <3> QED
      BY <3>1, <3>2 DEF Unread, InTopic
  <2>4. InFlight(j)' = 0
    BY <1>1, <1>4, <2>1, CountEmpty DEF InFlight
  <2>5. rows'[j] = rows[j] \/ rows'[j] = rows[j] + CountIn(inserting, j)
    BY <1>1 DEF Plus
  <2>6. /\ rows[j] \in Nat /\ CountIn(inserting, j) \in Nat /\ Unread(j) \in Nat
        /\ CountIn(hand[Home[j]], j) \in Nat /\ CountIn(chan, j) \in Nat
        /\ CountIn(chBatch, j) \in Nat
    BY Countable
  <2>7. Ledger(j)' = rows'[j] + InTopic(j)
    <3>1. Ledger(j)' = rows'[j] + InFlight(j)' + Unread(j)'
      BY DEF Ledger
    <3> QED
      BY <2>1, <2>3, <2>4, <2>5, <2>6, <3>1
  <2>8. rows[j] + CountIn(inserting, j) <= Ledger(j) /\ Ledger(j) \in Nat
    BY <2>6 DEF Ledger, InFlight
  <2> QED
    BY <2>1, <2>2, <2>5, <2>6, <2>7, <2>8
<1> QED
  BY <1>7, <1>8 DEF Rereads

\* What any step does to the counts of the messages, and to those of the
\* failures that matter for them.
StepEffect ==
  \/ Grows /\ spent'["inserts"] = spent["inserts"] /\ spent'["crashes"] = spent["crashes"]
  \/ Drops /\ spent'["inserts"] = spent["inserts"] + 1 /\ spent'["crashes"] = spent["crashes"]
  \/ Rereads /\ spent'["inserts"] = spent["inserts"] /\ spent'["crashes"] = spent["crashes"] + 1

LEMMA EdgeStepEffect ==
  ASSUME DataInv, EdgeStep
  PROVE  ConsumerInv' /\ Grows
<1>1. /\ EdgeNext /\ UNCHANGED consumerVars
      /\ UNCHANGED <<offset, hand, alive, chan, chBatch, inserting, rows>>
  BY DEF EdgeStep, consumerVars, readerVars
<1>2. UNCHANGED part => ConsumerInv' /\ Grows
  BY <1>1, QuietStep DEF DataInv, ConsumerInv, CollectorTypes, StreamTypes
<1>3. ASSUME NEW i \in Ids, Stored(i) PROVE ConsumerInv' /\ Grows
  BY <1>1, <1>3, StoredGrows DEF DataInv
<1>4. ASSUME NEW s \in Senders, NEW i \in Ids, PostDuplicate(s, i) \/ PostNew(s, i)
      PROVE  UNCHANGED part
  BY <1>4 DEF PostDuplicate, PostNew
<1>5. ASSUME NEW s \in Senders, ProduceAcked(s) \/ ProduceFails(s)
      PROVE  UNCHANGED part \/ \E i \in Ids : Stored(i)
  BY <1>5 DEF ProduceAcked, ProduceFails, DataInv, EdgeInv, CallTypes
<1>6. ASSUME NEW i \in Ids, LateWrite(i) \/ LateDrop(i)
      PROVE  UNCHANGED part \/ Stored(i)
  BY <1>6 DEF LateWrite, LateDrop
<1> QED
  BY <1>1, <1>2, <1>3, <1>4, <1>5, <1>6 DEF EdgeNext

LEMMA ConsumerEffect ==
  ASSUME DataInv, [Next]_vars
  PROVE  ConsumerInv' /\ StepEffect /\ spent' \in [Kinds -> Nat]
<1>1. ConsumerInv /\ spent \in [Kinds -> Nat] /\ alive \in [Partitions -> BOOLEAN]
  BY DEF DataInv, RollupTypes, ConsumerInv, CollectorTypes, StreamTypes
<1>2. \A k \in {"outages", "inserts", "refreshes", "crashes"} : k \in Kinds
  BY DEF Kinds
<1>3. ASSUME NEW k \in {"outages", "refreshes"}, Spend(k)
      PROVE  /\ spent' \in [Kinds -> Nat]
             /\ spent'["inserts"] = spent["inserts"] /\ spent'["crashes"] = spent["crashes"]
  BY <1>1, <1>2, <1>3, SpendFacts
<1>4. CASE EdgeStep
  BY <1>1, <1>4, EdgeStepEffect DEF EdgeStep, StepEffect
<1>5. ASSUME NEW p \in Partitions, ReaderStep(p) PROVE ConsumerInv' /\ StepEffect /\ spent' = spent
  <2>1. UNCHANGED <<part, chBatch, inserting, rows, spent>> /\ (ReadMessage(p) \/ Send(p))
    BY <1>5 DEF ReaderStep, Reads, edgeVars
  <2> QED
    BY <1>1, <2>1, ReadMessageBalanced, SendBalanced, BalancedGrows DEF StepEffect
<1>6. ASSUME NEW p \in Partitions, ReaderFails(p) PROVE ConsumerInv' /\ StepEffect /\ Spend("outages")
  <2>1. /\ UNCHANGED <<part, offset, hand, chan, chBatch, inserting, rows>>
        /\ alive' = [alive EXCEPT ![p] = FALSE] /\ Spend("outages")
    BY <1>6 DEF ReaderFails, ReaderReturns, edgeVars
  <2>2. alive' \in [Partitions -> BOOLEAN]
    BY <1>1, <2>1
  <2> QED
    BY <1>1, <1>3, <2>1, <2>2, QuietStep DEF StepEffect
<1>7. CASE Collect
  <2>1. UNCHANGED <<part, spent>> /\ (Receive \/ FlushTick)
    BY <1>7 DEF Collect, edgeVars
  <2>2. FlushTick => ConsumerInv' /\ Balanced
    BY <1>1, <2>1, BatchBalanced DEF FlushTick
  <2> QED
    BY <1>1, <2>1, <2>2, ReceiveBalanced, BalancedGrows DEF StepEffect
<1>8. CASE InsertEnds
  <2>1. UNCHANGED <<part, readerVars, chBatch>> /\ inserting' = << >>
    BY <1>8 DEF InsertEnds, InsertStores, InsertFails, edgeVars
  <2>2. rows' = rows \/ rows' = Plus(rows, inserting)
    BY <1>8 DEF InsertEnds, InsertStores, InsertFails
  <2>3. ConsumerInv'
    <3>1. rows' \in [Ids -> Nat]
      <4>1. \A i \in Ids : rows[i] \in Nat /\ CountIn(inserting, i) \in Nat
        BY <1>1, Countable
      <4>2. rows \in [Ids -> Nat]
        BY <1>1 DEF ConsumerInv, CollectorTypes
      <4> QED
        BY <2>2, <4>1, <4>2 DEF Plus
    <3>2. inserting' \in Seq(Ids) /\ Len(inserting') <= BatchSize
      BY <2>1, CollectorAssumption
    <3> QED
      BY <1>1, <2>1, <3>1, <3>2 DEF readerVars, ConsumerInv, CollectorTypes, StreamTypes, Placed
  <2>4. ASSUME NEW i \in Ids
        PROVE  /\ InTopic(i)' = InTopic(i)
               /\ Ledger(i)' <= Ledger(i) /\ Ledger(i)' \in Nat
               /\ rows' = Plus(rows, inserting) => Ledger(i)' = Ledger(i)
    <3>1. /\ InTopic(i)' = InTopic(i)
          /\ Ledger(i)' = Ledger(i) - CountIn(inserting, i) + (rows'[i] - rows[i])
          /\ rows'[i] = rows[i] \/ rows'[i] = rows[i] + CountIn(inserting, i)
          /\ Ledger(i)' \in Nat
      BY <1>1, <2>1, <2>2, InsertLeaves
    <3>2. Ledger(i) \in Nat /\ CountIn(inserting, i) \in Nat /\ rows[i] \in Nat
      BY <1>1, Countable
    <3>3. rows' = Plus(rows, inserting) => rows'[i] = rows[i] + CountIn(inserting, i)
      BY DEF Plus
    <3> QED
      BY <3>1, <3>2, <3>3
  <2>5. CASE InsertStores /\ UNCHANGED spent
    <3>1. rows' = Plus(rows, inserting)
      BY <2>5 DEF InsertStores
    <3>2. Balanced
      BY <2>4, <3>1 DEF Balanced
    <3> QED
      BY <1>1, <2>3, <2>5, <3>2, BalancedGrows DEF StepEffect
  <2>6. CASE InsertFails /\ Spend("inserts")
    <3>1. Drops
      BY <2>4 DEF Drops
    <3>2. /\ spent' \in [Kinds -> Nat] /\ spent'["inserts"] = spent["inserts"] + 1
          /\ spent'["crashes"] = spent["crashes"]
      BY <1>1, <1>2, <2>6, SpendFacts
    <3> QED
      BY <2>3, <3>1, <3>2 DEF StepEffect
  <2> QED
    BY <1>8, <2>5, <2>6 DEF InsertEnds
<1>9. CASE Truncate \/ TruncateFails \/ Fill \/ FillFails \/ FillEnds \/ UNCHANGED vars
  <2>1. UNCHANGED <<part, offset, hand, alive, chan, chBatch, inserting, rows>>
    BY <1>9 DEF Truncate, TruncateFails, Fill, FillFails, FillEnds, vars, edgeVars,
                consumerVars, readerVars
  <2>2. UNCHANGED spent \/ Spend("refreshes")
    BY <1>9 DEF Truncate, TruncateFails, Fill, FillFails, FillEnds, vars
  <2>3. ConsumerInv' /\ Grows
    BY <1>1, <2>1, QuietStep
  <2> QED
    BY <1>1, <1>3, <2>2, <2>3 DEF StepEffect
<1>10. CASE Restart
  <2>1. /\ spent' \in [Kinds -> Nat] /\ spent'["inserts"] = spent["inserts"]
        /\ spent'["crashes"] = spent["crashes"] + 1
    BY <1>1, <1>2, <1>10, SpendFacts DEF Restart
  <2> QED
    BY <1>1, <1>10, <2>1, RestartRereads DEF StepEffect
<1> QED
  BY <1>1, <1>3, <1>4, <1>5, <1>6, <1>7, <1>8, <1>9, <1>10 DEF Next, EdgeStep, Collect, InsertEnds

-----------------------------------------------------------------------------
(* The theorems about the way from the topic to the table.                 *)

LEMMA RollupTypesKept ==
  ASSUME DataInv, [Next]_vars, ConsumerInv', spent' \in [Kinds -> Nat]
  PROVE  RollupTypes'
<1>1. /\ rollup \in [Ids -> Nat] /\ refresh \in {"idle", "truncated"}
      /\ lateFills \in Seq([Ids -> Nat]) /\ rows \in [Ids -> Nat]
  BY DEF DataInv, RollupTypes, ConsumerInv, CollectorTypes
<1>2. CASE Truncate \/ TruncateFails \/ Fill
  <2>1. rollup' = rollup \/ rollup' = Nothing \/ rollup' = [i \in Ids |-> rollup[i] + rows[i]]
    BY <1>2 DEF Truncate, TruncateFails, Fill
  <2>2. rollup' \in [Ids -> Nat]
    BY <1>1, <2>1 DEF Nothing
  <2>3. refresh' \in {"idle", "truncated"} /\ lateFills' = lateFills
    BY <1>1, <1>2 DEF Truncate, TruncateFails, Fill
  <2> QED
    BY <1>1, <2>2, <2>3 DEF RollupTypes
<1>3. CASE FillEnds
  <2>1. /\ lateFills # << >> /\ refresh' = refresh /\ lateFills' = Tail(lateFills)
        /\ rollup' = [i \in Ids |-> rollup[i] + Head(lateFills)[i]]
    BY <1>3 DEF FillEnds
  <2>2. Head(lateFills) \in [Ids -> Nat] /\ Tail(lateFills) \in Seq([Ids -> Nat])
    BY <1>1, <2>1, HeadTailProperties
  <2>3. rollup' \in [Ids -> Nat]
    BY <1>1, <2>1, <2>2
  <2> QED
    BY <1>1, <2>1, <2>2, <2>3 DEF RollupTypes
<1>4. CASE FillFails \/ Restart
  <2>1. /\ refresh' = "idle" /\ rollup' = rollup
        /\ lateFills' = lateFills \/ lateFills' = Append(lateFills, rows)
    BY <1>4 DEF FillFails, Restart
  <2>2. lateFills' \in Seq([Ids -> Nat])
    <3>1. Append(lateFills, rows) \in Seq([Ids -> Nat])
      BY <1>1
    <3> QED
      BY <1>1, <2>1, <3>1
  <2> QED
    BY <1>1, <2>1, <2>2 DEF RollupTypes
<1>5. CASE UNCHANGED rollupVars
  BY <1>1, <1>5 DEF rollupVars, RollupTypes
<1>6. ASSUME NEW p \in Partitions, ReaderStep(p) \/ ReaderFails(p) PROVE UNCHANGED rollupVars
  BY <1>6 DEF ReaderStep, ReaderFails
<1>7. EdgeStep \/ Collect \/ InsertEnds \/ UNCHANGED vars => UNCHANGED rollupVars
  BY DEF EdgeStep, Collect, InsertEnds, vars
<1> QED
  BY <1>2, <1>3, <1>4, <1>5, <1>6, <1>7 DEF Next

LEMMA NothingCounts ==
  ASSUME NEW i \in Ids, EdgeInit, CollectorInit
  PROVE  Ledger(i) = 0 /\ InTopic(i) = 0
<1>1. /\ part = [p \in Partitions |-> << >>] /\ hand = NoneInHand
      /\ chan = << >> /\ chBatch = << >> /\ inserting = << >> /\ rows = Nothing
  BY DEF EdgeInit, EnsureTopic, CollectorInit, StreamInit
<1>2. Home[i] \in Partitions
  BY TopicAssumption
<1>3. CopiesOf(i) = {}
  BY <1>1, <1>2 DEF CopiesOf
<1>4. Unread(i) = 0 /\ InTopic(i) = 0
  <2>1. {n \in CopiesOf(i) : n > offset[Home[i]]} = {}
    BY <1>3
  <2> QED
    BY <1>3, <2>1, FS_EmptySet DEF Unread, InTopic
<1>5. InFlight(i) = 0
  BY <1>1, <1>2, CountEmpty DEF InFlight, NoneInHand
<1>6. rows[i] = 0
  BY <1>1 DEF Nothing
<1> QED
  BY <1>4, <1>5, <1>6 DEF Ledger

LEMMA InitDataInv == Init => DataInv
<1> SUFFICES ASSUME Init PROVE DataInv
  OBVIOUS
<1>1. EdgeInit /\ CollectorInit
  BY DEF Init
<1>2. StreamTypes
  <2>1. hand \in [Partitions -> {<< >>} \cup {<<i>> : i \in Ids}]
    BY <1>1 DEF CollectorInit, StreamInit, NoneInHand
  <2> QED
    BY <1>1, <2>1, StreamAssumption DEF CollectorInit, StreamInit, StreamTypes, FromFirst, EdgeInit, EnsureTopic
<1>3. CollectorTypes
  BY <1>1, <1>2, CollectorAssumption DEF CollectorInit, CollectorTypes, Nothing
<1>4. ConsumerInv
  BY <1>1, <1>3 DEF CollectorInit, StreamInit, ConsumerInv, FromFirst, NoneInHand, Placed,
                    EdgeInit, EnsureTopic
<1>5. RollupTypes
  BY DEF Init, RollupTypes, Nothing
<1> QED
  BY <1>1, <1>4, <1>5, InitEdgeInv, InitEdgeData DEF DataInv

LEMMA DataInvKept == DataInv /\ [Next]_vars => DataInv'
<1> SUFFICES ASSUME DataInv, [Next]_vars PROVE DataInv'
  OBVIOUS
<1>1. EdgeInv' /\ EdgeData'
  BY NextIsEdgeStep, EdgeKeepsInv, EdgeKeepsData DEF DataInv
<1>2. ConsumerInv' /\ spent' \in [Kinds -> Nat]
  BY ConsumerEffect
<1> QED
  BY <1>1, <1>2, RollupTypesKept DEF DataInv

\* Whatever happens the state is well-formed; the set of remembered ids, the
\* channel and the batch stay within their caps (WebhookDedup.Admit,
\* DeliveryStreamReader.Messages, runConsumer's chBatch).
THEOREM TypesHold == Spec => []TypeOK
<1>1. DataInv => TypeOK
  BY EdgeDataTypes DEF DataInv, ConsumerInv, RollupTypes, TypeOK
<1> QED
  BY <1>1, InitDataInv, DataInvKept, PTL DEF Spec

LEMMA NoneSkippedIs ==
  NoneSkipped <=> (spent["inserts"] = 0 => \A i \in Ids : Ledger(i) >= InTopic(i))
BY DEF NoneSkipped, Ledger

\* However the readers, the batches, the tickers and the restarts interleave,
\* a message that is in the topic is stored, in flight or still unread
\* (runConsumer, flushCH, DeliveryStreamReader).
THEOREM NoneSkippedHolds == Spec => []NoneSkipped
<1> DEFINE Inv == DataInv /\ NoneSkipped
<1>1. Init => Inv
  <2> SUFFICES ASSUME Init PROVE NoneSkipped
    BY InitDataInv
  <2>1. \A i \in Ids : Ledger(i) = 0 /\ InTopic(i) = 0
    BY NothingCounts DEF Init
  <2> QED
    BY <2>1, NoneSkippedIs
<1>2. Inv /\ [Next]_vars => Inv'
  <2> SUFFICES ASSUME DataInv, NoneSkipped, [Next]_vars, spent'["inserts"] = 0, NEW i \in Ids
               PROVE  Ledger(i)' >= InTopic(i)'
    BY DataInvKept DEF NoneSkipped, Ledger
  <2>1. StepEffect
    BY ConsumerEffect
  <2>2. spent["inserts"] \in Nat
    BY DEF DataInv, RollupTypes, Kinds
  <2>3. Ledger(i) \in Nat /\ InTopic(i) \in Nat
    BY Countable DEF DataInv
  <2>4. ~(spent'["inserts"] = spent["inserts"] + 1)
    BY <2>2
  <2>5. CASE Grows /\ spent'["inserts"] = spent["inserts"]
    <3>1. Ledger(i) >= InTopic(i)
      BY <2>5, NoneSkippedIs
    <3>2. PICK k \in Nat : Ledger(i)' = Ledger(i) + k /\ InTopic(i)' = InTopic(i) + k
      BY <2>5 DEF Grows
    <3> QED
      BY <2>3, <3>1, <3>2
  <2>6. CASE Rereads
    BY <2>6, <2>3 DEF Rereads
  <2> QED
    BY <2>1, <2>4, <2>5, <2>6 DEF StepEffect
<1> QED
  BY <1>1, <1>2, PTL DEF Spec

LEMMA StoredOncePerStartIs ==
  StoredOncePerStart <=> \A i \in Ids : Ledger(i) <= InTopic(i) * (1 + spent["crashes"])
BY DEF StoredOncePerStart, Ledger

LEMMA GrowTogether ==
  ASSUME NEW a \in Nat, NEW b \in Nat, NEW k \in Nat, NEW c \in Nat, a <= b * (1 + c)
  PROVE  a + k <= (b + k) * (1 + c)
<1>1. (b + k) * (1 + c) = b * (1 + c) + k * (1 + c)
  OBVIOUS
<1>2. k * (1 + c) = k + k * c /\ k * c \in Nat /\ b * (1 + c) \in Nat
  OBVIOUS
<1> QED
  BY <1>1, <1>2

\* A message is stored at most once per start of the process: neither two
\* readers nor a batch that is flushed by its size and by the ticker store a
\* copy twice (runConsumer, SetOffset(FirstOffset)).
THEOREM StoredOncePerStartHolds == Spec => []StoredOncePerStart
<1> DEFINE Inv == DataInv /\ StoredOncePerStart
<1>1. Init => Inv
  <2> SUFFICES ASSUME Init PROVE StoredOncePerStart
    BY InitDataInv
  <2>1. \A i \in Ids : Ledger(i) = 0 /\ InTopic(i) = 0
    BY NothingCounts DEF Init
  <2>2. spent["crashes"] = 0
    BY DEF Init, Kinds
  <2> QED
    BY <2>1, <2>2, StoredOncePerStartIs
<1>2. Inv /\ [Next]_vars => Inv'
  <2> SUFFICES ASSUME DataInv, StoredOncePerStart, [Next]_vars, NEW i \in Ids
               PROVE  Ledger(i)' <= InTopic(i)' * (1 + spent'["crashes"])
    BY DataInvKept DEF StoredOncePerStart, Ledger
  <2> DEFINE c == spent["crashes"]
  <2>1. StepEffect
    BY ConsumerEffect
  <2>2. c \in Nat
    BY DEF DataInv, RollupTypes, Kinds
  <2>3. Ledger(i) \in Nat /\ InTopic(i) \in Nat
    BY Countable DEF DataInv
  <2>4. Ledger(i) <= InTopic(i) * (1 + c)
    BY StoredOncePerStartIs
  <2>5. CASE Grows /\ spent'["crashes"] = c
    <3>1. PICK k \in Nat : Ledger(i)' = Ledger(i) + k /\ InTopic(i)' = InTopic(i) + k
      BY <2>5 DEF Grows
    <3>2. Ledger(i) + k <= (InTopic(i) + k) * (1 + c)
      BY <2>2, <2>3, <2>4, GrowTogether
    <3> QED
      BY <2>5, <3>1, <3>2
  <2>6. CASE Drops /\ spent'["crashes"] = c
    <3>1. Ledger(i)' <= Ledger(i) /\ Ledger(i)' \in Nat /\ InTopic(i)' = InTopic(i)
      BY <2>6 DEF Drops
    <3>2. InTopic(i) * (1 + c) \in Nat
      BY <2>2, <2>3
    <3> QED
      BY <2>3, <2>4, <2>6, <3>1, <3>2
  <2>7. CASE Rereads /\ spent'["crashes"] = c + 1
    <3>1. /\ Ledger(i)' <= Ledger(i) + InTopic(i) /\ Ledger(i)' \in Nat
          /\ InTopic(i)' = InTopic(i)
      BY <2>7 DEF Rereads
    <3>2. /\ InTopic(i) * (1 + (c + 1)) = InTopic(i) * (1 + c) + InTopic(i)
          /\ InTopic(i) * (1 + c) \in Nat
      BY <2>2, <2>3
    <3>3. Ledger(i)' <= InTopic(i) * (1 + (c + 1))
      BY <2>3, <2>4, <3>1, <3>2
    <3> QED
      BY <2>7, <3>1, <3>3
  <2> QED
    BY <2>1, <2>5, <2>6, <2>7 DEF StepEffect
<1> QED
  BY <1>1, <1>2, PTL DEF Spec

-----------------------------------------------------------------------------
(* The rollup.  Every fill adds the rows of its time once; a fill that the  *)
(* store finishes late is one of a refresh, or a start, that failed.       *)

Failed == spent["refreshes"] + spent["crashes"]

\* How many fills at most the rollup may hold at once.
FillsHeld == One(refresh = "idle") + (Failed - Len(lateFills))

RollupInv ==
  /\ Len(lateFills) <= Failed
  /\ \A n \in DOMAIN lateFills, i \in Ids : lateFills[n][i] <= rows[i]
  /\ \A i \in Ids : rollup[i] <= rows[i] * FillsHeld

LEMMA ProductGrows ==
  ASSUME NEW x \in Nat, NEW a \in Nat, NEW b \in Nat, NEW k \in Nat, NEW m \in Nat,
         x <= a * k, a <= b, k <= m
  PROVE  x <= b * m
<1>1. PICK d \in Nat : b = a + d
  <2>1. b - a \in Nat /\ b = a + (b - a)
    OBVIOUS
  <2> QED
    BY <2>1
<1>2. PICK e \in Nat : m = k + e
  <2>1. m - k \in Nat /\ m = k + (m - k)
    OBVIOUS
  <2> QED
    BY <2>1
<1>3. b * m = a * k + a * e + d * k + d * e
  BY <1>1, <1>2
<1>4. a * k \in Nat /\ a * e \in Nat /\ d * k \in Nat /\ d * e \in Nat
  OBVIOUS
<1> QED
  BY <1>3, <1>4

LEMMA ProductTakesOneMore ==
  ASSUME NEW x \in Nat, NEW y \in Nat, NEW a \in Nat, NEW k \in Nat,
         x <= a * k, y <= a
  PROVE  x + y <= a * (k + 1)
<1>1. a * (k + 1) = a * k + a /\ a * k \in Nat
  OBVIOUS
<1> QED
  BY <1>1

RollupFacts ==
  /\ rollup \in [Ids -> Nat] /\ rows \in [Ids -> Nat]
  /\ refresh \in {"idle", "truncated"}
  /\ lateFills \in Seq([Ids -> Nat])
  /\ Failed \in Nat /\ Len(lateFills) \in Nat

LEMMA FactsHold ==
  ASSUME DataInv
  PROVE  RollupFacts
<1>1. spent["refreshes"] \in Nat /\ spent["crashes"] \in Nat
  BY DEF DataInv, RollupTypes, Kinds
<1> QED
  BY <1>1 DEF DataInv, RollupTypes, ConsumerInv, CollectorTypes, RollupFacts, Failed

\* The rows only grow, and the rollup and its fills are left alone.
LEMMA RollupLeftAlone ==
  ASSUME RollupFacts, RollupInv, rows' \in [Ids -> Nat], \A i \in Ids : rows[i] <= rows'[i],
         UNCHANGED rollupVars, Failed' \in Nat, Failed' >= Failed
  PROVE  RollupInv'
<1>1. UNCHANGED <<rollup, refresh, lateFills>>
  BY DEF rollupVars
<1>2. FillsHeld \in Nat /\ FillsHeld' \in Nat /\ FillsHeld <= FillsHeld'
  BY <1>1 DEF RollupFacts, RollupInv, FillsHeld, One
<1>3. Len(lateFills') <= Failed'
  BY <1>1 DEF RollupFacts, RollupInv
<1>4. \A n \in DOMAIN lateFills', i \in Ids : lateFills'[n][i] <= rows'[i]
  <2> SUFFICES ASSUME NEW n \in DOMAIN lateFills, NEW i \in Ids PROVE lateFills[n][i] <= rows'[i]
    BY <1>1
  <2>1. lateFills[n][i] \in Nat /\ rows[i] \in Nat /\ rows'[i] \in Nat
    BY DEF RollupFacts
  <2> QED
    BY <2>1 DEF RollupInv
<1>5. ASSUME NEW i \in Ids PROVE rollup'[i] <= rows'[i] * FillsHeld'
  <2>1. rollup[i] \in Nat /\ rows[i] \in Nat /\ rows'[i] \in Nat /\ rows[i] <= rows'[i]
    BY DEF RollupFacts
  <2>2. rollup[i] <= rows[i] * FillsHeld
    BY DEF RollupInv
  <2>3. rollup[i] <= rows'[i] * FillsHeld'
    BY <1>2, <2>1, <2>2, ProductGrows
  <2> QED
    BY <1>1, <2>3
<1> QED
  BY <1>3, <1>4, <1>5 DEF RollupInv

\* A request of the refresh fails, or the process does: what it was doing is
\* over, or the store goes on with it.
LEMMA FillGivenUp ==
  ASSUME RollupFacts, RollupInv, rows' \in [Ids -> Nat], \A i \in Ids : rows[i] <= rows'[i],
         rollup' = rollup, refresh' = "idle", Failed' = Failed + 1,
         \/ lateFills' = lateFills
         \/ refresh = "truncated" /\ lateFills' = Append(lateFills, rows)
  PROVE  RollupInv'
<1>1. \A i \in Ids : rollup[i] \in Nat /\ rows[i] \in Nat /\ rows'[i] \in Nat
  BY DEF RollupFacts
<1>2. \A n \in DOMAIN lateFills, i \in Ids : lateFills[n][i] <= rows'[i]
  <2> SUFFICES ASSUME NEW n \in DOMAIN lateFills, NEW i \in Ids PROVE lateFills[n][i] <= rows'[i]
    OBVIOUS
  <2>1. lateFills[n][i] \in Nat
    BY DEF RollupFacts
  <2> QED
    BY <1>1, <2>1 DEF RollupInv
<1>3. /\ Len(lateFills') \in Nat
      /\ \/ Len(lateFills') = Len(lateFills)
         \/ Len(lateFills') = Len(lateFills) + 1 /\ refresh = "truncated"
      /\ \A n \in DOMAIN lateFills', i \in Ids : lateFills'[n][i] <= rows'[i]
  <2>1. CASE lateFills' = lateFills
    BY <1>2, <2>1 DEF RollupFacts
  <2>2. CASE refresh = "truncated" /\ lateFills' = Append(lateFills, rows)
    <3>1. /\ Len(lateFills') = Len(lateFills) + 1
          /\ DOMAIN lateFills' = DOMAIN lateFills \cup {Len(lateFills) + 1}
          /\ lateFills'[Len(lateFills) + 1] = rows
          /\ \A n \in DOMAIN lateFills : lateFills'[n] = lateFills[n]
      BY <2>2 DEF RollupFacts
    <3> QED
      BY <1>1, <1>2, <2>2, <3>1 DEF RollupFacts
  <2> QED
    BY <2>1, <2>2
<1>4. FillsHeld \in Nat /\ FillsHeld' \in Nat /\ FillsHeld <= FillsHeld' /\ Len(lateFills') <= Failed'
  BY <1>3 DEF RollupFacts, RollupInv, FillsHeld, One
<1>5. ASSUME NEW i \in Ids PROVE rollup'[i] <= rows'[i] * FillsHeld'
  <2>1. rollup[i] <= rows[i] * FillsHeld
    BY DEF RollupInv
  <2>2. rollup[i] <= rows'[i] * FillsHeld'
    BY <1>1, <1>4, <2>1, ProductGrows
  <2> QED
    BY <2>2
<1> QED
  BY <1>3, <1>4, <1>5 DEF RollupInv

LEMMA TruncateKeepsRollup ==
  ASSUME RollupFacts, RollupInv, UNCHANGED <<rows, lateFills>>,
         \/ rollup' = Nothing /\ refresh = "idle" /\ refresh' = "truncated" /\ Failed' = Failed
         \/ rollup' \in {rollup, Nothing} /\ refresh' = refresh /\ Failed' = Failed + 1
  PROVE  RollupInv'
<1>1. \A i \in Ids : rollup[i] \in Nat /\ rows[i] \in Nat
  BY DEF RollupFacts
<1>2. FillsHeld' \in Nat /\ Len(lateFills') <= Failed'
  BY DEF RollupFacts, RollupInv, FillsHeld, One
<1>3. ASSUME NEW i \in Ids PROVE rollup'[i] <= rows'[i] * FillsHeld'
  <2>1. CASE rollup' = Nothing
    <3>1. rollup'[i] = 0 /\ rows[i] * FillsHeld' \in Nat
      BY <1>1, <1>2, <2>1 DEF Nothing
    <3> QED
      BY <3>1
  <2>2. CASE rollup' = rollup /\ refresh' = refresh /\ Failed' = Failed + 1
    <3>1. FillsHeld \in Nat /\ FillsHeld <= FillsHeld'
      BY <2>2 DEF RollupFacts, RollupInv, FillsHeld, One
    <3>2. rollup[i] <= rows[i] * FillsHeld
      BY DEF RollupInv
    <3>3. rollup[i] <= rows[i] * FillsHeld'
      BY <1>1, <1>2, <3>1, <3>2, ProductGrows
    <3> QED
      BY <2>2, <3>3
  <2> QED
    BY <2>1, <2>2
<1> QED
  BY <1>2, <1>3 DEF RollupInv

\* A fill, in time or late, adds at most the rows there are.
LEMMA FillKeepsRollup ==
  ASSUME RollupFacts, RollupInv, rows' = rows,
         NEW added \in [Ids -> Nat], \A i \in Ids : added[i] <= rows[i],
         rollup' = [i \in Ids |-> rollup[i] + added[i]],
         FillsHeld' = FillsHeld + 1, Len(lateFills') <= Failed',
         \A n \in DOMAIN lateFills', i \in Ids : lateFills'[n][i] <= rows[i]
  PROVE  RollupInv'
<1>1. FillsHeld \in Nat
  BY DEF RollupFacts, RollupInv, FillsHeld, One
<1>2. ASSUME NEW i \in Ids PROVE rollup'[i] <= rows'[i] * FillsHeld'
  <2>1. rollup[i] \in Nat /\ rows[i] \in Nat /\ added[i] \in Nat
    BY DEF RollupFacts
  <2>2. rollup[i] <= rows[i] * FillsHeld
    BY DEF RollupInv
  <2>3. rollup[i] + added[i] <= rows[i] * (FillsHeld + 1)
    BY <1>1, <2>1, <2>2, ProductTakesOneMore
  <2> QED
    BY <2>3
<1> QED
  BY <1>2 DEF RollupInv

LEMMA RollupStep ==
  ASSUME DataInv, RollupInv, [Next]_vars
  PROVE  RollupInv'
<1>0. RollupFacts
  BY FactsHold
<1>1. \A k \in {"outages", "inserts", "refreshes", "crashes"} : k \in Kinds
  BY DEF Kinds
<1>2. spent \in [Kinds -> Nat] /\ spent["refreshes"] \in Nat /\ spent["crashes"] \in Nat
  BY <1>1 DEF DataInv, RollupTypes
<1>3. UNCHANGED spent \/ Spend("outages") \/ Spend("inserts") => Failed' = Failed
  BY <1>1, <1>2, SpendFacts DEF Failed
<1>4. Spend("refreshes") \/ Spend("crashes") => Failed' = Failed + 1
  BY <1>1, <1>2, SpendFacts DEF Failed
<1>5. \A i \in Ids : rows[i] \in Nat /\ CountIn(inserting, i) \in Nat
  BY Countable DEF DataInv
<1>6. rows' = rows \/ rows' = Plus(rows, inserting) =>
        rows' \in [Ids -> Nat] /\ \A i \in Ids : rows[i] <= rows'[i]
  BY <1>0, <1>5 DEF Plus, RollupFacts
<1>7. CASE (UNCHANGED spent \/ Spend("outages") \/ Spend("inserts")) /\ UNCHANGED rollupVars
           /\ (rows' = rows \/ rows' = Plus(rows, inserting))
  <2>1. Failed' \in Nat /\ Failed' >= Failed
    BY <1>0, <1>3, <1>7 DEF RollupFacts
  <2> QED
    BY <1>0, <1>6, <1>7, <2>1, RollupLeftAlone
<1>8. CASE Truncate \/ TruncateFails
  <2>1. /\ UNCHANGED <<rows, lateFills>>
        /\ \/ rollup' = Nothing /\ refresh = "idle" /\ refresh' = "truncated" /\ UNCHANGED spent
           \/ rollup' \in {rollup, Nothing} /\ refresh' = refresh /\ Spend("refreshes")
    BY <1>8 DEF Truncate, TruncateFails, consumerVars
  <2> QED
    BY <1>0, <1>3, <1>4, <2>1, TruncateKeepsRollup
<1>9. CASE Fill
  <2>1. /\ rows' = rows /\ lateFills' = lateFills /\ refresh = "truncated" /\ refresh' = "idle"
        /\ rollup' = [i \in Ids |-> rollup[i] + rows[i]] /\ Failed' = Failed
    BY <1>3, <1>9 DEF Fill, consumerVars
  <2>2. FillsHeld' = FillsHeld + 1 /\ Len(lateFills') <= Failed'
    BY <1>0, <2>1 DEF RollupFacts, RollupInv, FillsHeld, One
  <2>3. rows \in [Ids -> Nat] /\ \A i \in Ids : rows[i] <= rows[i]
    BY <1>0, <1>5 DEF RollupFacts
  <2>4. \A n \in DOMAIN lateFills', i \in Ids : lateFills'[n][i] <= rows[i]
    BY <2>1 DEF RollupInv
  <2> QED
    BY <1>0, <2>1, <2>2, <2>3, <2>4, FillKeepsRollup
<1>10. CASE FillFails
  <2>1. /\ rows' = rows /\ rollup' = rollup /\ refresh' = "idle" /\ Failed' = Failed + 1
        /\ refresh = "truncated"
        /\ lateFills' = lateFills \/ lateFills' = Append(lateFills, rows)
    BY <1>4, <1>10 DEF FillFails, consumerVars
  <2> QED
    BY <1>0, <1>6, <2>1, FillGivenUp
<1>11. CASE FillEnds
  <2> DEFINE added == Head(lateFills)
  <2>1. /\ lateFills # << >> /\ rows' = rows /\ refresh' = refresh /\ Failed' = Failed
        /\ rollup' = [i \in Ids |-> rollup[i] + added[i]] /\ lateFills' = Tail(lateFills)
    BY <1>3, <1>11 DEF FillEnds, consumerVars
  <2>2. /\ lateFills \in Seq([Ids -> Nat]) /\ 1 \in DOMAIN lateFills /\ added = lateFills[1]
        /\ Len(Tail(lateFills)) = Len(lateFills) - 1 /\ Len(lateFills) >= 1
        /\ \A n \in DOMAIN Tail(lateFills) : n + 1 \in DOMAIN lateFills
                                             /\ Tail(lateFills)[n] = lateFills[n + 1]
    BY <1>0, <2>1 DEF RollupFacts
  <2>3. added \in [Ids -> Nat] /\ \A i \in Ids : added[i] <= rows[i]
    BY <2>2 DEF RollupInv
  <2>4. FillsHeld' = FillsHeld + 1 /\ Len(lateFills') <= Failed'
    BY <1>0, <2>1, <2>2 DEF RollupFacts, RollupInv, FillsHeld, One
  <2>5. \A n \in DOMAIN lateFills', i \in Ids : lateFills'[n][i] <= rows[i]
    BY <2>1, <2>2 DEF RollupInv
  <2> HIDE DEF added
  <2> QED
    BY <1>0, <2>1, <2>3, <2>4, <2>5, FillKeepsRollup
<1>12. CASE Restart
  <2>1. /\ rows' = rows \/ rows' = Plus(rows, inserting)
        /\ rollup' = rollup /\ refresh' = "idle" /\ Failed' = Failed + 1
        /\ \/ lateFills' = lateFills
           \/ refresh = "truncated" /\ lateFills' = Append(lateFills, rows)
    BY <1>4, <1>12 DEF Restart
  <2> QED
    BY <1>0, <1>6, <2>1, FillGivenUp
<1>13. ASSUME NEW p \in Partitions, ReaderStep(p) \/ ReaderFails(p)
       PROVE  (UNCHANGED spent \/ Spend("outages")) /\ UNCHANGED <<rollupVars, rows>>
  BY <1>13 DEF ReaderStep, ReaderFails, Reads
<1>14. EdgeStep \/ Collect \/ UNCHANGED vars => UNCHANGED <<rollupVars, rows, spent>>
  BY DEF EdgeStep, Collect, Receive, FlushTick, vars, consumerVars
<1>15. InsertEnds => /\ UNCHANGED spent \/ Spend("inserts")
                     /\ UNCHANGED rollupVars /\ (rows' = rows \/ rows' = Plus(rows, inserting))
  BY DEF InsertEnds, InsertStores, InsertFails
<1> QED
  BY <1>7, <1>8, <1>9, <1>10, <1>11, <1>12, <1>13, <1>14, <1>15 DEF Next

\* The summary shows at most the raw log's numbers, once more for every
\* refresh or process that died over a fill the store then finished
\* (RefreshRollup: the TRUNCATE, then INSERT ... SELECT).
THEOREM RollupNotAheadHolds == Spec => []RollupNotAhead
<1> DEFINE Inv == DataInv /\ RollupInv
<1>1. Init => Inv
  <2> SUFFICES ASSUME Init PROVE RollupInv
    BY InitDataInv
  <2>1. /\ rollup = Nothing /\ rows = Nothing /\ refresh = "idle" /\ lateFills = << >>
        /\ Failed = 0
    BY DEF Init, CollectorInit, Failed, Kinds
  <2>2. FillsHeld = 1
    BY <2>1 DEF FillsHeld, One
  <2> QED
    BY <2>1, <2>2 DEF RollupInv, Nothing
<1>2. Inv /\ [Next]_vars => Inv'
  BY DataInvKept, RollupStep
<1>3. Inv => RollupNotAhead
  <2> SUFFICES ASSUME DataInv, RollupInv, NEW i \in Ids
               PROVE  rollup[i] <= rows[i] * (1 + spent["refreshes"] + spent["crashes"])
    BY DEF RollupNotAhead
  <2>1. RollupFacts /\ spent["refreshes"] \in Nat /\ spent["crashes"] \in Nat
    BY FactsHold DEF DataInv, RollupTypes, Kinds
  <2>2. rollup[i] \in Nat /\ rows[i] \in Nat /\ rollup[i] <= rows[i] * FillsHeld
    BY <2>1 DEF RollupFacts, RollupInv
  <2>3. FillsHeld \in Nat /\ FillsHeld <= 1 + Failed /\ 1 + Failed \in Nat
    BY <2>1 DEF RollupFacts, RollupInv, FillsHeld, One
  <2>4. rollup[i] <= rows[i] * (1 + Failed)
    BY <2>2, <2>3, ProductGrows
  <2>5. 1 + Failed = 1 + spent["refreshes"] + spent["crashes"]
    BY <2>1 DEF Failed
  <2> QED
    BY <2>4, <2>5
<1> QED
  BY <1>1, <1>2, <1>3, PTL DEF Spec

=============================================================================
