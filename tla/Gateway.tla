------------------------------- MODULE Gateway -------------------------------
(***************************************************************************)
(* The ingest gateway of cmd/gateway: one handler goroutine per WebSocket  *)
(* connection (internal/wsserver), the dedup, the Kafka producer, the      *)
(* spool file and the drainer (internal/ingest), with the faults they are  *)
(* written for: a broker that is away or slow, a disk that refuses a write *)
(* or a read, a process that dies and starts again.                        *)
(*                                                                         *)
(* The steps are the sections the code runs without another goroutine      *)
(* seeing a difference: a call under the mutex of Dedup or Spool, one call *)
(* of the producer, one step of the drain loop.                            *)
(***************************************************************************)
EXTENDS SeenSet, FiniteSets

CONSTANTS
  Conns,              \* WebSocket connections, one handler goroutine each
  Devices, SeqNos,    \* device ids and sequence numbers
  DrainConcurrency,   \* retries the drainer runs at once; 32 in the code
  Limit               \* bounds of the model, one per kind of event

Kinds == {"sends", "timeouts", "outages", "faults", "crashes"}

ASSUME GatewayAssumption ==
  /\ DrainConcurrency \in Nat \ {0}
  /\ Limit \in [Kinds -> Nat]

Readings == Devices \X SeqNos
Dev(r) == r[1]
SeqNo(r) == r[2]

\* What a write that failed half way leaves in the file.
Torn == << >>

VARIABLES
  seen,        \* Dedup.seen
  conn,        \* conn[c]: where the handler of c is, and its reading
  file,        \* the spool file: whole records and torn ones, in order
  sticky,      \* the bufio.Writer of the spool has failed, for good
  batch,       \* the readings of the drain attempt that runs, << >> if none
  late,        \* late[r]: copies the Kafka writer still holds after the
               \*   caller's 200ms were over
  topic,       \* topic[r]: copies in the Kafka topic
  brokerUp,    \* whether the producer takes messages
  used,        \* events that happened so far, by kind
  admits       \* auxiliary: admits[r]: how often dedup let r pass

vars == <<seen, conn, file, sticky, batch, late, topic, brokerUp, used, admits>>

Waiting == [pc |-> "read"]       \* in ReadMessage
Busy(pc, r) == [pc |-> pc, r |-> r]
None == [r \in Readings |-> 0]

\* An event of a bounded kind.
Spend(kind) ==
  /\ used[kind] < Limit[kind]
  /\ used' = [used EXCEPT ![kind] = @ + 1]

Init ==
  /\ seen = [d \in Devices |-> NewDeviceSeen]
  /\ conn = [c \in Conns |-> Waiting]
  /\ file = << >>
  /\ sticky = FALSE
  /\ batch = << >>
  /\ late = None
  /\ topic = None
  /\ brokerUp = TRUE
  /\ used = [k \in Kinds |-> 0]
  /\ admits = None

-----------------------------------------------------------------------------
(* Producer.Produce.  It has three outcomes for its caller: the message is *)
(* acknowledged, it is refused, or the caller's context ends first, and    *)
(* then the writer still holds the message.                                *)

\* The writer sends a message again when the answer to its first attempt is
\* lost, and then both attempts may be in the topic.
Stored(r) ==
  \/ /\ topic' = [topic EXCEPT ![r] = @ + 1]
     /\ UNCHANGED used
  \/ /\ Spend("timeouts")
     /\ topic' = [topic EXCEPT ![r] = @ + 2]

ProduceAcked(r) ==
  /\ brokerUp
  /\ Stored(r)
  /\ UNCHANGED late

ProduceRefused ==
  /\ ~brokerUp
  /\ UNCHANGED <<topic, late, used>>

ProduceTimesOut(r) ==
  /\ Spend("timeouts")
  /\ late' = [late EXCEPT ![r] = @ + 1]
  /\ UNCHANGED topic

ProduceFails(r) == ProduceRefused \/ ProduceTimesOut(r)

\* What the writer does later with a message whose caller is gone.
LateWrite(r) ==
  /\ late[r] > 0
  /\ brokerUp
  /\ Stored(r)
  /\ late' = [late EXCEPT ![r] = @ - 1]
  /\ UNCHANGED <<seen, conn, file, sticky, batch, brokerUp, admits>>

LateDrop(r) ==
  /\ late[r] > 0
  /\ late' = [late EXCEPT ![r] = @ - 1]
  /\ UNCHANGED <<seen, conn, file, sticky, batch, topic, brokerUp, used, admits>>

-----------------------------------------------------------------------------
(* Spool.Write.  The bufio.Writer keeps the first error it meets and       *)
(* returns it from every later call; a write that failed may have put part *)
(* of the record into the file.                                            *)

\* Deviation: the record stays in the buffer, without the Flush.
SpoolWrittenUnflushed(r) == ~sticky /\ UNCHANGED <<file, sticky, used>>

SpoolWritten(r) ==
  /\ ~sticky
  /\ file' = Append(file, r)
  /\ UNCHANGED <<sticky, used>>

SpoolWriteFails ==
  \/ /\ sticky
     /\ UNCHANGED <<file, sticky, used>>
  \/ /\ ~sticky
     /\ Spend("faults")
     /\ sticky' = TRUE
     /\ file' \in {file, Append(file, Torn)}

SpoolWrite(r) == SpoolWritten(r) \/ SpoolWriteFails

(* What Drain reads back.  A torn record takes the bytes it lacks from the *)
(* record behind it, and from there on the reader is out of step: of the   *)
(* records behind that one any may be missed.                              *)

Tears(f) == {i \in DOMAIN f : f[i] = Torn}
FirstTear(f) == CHOOSE t \in Tears(f) : \A i \in Tears(f) : t <= i

\* The ways to pick records of f in their order.
Picks(f) ==
  {p \in UNION {[1 .. n -> DOMAIN f] : n \in 0 .. Len(f)} :
     \A i, j \in DOMAIN p : i < j => p[i] < p[j]}

\* All records before the tear t, none of the torn ones, not the one behind t.
PicksAroundTear(f, t) ==
  {p \in Picks(f) :
     /\ \A i \in 1 .. t - 1 : i \in DOMAIN p /\ p[i] = i
     /\ \A i \in DOMAIN p : p[i] \notin Tears(f) \cup {t + 1}}

\* Deviation: the last record is taken for a short write.
ReadBacksButLast(f) == {SubSeq(f, 1, Len(f) - 1)}

ReadBacks(f) ==
  IF Tears(f) = {}
  THEN {f}
  ELSE {[i \in DOMAIN p |-> f[p[i]]] : p \in PicksAroundTear(f, FirstTear(f))}

\* Deviation: Drain leaves the file as it is.
NotTruncated == UNCHANGED file

Truncated == file' = << >>

\* Deviation: NewSpool opens the file with O_TRUNC.
SpoolOpenedEmpty == sticky' = FALSE /\ file' = << >>

\* NewSpool: a new writer behind whatever the file holds.
SpoolOpened == sticky' = FALSE /\ UNCHANGED file

-----------------------------------------------------------------------------
(* A connection's handler: handleIngest reads a frame and calls Ingest.    *)

\* A duplicate is dropped and the next frame is read.
ReceiveDuplicate(c, r) ==
  /\ conn[c] = Waiting
  /\ Spend("sends")
  /\ SeqNo(r) \in seen[Dev(r)].set
  /\ UNCHANGED <<seen, conn, file, sticky, batch, late, topic, brokerUp, admits>>

\* A new reading is remembered before it is produced.
ReceiveNew(c, r) ==
  /\ conn[c] = Waiting
  /\ Spend("sends")
  /\ SeqNo(r) \notin seen[Dev(r)].set
  /\ seen' = [seen EXCEPT ![Dev(r)] = Remember(@, SeqNo(r))]
  /\ conn' = [conn EXCEPT ![c] = Busy("produce", r)]
  /\ admits' = [admits EXCEPT ![r] = @ + 1]
  /\ UNCHANGED <<file, sticky, batch, late, topic, brokerUp>>

\* Deviation: a reading that was produced is spilled as well.
ConnProduceAndSpill(c) ==
  /\ conn[c].pc = "produce"
  /\ ProduceAcked(conn[c].r) \/ ProduceFails(conn[c].r)
  /\ conn' = [conn EXCEPT ![c].pc = "spill"]
  /\ UNCHANGED <<seen, file, sticky, batch, brokerUp, admits>>

ConnProduce(c) ==
  /\ conn[c].pc = "produce"
  /\ \/ /\ ProduceAcked(conn[c].r)
        /\ conn' = [conn EXCEPT ![c] = Waiting]
     \/ /\ ProduceFails(conn[c].r)
        /\ conn' = [conn EXCEPT ![c].pc = "spill"]
  /\ UNCHANGED <<seen, file, sticky, batch, brokerUp, admits>>

\* The handler logs a failed spool write and reads the next frame.
ConnSpill(c) ==
  /\ conn[c].pc = "spill"
  /\ SpoolWrite(conn[c].r)
  /\ conn' = [conn EXCEPT ![c] = Waiting]
  /\ UNCHANGED <<seen, batch, late, topic, brokerUp, admits>>

-----------------------------------------------------------------------------
(* The drainer: RunDrainer calls drainOnce at every tick.                  *)

Queued(rs) == [i \in DOMAIN rs |-> Busy("queued", rs[i])]
WithStatus(pc) == {i \in DOMAIN batch : batch[i].pc = pc}

Retrying == WithStatus("produce") \cup WithStatus("spill")

\* Deviation: the semaphore has a place too many.
PlaceTooMany == Cardinality(Retrying) <= DrainConcurrency

PlaceInSemaphore == Cardinality(Retrying) < DrainConcurrency

\* Drain reads the file and truncates it.
DrainTake ==
  /\ batch = << >>
  /\ ~sticky
  /\ \E rs \in ReadBacks(file) : batch' = Queued(rs)
  /\ Truncated
  /\ UNCHANGED <<seen, conn, sticky, late, topic, brokerUp, used, admits>>

\* A read error ends Drain's loop like the end of the file does, and the
\* file is truncated all the same.
DrainReadFault ==
  /\ batch = << >>
  /\ ~sticky
  /\ Spend("faults")
  /\ \E rs \in ReadBacks(file), n \in 0 .. Len(file) :
       /\ n < Len(rs)
       /\ batch' = Queued(SubSeq(rs, 1, n))
  /\ Truncated
  /\ UNCHANGED <<seen, conn, sticky, late, topic, brokerUp, admits>>

\* Drain returns an error, from the sticky writer or from the truncation;
\* drainOnce logs it and waits for the next tick.
DrainFails ==
  /\ batch = << >>
  /\ \/ sticky /\ UNCHANGED used
     \/ ~sticky /\ Spend("faults")
  /\ UNCHANGED <<seen, conn, file, sticky, batch, late, topic, brokerUp, admits>>

\* The loop starts the goroutine of the next record once the semaphore has
\* a place for it.
DrainLaunch ==
  /\ PlaceInSemaphore
  /\ \E i \in WithStatus("queued") :
       /\ \A j \in WithStatus("queued") : i <= j
       /\ batch' = [batch EXCEPT ![i].pc = "produce"]
  /\ UNCHANGED <<seen, conn, file, sticky, late, topic, brokerUp, used, admits>>

\* Deviation: the result of Produce is ignored.
DrainProduceOnce(i) ==
  /\ batch[i].pc = "produce"
  /\ ProduceAcked(batch[i].r) \/ ProduceFails(batch[i].r)
  /\ batch' = [batch EXCEPT ![i].pc = "done"]
  /\ UNCHANGED <<seen, conn, file, sticky, brokerUp, admits>>

\* Deviation: the attempt returns after the first success.
DrainProduceReturns(i) ==
  /\ batch[i].pc = "produce"
  /\ ProduceAcked(batch[i].r)
  /\ batch' = << >>
  /\ UNCHANGED <<seen, conn, file, sticky, brokerUp, admits>>

DrainProduce(i) ==
  /\ batch[i].pc = "produce"
  /\ \/ /\ ProduceAcked(batch[i].r)
        /\ batch' = [batch EXCEPT ![i].pc = "done"]
     \/ /\ ProduceFails(batch[i].r)
        /\ batch' = [batch EXCEPT ![i].pc = "spill"]
  /\ UNCHANGED <<seen, conn, file, sticky, brokerUp, admits>>

\* Deviation: the goroutine waits until the spool takes the reading.
DrainSpillInsists(i) ==
  /\ batch[i].pc = "spill"
  /\ SpoolWritten(batch[i].r)
  /\ batch' = [batch EXCEPT ![i].pc = "done"]
  /\ UNCHANGED <<seen, conn, late, topic, brokerUp, admits>>

\* A reading that cannot be produced goes back to the spool; if that fails
\* too it is logged.
DrainSpill(i) ==
  /\ batch[i].pc = "spill"
  /\ SpoolWrite(batch[i].r)
  /\ batch' = [batch EXCEPT ![i].pc = "done"]
  /\ UNCHANGED <<seen, conn, late, topic, brokerUp, admits>>

\* wg.Wait returns.
DrainEnds ==
  /\ batch # << >>
  /\ WithStatus("done") = DOMAIN batch
  /\ batch' = << >>
  /\ UNCHANGED <<seen, conn, file, sticky, late, topic, brokerUp, used, admits>>

-----------------------------------------------------------------------------
(* The environment.                                                        *)

BrokerGoes ==
  /\ brokerUp
  /\ Spend("outages")
  /\ brokerUp' = FALSE
  /\ UNCHANGED <<seen, conn, file, sticky, batch, late, topic, admits>>

BrokerReturns ==
  /\ ~brokerUp
  /\ brokerUp' = TRUE
  /\ UNCHANGED <<seen, conn, file, sticky, batch, late, topic, used, admits>>

\* The process dies and is started again: only the file and the topic last.
Restart ==
  /\ Spend("crashes")
  /\ seen' = [d \in Devices |-> NewDeviceSeen]
  /\ conn' = [c \in Conns |-> Waiting]
  /\ batch' = << >>
  /\ late' = None
  /\ SpoolOpened
  /\ UNCHANGED <<topic, brokerUp, admits>>

Receive(c, r) == ReceiveDuplicate(c, r) \/ ReceiveNew(c, r)

DrainStep ==
  \/ DrainLaunch
  \/ \E i \in DOMAIN batch : DrainProduce(i) \/ DrainSpill(i)
  \/ DrainEnds

Next ==
  \/ \E c \in Conns, r \in Readings : Receive(c, r)
  \/ \E c \in Conns : ConnProduce(c) \/ ConnSpill(c)
  \/ DrainTake \/ DrainReadFault \/ DrainFails \/ DrainStep
  \/ \E r \in Readings : LateWrite(r) \/ LateDrop(r)
  \/ BrokerGoes \/ BrokerReturns \/ Restart

Spec == Init /\ [][Next]_vars

\* Every goroutine runs, every call of the producer and of the spool
\* returns, and the ticker of the drainer keeps ticking.  Nothing is assumed
\* of devices, broker, disk or the writer's late messages.
Fairness ==
  /\ \A c \in Conns : WF_vars(ConnProduce(c)) /\ WF_vars(ConnSpill(c))
  /\ WF_vars(DrainTake)
  /\ WF_vars(DrainStep)

FairSpec == Spec /\ Fairness

-----------------------------------------------------------------------------

Types ==
  /\ seen \in [Devices -> [set : SUBSET SeqNos, order : Seq(SeqNos)]]
  /\ conn \in [Conns -> {Waiting} \cup [pc : {"produce", "spill"}, r : Readings]]
  /\ file \in Seq(Readings \cup {Torn})
  /\ sticky \in BOOLEAN
  /\ batch \in Seq([pc : {"queued", "produce", "spill", "done"}, r : Readings])
  /\ late \in [Readings -> Nat]
  /\ topic \in [Readings -> Nat]
  /\ brokerUp \in BOOLEAN
  /\ used \in [Kinds -> Nat]
  /\ admits \in [Readings -> Nat]

\* The types, and the semaphore's bound: the drainer never has more than
\* DrainConcurrency retries under way.
TypeOK == Types /\ Cardinality(Retrying) <= DrainConcurrency

InHandler(r) == \E c \in Conns : conn[c] # Waiting /\ conn[c].r = r
InFile(r) == \E i \in DOMAIN file : file[i] = r
InBatch(r) == \E i \in DOMAIN batch : batch[i].r = r /\ batch[i].pc # "done"
Held(r) == InHandler(r) \/ InFile(r) \/ InBatch(r)

\* Copies of r that the gateway still answers for.
Copies(r) ==
  Cardinality({c \in Conns : conn[c] # Waiting /\ conn[c].r = r})
    + Cardinality({i \in DOMAIN file : file[i] = r})
    + Cardinality({i \in DOMAIN batch : batch[i].r = r /\ batch[i].pc # "done"})

\* The disk or the process has failed.
Disturbed == used["faults"] > 0 \/ used["crashes"] > 0

\* "Nothing here ever silently drops a reading that passed dedup": as long as
\* the disk works and the process lives, a reading that was admitted is in
\* the topic, or with a handler, in the spool, or with the drainer.
NoLoss ==
  ~Disturbed =>
    \A r \in Readings : admits[r] > 0 => topic[r] > 0 \/ Held(r)

\* Ingest and drainer never multiply a reading: every copy beyond those that
\* dedup let pass comes from a produce without an answer in time, whatever the
\* disk and the process do.
NoExtraCopies ==
  \A r \in Readings :
    topic[r] + late[r] + Copies(r) <= admits[r] + used.timeouts

\* A reading that Ingest drops as a duplicate is one that was forwarded
\* already, or that the gateway still holds, as long as the disk works.
DuplicateIsOnItsWay ==
  [][used["faults"] = 0 =>
       \A c \in Conns, r \in Readings :
         ReceiveDuplicate(c, r) => topic[r] > 0 \/ Held(r)]_vars

\* "A reading is never lost between drain attempts": what is in the spool or
\* with the drainer stays in one of them until it is in the topic.
NeverLostBetweenDrains ==
  [][\A r \in Readings :
       InFile(r) \/ InBatch(r) => (InFile(r) \/ InBatch(r) \/ topic[r] > 0)']_vars

\* What was written to the spool is handed to the drainer, through restarts
\* as well, as long as the disk works.
SpooledSurvives ==
  [][used'["faults"] = 0 => \A r \in Readings : InFile(r) => (InFile(r) \/ InBatch(r))']_vars

\* No reading is forwarded twice unless an answer was late, or the process
\* restarted and forgot what it had admitted.  (For devices within the cap.)
TwiceOnlyAfterTimeoutOrRestart ==
  \A r \in Readings : topic[r] <= 1 + used.timeouts + used.crashes

\* Once the broker stays available, everything admitted gets to the topic and
\* the spool runs empty again and again, provided that disk and process are
\* sound: the drainer retries for ever and gives nothing up.
EventuallyForwarded ==
  <>[]brokerUp /\ []~Disturbed =>
    /\ \A r \in Readings : admits[r] > 0 ~> topic[r] > 0
    /\ []<>(\A r \in Readings : ~InFile(r))

\* "Written to disk, forward it later": once the broker stays available no
\* reading waits in the spool for ever, whatever happened before.
SpoolGetsDrained == <>[]brokerUp => []<>(\A r \in Readings : ~InFile(r))

\* A drain attempt comes to its end, even while the broker is away and the
\* disk refuses writes: neither the semaphore nor wg.Wait blocks for ever.
DrainAttemptEnds == []<>(batch = << >>)

-----------------------------------------------------------------------------
(* Refinement: each reading seen from outside.                             *)

Status(r) ==
  IF topic[r] > 0 THEN "forwarded"
  ELSE IF Held(r) \/ late[r] > 0 THEN "onItsWay"
  ELSE IF admits[r] > 0 THEN "lost"
  ELSE "unknown"

Forward == INSTANCE Forwarding
             WITH status <- [r \in Readings |-> Status(r)],
                  troubled <- Disturbed

\* Seen from outside, the gateway forwards what it accepts, and loses
\* readings only after the disk or the process has failed.
ImplementsForwarding == Forward!Spec

=============================================================================
