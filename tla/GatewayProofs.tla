---------------------------- MODULE GatewayProofs ----------------------------
(***************************************************************************)
(* Proofs about Gateway for all sets of connections, devices and numbers,  *)
(* every cap, every drain concurrency and all limits: any number of        *)
(* outages, timeouts, disk faults and restarts.                            *)
(***************************************************************************)
EXTENDS GatewayBench, FiniteSetTheorems, SequenceTheorems, TLAPS

DeviceSeen == [set : SUBSET SeqNos, order : Seq(SeqNos)]
Retry == [pc : {"queued", "produce", "spill", "done"}, r : Readings]

\* Without a disk fault the spool is sound.
SoundSpool == used["faults"] = 0 => ~sticky /\ Tears(file) = {}

\* Only readings that dedup let pass are anywhere.
OnlyAdmitted ==
  \A r \in Readings : topic[r] > 0 \/ Held(r) \/ late[r] > 0 => admits[r] > 0

IInv == Types /\ SoundSpool /\ OnlyAdmitted /\ NoLoss

-----------------------------------------------------------------------------
(* Types.                                                                  *)

LEMMA SpendType ==
  ASSUME Types, NEW k \in Kinds, Spend(k)
  PROVE  /\ used' \in [Kinds -> Nat]
         /\ used'[k] = used[k] + 1 /\ used[k] < Limit[k]
         /\ \A j \in Kinds : j # k => used'[j] = used[j]
  BY DEF Spend, Types

LEMMA RememberType ==
  ASSUME NEW ds \in DeviceSeen, NEW s \in SeqNos
  PROVE  Remember(ds, s) \in DeviceSeen
<1> DEFINE o == Append(ds.order, s)
<1>1. o \in Seq(SeqNos) /\ o # << >>
  BY DEF DeviceSeen
<1>2. Tail(o) \in Seq(SeqNos) /\ Head(o) \in SeqNos
  BY <1>1
<1> QED
  BY <1>1, <1>2 DEF Remember, EvictOldest, DeviceSeen

LEMMA TornIsNoReading == Torn \notin Readings
  BY DEF Torn, Readings

\* What is read back are readings of the file.
LEMMA ReadBacksType ==
  ASSUME NEW f \in Seq(Readings \cup {Torn}), NEW rs \in ReadBacks(f)
  PROVE  /\ rs \in Seq(Readings)
         /\ Tears(f) = {} => rs = f
         /\ \A i \in DOMAIN rs : \E j \in DOMAIN f : rs[i] = f[j]
<1>1. CASE Tears(f) = {}
  <2>1. rs = f
    BY <1>1 DEF ReadBacks
  <2>2. \A i \in 1 .. Len(f) : f[i] \in Readings
    BY <1>1 DEF Tears
  <2>3. f \in Seq(Readings)
    BY <2>2, SeqDef
  <2> QED
    BY <2>1, <2>3, <1>1
<1>2. CASE Tears(f) # {}
  <2>1. PICK p \in PicksAroundTear(f, FirstTear(f)) : rs = [i \in DOMAIN p |-> f[p[i]]]
    BY <1>2 DEF ReadBacks
  <2>2. PICK n \in 0 .. Len(f) : p \in [1 .. n -> DOMAIN f]
    BY <2>1 DEF PicksAroundTear, Picks
  <2>3. \A i \in DOMAIN p : p[i] \notin Tears(f)
    BY <2>1 DEF PicksAroundTear
  <2>5. n \in Nat
    BY <2>2
  <2>6. rs \in [1 .. n -> Readings]
    BY <2>1, <2>2, <2>3 DEF Tears
  <2>7. rs \in Seq(Readings)
    BY <2>5, <2>6, SeqDef
  <2>8. \A i \in DOMAIN rs : p[i] \in DOMAIN f /\ rs[i] = f[p[i]]
    BY <2>1, <2>2
  <2> QED
    BY <1>2, <2>7, <2>8
<1> QED
  BY <1>1, <1>2

\* What follows an announced batch: every record of rs waits in it.
LEMMA QueuedType ==
  ASSUME NEW rs \in Seq(Readings)
  PROVE  /\ Queued(rs) \in Seq(Retry)
         /\ DOMAIN Queued(rs) = DOMAIN rs
         /\ \A i \in DOMAIN rs : Queued(rs)[i] = [pc |-> "queued", r |-> rs[i]]
<1>1. rs \in [1 .. Len(rs) -> Readings] /\ Len(rs) \in Nat
  OBVIOUS
<1>2. Queued(rs) \in [1 .. Len(rs) -> Retry]
  BY <1>1 DEF Queued, Busy, Retry
<1>3. Queued(rs) \in Seq(Retry)
  BY <1>1, <1>2, SeqDef
<1> QED
  BY <1>1, <1>3 DEF Queued, Busy

LEMMA StoredType ==
  ASSUME Types, NEW r \in Readings, Stored(r)
  PROVE  /\ topic' \in [Readings -> Nat] /\ topic'[r] > 0
         /\ \A q \in Readings : q # r => topic'[q] = topic[q]
         /\ used' \in [Kinds -> Nat]
         /\ used'["faults"] = used["faults"] /\ used'["crashes"] = used["crashes"]
<1>1. CASE topic' = [topic EXCEPT ![r] = @ + 1] /\ UNCHANGED used
  BY <1>1 DEF Types
<1>2. CASE Spend("timeouts") /\ topic' = [topic EXCEPT ![r] = @ + 2]
  <2>1. /\ used' \in [Kinds -> Nat]
        /\ used'["faults"] = used["faults"] /\ used'["crashes"] = used["crashes"]
    BY <1>2, SpendType DEF Kinds
  <2> QED
    BY <1>2, <2>1 DEF Types
<1> QED
  BY <1>1, <1>2 DEF Stored

LEMMA ProduceType ==
  ASSUME Types, NEW r \in Readings, ProduceAcked(r) \/ ProduceFails(r)
  PROVE  /\ topic' \in [Readings -> Nat]
         /\ late' \in [Readings -> Nat]
         /\ used' \in [Kinds -> Nat]
<1>1. CASE ProduceAcked(r)
  BY <1>1, StoredType DEF ProduceAcked, Types
<1>2. CASE ProduceRefused
  BY <1>2 DEF ProduceRefused, Types
<1>3. CASE ProduceTimesOut(r)
  <2>1. Spend("timeouts") /\ UNCHANGED topic /\ late' = [late EXCEPT ![r] = @ + 1]
    BY <1>3 DEF ProduceTimesOut
  <2>2. used' \in [Kinds -> Nat]
    BY <2>1, SpendType DEF Kinds
  <2>3. topic \in [Readings -> Nat] /\ late \in [Readings -> Nat]
    BY DEF Types
  <2> QED
    BY <2>1, <2>2, <2>3
<1> QED
  BY <1>1, <1>2, <1>3 DEF ProduceFails

LEMMA SpoolWriteType ==
  ASSUME Types, NEW r \in Readings, SpoolWrite(r)
  PROVE  /\ file' \in Seq(Readings \cup {Torn})
         /\ sticky' \in BOOLEAN
         /\ used' \in [Kinds -> Nat]
<1>1. /\ Append(file, r) \in Seq(Readings \cup {Torn})
      /\ Append(file, Torn) \in Seq(Readings \cup {Torn})
  BY AppendProperties DEF Types
<1>2. CASE SpoolWritten(r)
  BY <1>1, <1>2 DEF SpoolWritten, Types
<1>3. CASE SpoolWriteFails
  <2>1. CASE sticky /\ UNCHANGED <<file, sticky, used>>
    BY <2>1 DEF Types
  <2>2. CASE ~sticky /\ Spend("faults") /\ sticky' = TRUE /\ file' \in {file, Append(file, Torn)}
    BY <2>2, <1>1, SpendType DEF Types, Kinds
  <2> QED
    BY <1>3, <2>1, <2>2 DEF SpoolWriteFails
<1> QED
  BY <1>2, <1>3 DEF SpoolWrite

\* The records of the batch.
LEMMA BatchMember ==
  ASSUME Types, NEW i \in DOMAIN batch
  PROVE  batch[i] \in Retry /\ batch[i].r \in Readings
<1>1. batch \in Seq(Retry)
  BY DEF Types, Retry
<1>2. batch[i] \in Retry
  BY <1>1
<1> QED
  BY <1>2 DEF Retry

\* A record of the batch changes its place in drainOnce.
LEMMA BatchStepType ==
  ASSUME Types, NEW i \in DOMAIN batch, NEW pc \in {"queued", "produce", "spill", "done"},
         batch' = [batch EXCEPT ![i].pc = pc]
  PROVE  /\ batch' \in Seq(Retry)
         /\ DOMAIN batch' = DOMAIN batch
         /\ \A j \in DOMAIN batch : batch'[j].r = batch[j].r /\ batch[j].r \in Readings
         /\ batch'[i].pc = pc
         /\ \A j \in DOMAIN batch : j # i => batch'[j] = batch[j]
<1>0. batch \in Seq(Retry)
  BY DEF Types, Retry
<1>1. batch \in [1 .. Len(batch) -> Retry] /\ Len(batch) \in Nat
  BY <1>0
<1>2. [batch[i] EXCEPT !.pc = pc] \in Retry
  BY <1>1 DEF Retry
<1>3. batch' = [batch EXCEPT ![i] = [batch[i] EXCEPT !.pc = pc]]
  OBVIOUS
<1>4. batch' \in [1 .. Len(batch) -> Retry]
  BY <1>1, <1>2, <1>3
<1>5. batch' \in Seq(Retry)
  BY <1>1, <1>4, SeqDef
<1> QED
  BY <1>1, <1>3, <1>5 DEF Retry

\* One action after the other keeps the types.
LEMMA NextTypes == Types /\ [Next]_vars => Types'
<1> SUFFICES ASSUME Types, [Next]_vars PROVE Types'
  OBVIOUS
<1>1. ASSUME NEW c \in Conns, NEW r \in Readings, ReceiveDuplicate(c, r)
      PROVE  Types'
  BY <1>1, SpendType DEF ReceiveDuplicate, Types, Kinds
<1>2. ASSUME NEW c \in Conns, NEW r \in Readings, ReceiveNew(c, r)
      PROVE  Types'
  <2>1. Dev(r) \in Devices /\ SeqNo(r) \in SeqNos
    BY DEF Readings, Dev, SeqNo
  <2>2. seen \in [Devices -> DeviceSeen]
    BY DEF Types, DeviceSeen
  <2>3. Remember(seen[Dev(r)], SeqNo(r)) \in DeviceSeen
    BY <2>1, <2>2, RememberType
  <2>4. seen' \in [Devices -> DeviceSeen]
    BY <1>2, <2>2, <2>3 DEF ReceiveNew
  <2>5. Busy("produce", r) \in [pc : {"produce", "spill"}, r : Readings]
    BY DEF Busy
  <2>6. conn' \in [Conns -> {Waiting} \cup [pc : {"produce", "spill"}, r : Readings]]
    BY <1>2, <2>5 DEF ReceiveNew, Types
  <2>7. admits' \in [Readings -> Nat]
    BY <1>2 DEF ReceiveNew, Types
  <2>8. used' \in [Kinds -> Nat]
    BY <1>2, SpendType DEF ReceiveNew, Kinds
  <2> QED
    BY <1>2, <2>4, <2>6, <2>7, <2>8 DEF ReceiveNew, Types, DeviceSeen
<1>3. ASSUME NEW c \in Conns, ConnProduce(c)
      PROVE  Types'
  <2>1. conn[c] \in [pc : {"produce", "spill"}, r : Readings]
    BY <1>3 DEF ConnProduce, Types, Waiting
  <2>2. conn[c].r \in Readings /\ [conn[c] EXCEPT !.pc = "spill"] \in [pc : {"produce", "spill"}, r : Readings]
    BY <2>1
  <2>3. ProduceAcked(conn[c].r) \/ ProduceFails(conn[c].r)
    BY <1>3 DEF ConnProduce
  <2>4. topic' \in [Readings -> Nat] /\ late' \in [Readings -> Nat] /\ used' \in [Kinds -> Nat]
    BY <2>2, <2>3, ProduceType
  <2>5. conn' \in [Conns -> {Waiting} \cup [pc : {"produce", "spill"}, r : Readings]]
    BY <1>3, <2>2 DEF ConnProduce, Types
  <2> QED
    BY <1>3, <2>4, <2>5 DEF ConnProduce, Types
<1>4. ASSUME NEW c \in Conns, ConnSpill(c)
      PROVE  Types'
  <2>1. conn[c] \in [pc : {"produce", "spill"}, r : Readings]
    BY <1>4 DEF ConnSpill, Types, Waiting
  <2>2. /\ file' \in Seq(Readings \cup {Torn}) /\ sticky' \in BOOLEAN
        /\ used' \in [Kinds -> Nat]
    BY <1>4, <2>1, SpoolWriteType DEF ConnSpill
  <2>3. conn' \in [Conns -> {Waiting} \cup [pc : {"produce", "spill"}, r : Readings]]
    BY <1>4 DEF ConnSpill, Types
  <2> QED
    BY <1>4, <2>2, <2>3 DEF ConnSpill, Types
<1>5. CASE DrainTake
  <2>1. PICK rs \in ReadBacks(file) : batch' = Queued(rs)
    BY <1>5 DEF DrainTake
  <2>2. batch' \in Seq(Retry)
    BY <2>1, ReadBacksType, QueuedType DEF Types
  <2>3. file' \in Seq(Readings \cup {Torn})
    BY <1>5 DEF DrainTake, Truncated
  <2> QED
    BY <1>5, <2>2, <2>3 DEF DrainTake, Types, Retry
<1>6. CASE DrainReadFault
  <2>1. PICK rs \in ReadBacks(file), n \in 0 .. Len(file) :
          n < Len(rs) /\ batch' = Queued(SubSeq(rs, 1, n))
    BY <1>6 DEF DrainReadFault
  <2>0. file \in Seq(Readings \cup {Torn})
    BY DEF Types
  <2>2. rs \in Seq(Readings) /\ n \in Nat
    BY <2>0, <2>1, ReadBacksType
  <2>3. SubSeq(rs, 1, n) \in Seq(Readings)
    BY <2>1, <2>2
  <2>4. batch' \in Seq(Retry)
    BY <2>1, <2>3, QueuedType
  <2>5. file' \in Seq(Readings \cup {Torn})
    BY <1>6 DEF DrainReadFault, Truncated
  <2>6. used' \in [Kinds -> Nat]
    BY <1>6, SpendType DEF DrainReadFault, Kinds
  <2> QED
    BY <1>6, <2>4, <2>5, <2>6 DEF DrainReadFault, Types, Retry
<1>7. CASE DrainFails
  <2>1. used' \in [Kinds -> Nat]
    BY <1>7, SpendType DEF DrainFails, Kinds, Types
  <2> QED
    BY <1>7, <2>1 DEF DrainFails, Types
<1>8. CASE DrainLaunch
  <2>1. PICK i \in WithStatus("queued") : batch' = [batch EXCEPT ![i].pc = "produce"]
    BY <1>8 DEF DrainLaunch
  <2>2. batch' \in Seq(Retry)
    BY <2>1, BatchStepType DEF WithStatus
  <2> QED
    BY <1>8, <2>2 DEF DrainLaunch, Types, Retry
<1>9. ASSUME NEW i \in DOMAIN batch, DrainProduce(i)
      PROVE  Types'
  <2>1. batch[i].r \in Readings
    BY BatchMember
  <2>2. topic' \in [Readings -> Nat] /\ late' \in [Readings -> Nat] /\ used' \in [Kinds -> Nat]
    BY <1>9, <2>1, ProduceType DEF DrainProduce
  <2>3. batch' \in Seq(Retry)
    BY <1>9, BatchStepType DEF DrainProduce
  <2> QED
    BY <1>9, <2>2, <2>3 DEF DrainProduce, Types, Retry
<1>10. ASSUME NEW i \in DOMAIN batch, DrainSpill(i)
       PROVE  Types'
  <2>1. batch[i].r \in Readings
    BY BatchMember
  <2>2. /\ file' \in Seq(Readings \cup {Torn}) /\ sticky' \in BOOLEAN
        /\ used' \in [Kinds -> Nat]
    BY <1>10, <2>1, SpoolWriteType DEF DrainSpill
  <2>3. batch' \in Seq(Retry)
    BY <1>10, BatchStepType DEF DrainSpill
  <2> QED
    BY <1>10, <2>2, <2>3 DEF DrainSpill, Types, Retry
<1>11. CASE DrainEnds
  <2>1. batch' \in Seq(Retry)
    BY <1>11 DEF DrainEnds
  <2> QED
    BY <1>11, <2>1 DEF DrainEnds, Types, Retry
<1>12. ASSUME NEW r \in Readings, LateWrite(r)
       PROVE  Types'
  <2>1. topic' \in [Readings -> Nat] /\ used' \in [Kinds -> Nat]
    BY <1>12, StoredType DEF LateWrite
  <2>2. late' \in [Readings -> Nat]
    BY <1>12 DEF LateWrite, Types
  <2> QED
    BY <1>12, <2>1, <2>2 DEF LateWrite, Types
<1>13. ASSUME NEW r \in Readings, LateDrop(r)
       PROVE  Types'
  BY <1>13 DEF LateDrop, Types
<1>14. CASE BrokerGoes
  BY <1>14, SpendType DEF BrokerGoes, Types, Kinds
<1>15. CASE BrokerReturns
  BY <1>15 DEF BrokerReturns, Types
<1>16. CASE Restart
  <2>1. used' \in [Kinds -> Nat]
    BY <1>16, SpendType DEF Restart, Kinds
  <2>2. NewDeviceSeen \in DeviceSeen
    BY DEF NewDeviceSeen, DeviceSeen
  <2>3. batch' \in Seq(Retry)
    BY <1>16 DEF Restart
  <2>4. file' \in Seq(Readings \cup {Torn}) /\ sticky' \in BOOLEAN
    BY <1>16 DEF Restart, SpoolOpened, Types
  <2>5. seen' \in [Devices -> DeviceSeen]
    BY <1>16, <2>2 DEF Restart
  <2> QED
    BY <1>16, <2>1, <2>3, <2>4, <2>5 DEF Restart, Types, None, DeviceSeen, Retry
<1>17. CASE UNCHANGED vars
  BY <1>17 DEF vars, Types
<1> QED
  BY <1>1, <1>2, <1>3, <1>4, <1>5, <1>6, <1>7, <1>8, <1>9, <1>10, <1>11, <1>12,
     <1>13, <1>14, <1>15, <1>16, <1>17 DEF Next, Receive, DrainStep

LEMMA InitTypes == Init => Types
<1> SUFFICES ASSUME Init PROVE Types
  OBVIOUS
<1>1. NewDeviceSeen \in [set : SUBSET SeqNos, order : Seq(SeqNos)]
  BY DEF NewDeviceSeen
<1>2. seen \in [Devices -> [set : SUBSET SeqNos, order : Seq(SeqNos)]]
  BY <1>1 DEF Init
<1>3. conn \in [Conns -> {Waiting} \cup [pc : {"produce", "spill"}, r : Readings]]
  BY DEF Init
<1>4. /\ file \in Seq(Readings \cup {Torn})
      /\ batch \in Seq([pc : {"queued", "produce", "spill", "done"}, r : Readings])
  BY DEF Init
<1>5. /\ sticky \in BOOLEAN /\ brokerUp \in BOOLEAN
      /\ late \in [Readings -> Nat] /\ topic \in [Readings -> Nat]
      /\ used \in [Kinds -> Nat] /\ admits \in [Readings -> Nat]
  BY DEF Init, None
<1> QED
  BY <1>2, <1>3, <1>4, <1>5 DEF Types

\* The semaphore: a retry is started only while there is a place for it.
LEMMA SemaphoreKept ==
  ASSUME Types, Types', [Next]_vars, Cardinality(Retrying) <= DrainConcurrency
  PROVE  (Cardinality(Retrying) <= DrainConcurrency)'
<1>1. IsFiniteSet(DOMAIN batch)
  <2>1. DOMAIN batch = 1 .. Len(batch) /\ Len(batch) \in Nat
    BY DEF Types
  <2> QED
    BY <2>1, FS_Interval
<1>2. IsFiniteSet(Retrying) /\ Cardinality(Retrying) \in Nat
  <2>1. Retrying \subseteq DOMAIN batch
    BY DEF Retrying, WithStatus
  <2> QED
    BY <1>1, <2>1, FS_Subset, FS_CardinalityType
<1>3. DrainConcurrency \in Nat
  BY GatewayAssumption
<1>4. CASE Retrying' \subseteq Retrying
  <2>1. Cardinality(Retrying') <= Cardinality(Retrying)
    BY <1>2, <1>4, FS_Subset
  <2>2. Cardinality(Retrying') \in Nat
    BY <1>2, <1>4, FS_Subset, FS_CardinalityType
  <2> QED
    BY <1>2, <1>3, <2>1, <2>2
<1>5. CASE DrainLaunch
  <2>1. PICK i \in WithStatus("queued") : batch' = [batch EXCEPT ![i].pc = "produce"]
    BY <1>5 DEF DrainLaunch
  <2>2. i \in DOMAIN batch /\ batch[i].pc = "queued"
    BY <2>1 DEF WithStatus
  <2>3. /\ DOMAIN batch' = DOMAIN batch /\ batch'[i].pc = "produce"
        /\ \A j \in DOMAIN batch : j # i => batch'[j] = batch[j]
    BY <2>1, <2>2, BatchStepType
  <2>4. Retrying' = Retrying \cup {i}
    BY <2>2, <2>3 DEF Retrying, WithStatus
  <2>5. Cardinality(Retrying') <= Cardinality(Retrying) + 1
    BY <1>2, <2>4, FS_AddElement
  <2>6. Cardinality(Retrying) < DrainConcurrency
    BY <1>5 DEF DrainLaunch, PlaceInSemaphore
  <2>7. Cardinality(Retrying') \in Nat
    BY <1>2, <2>4, FS_AddElement, FS_CardinalityType
  <2> QED
    BY <1>2, <1>3, <2>5, <2>6, <2>7
<1>6. CASE batch' = batch
  BY <1>4, <1>6 DEF Retrying, WithStatus
<1>7. CASE batch' = << >>
  BY <1>4, <1>7 DEF Retrying, WithStatus
<1>8. ASSUME NEW rs \in Seq(Readings), batch' = Queued(rs)
      PROVE  Retrying' \subseteq Retrying
  <2>0. /\ DOMAIN batch' = DOMAIN rs
        /\ \A i \in DOMAIN rs : batch'[i] = [pc |-> "queued", r |-> rs[i]]
    BY <1>8, QueuedType, Zenon
  <2>1. \A i \in DOMAIN batch' : batch'[i].pc = "queued"
    BY <2>0
  <2> QED
    BY <2>1 DEF Retrying, WithStatus
<1>9. CASE DrainTake
  <2>1. PICK rs \in ReadBacks(file) : batch' = Queued(rs)
    BY <1>9 DEF DrainTake
  <2>2. rs \in Seq(Readings)
    BY <2>1, ReadBacksType DEF Types
  <2> QED
    BY <1>4, <1>8, <2>1, <2>2
<1>10. CASE DrainReadFault
  <2>1. PICK rs \in ReadBacks(file), n \in 0 .. Len(file) :
          n < Len(rs) /\ batch' = Queued(SubSeq(rs, 1, n))
    BY <1>10 DEF DrainReadFault
  <2>2. file \in Seq(Readings \cup {Torn})
    BY DEF Types
  <2>3. rs \in Seq(Readings) /\ n \in Nat
    BY <2>1, <2>2, ReadBacksType
  <2>4. SubSeq(rs, 1, n) \in Seq(Readings)
    BY <2>1, <2>3
  <2> QED
    BY <1>4, <1>8, <2>1, <2>4
<1>11. ASSUME NEW i \in DOMAIN batch, DrainProduce(i)
       PROVE  Retrying' \subseteq Retrying
  <2>1. PICK pc \in {"done", "spill"} : batch' = [batch EXCEPT ![i].pc = pc]
    BY <1>11 DEF DrainProduce
  <2>2. /\ DOMAIN batch' = DOMAIN batch /\ batch[i].pc = "produce"
        /\ \A j \in DOMAIN batch : j # i => batch'[j] = batch[j]
    BY <1>11, <2>1, BatchStepType DEF DrainProduce
  <2> QED
    BY <2>2 DEF Retrying, WithStatus
<1>12. ASSUME NEW i \in DOMAIN batch, DrainSpill(i)
       PROVE  Retrying' \subseteq Retrying
  <2>1. batch' = [batch EXCEPT ![i].pc = "done"]
    BY <1>12 DEF DrainSpill
  <2>2. /\ DOMAIN batch' = DOMAIN batch /\ batch[i].pc = "spill"
        /\ \A j \in DOMAIN batch : j # i => batch'[j] = batch[j]
    BY <1>12, <2>1, BatchStepType DEF DrainSpill
  <2> QED
    BY <2>2 DEF Retrying, WithStatus
<1> QED
  BY <1>4, <1>5, <1>6, <1>7, <1>9, <1>10, <1>11, <1>12
     DEF Next, Receive, DrainStep, vars, ReceiveDuplicate, ReceiveNew, ConnProduce,
         ConnSpill, DrainFails, DrainEnds, LateWrite, LateDrop, BrokerGoes,
         BrokerReturns, Restart

\* Types and semaphore hold in every behaviour.
THEOREM TypeCorrect == Spec => []TypeOK
<1>1. Init => TypeOK
  <2>1. ASSUME Init PROVE Retrying = {}
    BY <2>1 DEF Init, Retrying, WithStatus
  <2> QED
    BY <2>1, InitTypes, FS_EmptySet, GatewayAssumption DEF TypeOK
<1>2. TypeOK /\ [Next]_vars => TypeOK'
  BY NextTypes, SemaphoreKept DEF TypeOK
<1> QED
  BY <1>1, <1>2, PTL DEF Spec

-----------------------------------------------------------------------------
(* What a step does to one reading.  Present(q) says that some goroutine,  *)
(* the file or the Kafka writer holds a copy of q; Safe(q) is the          *)
(* conclusion of NoLoss.                                                   *)

Present(q) == Held(q) \/ late[q] > 0
Safe(q) == topic[q] > 0 \/ Held(q)

\* The step leaves q where it is, as far as an outsider can tell.
Same(q) ==
  /\ topic'[q] > 0 <=> topic[q] > 0
  /\ Present(q)' <=> Present(q)
  /\ admits'[q] = admits[q]

AcceptsR(r) ==
  /\ topic'[r] > 0 <=> topic[r] > 0
  /\ Held(r)' /\ admits'[r] > 0
  /\ \A q \in Readings \ {r} : Same(q)

ForwardsR(r) ==
  /\ Present(r) /\ topic'[r] > 0 /\ admits'[r] = admits[r]
  /\ \A q \in Readings \ {r} : Same(q)

LosesSome ==
  \A q \in Readings :
    /\ topic'[q] > 0 <=> topic[q] > 0
    /\ Present(q)' => Present(q)
    /\ admits'[q] = admits[q]

\* The process has died, and has forgotten what it had admitted.
StartsAfresh == used'["crashes"] > 0 /\ seen' = [d \in Devices |-> NewDeviceSeen]

\* Unless the disk or the process fails, nothing that is safe is given up.
KeepsSafe ==
  \A q \in Readings : Safe(q) => Safe(q)' \/ used'["faults"] > 0 \/ StartsAfresh

Effect ==
  /\ KeepsSafe
  /\ SoundSpool'
  /\ LosesSome \/ \E r \in Readings : AcceptsR(r) \/ ForwardsR(r)

\* A handler is done with its reading.
LEMMA HandlerLeaves ==
  ASSUME NEW c \in Conns, conn \in [Conns -> {Waiting} \cup [pc : {"produce", "spill"}, r : Readings]],
         conn[c] # Waiting,
         conn' = [conn EXCEPT ![c] = Waiting]
  PROVE  /\ InHandler(conn[c].r)
         /\ \A q \in Readings : InHandler(q)' => InHandler(q)
         /\ \A q \in Readings : InHandler(q) /\ q # conn[c].r => InHandler(q)'
<1>1. \A d \in Conns : d # c => conn'[d] = conn[d]
  OBVIOUS
<1>2. conn'[c] = Waiting
  OBVIOUS
<1> QED
  BY <1>1, <1>2, Zenon DEF InHandler

\* A handler goes on to the spool.
LEMMA HandlerStays ==
  ASSUME NEW c \in Conns, conn \in [Conns -> {Waiting} \cup [pc : {"produce", "spill"}, r : Readings]],
         conn[c].pc = "produce",
         conn' = [conn EXCEPT ![c].pc = "spill"]
  PROVE  \A q \in Readings : InHandler(q)' <=> InHandler(q)
<1>1. \A d \in Conns : d # c => conn'[d] = conn[d]
  OBVIOUS
<1>2. conn[c] \in [pc : {"produce", "spill"}, r : Readings]
  BY DEF Waiting
<1>3. conn'[c] = [conn[c] EXCEPT !.pc = "spill"]
  OBVIOUS
<1>4. conn'[c].r = conn[c].r /\ conn'[c].pc = "spill"
  BY <1>2, <1>3
<1>5. conn[c] # Waiting /\ conn'[c] # Waiting
  BY <1>4 DEF Waiting
<1> QED
  BY <1>1, <1>4, <1>5, Zenon DEF InHandler

\* A record of the batch is done.
LEMMA RetryLeaves ==
  ASSUME Types, NEW i \in DOMAIN batch, batch[i].pc # "done",
         batch' = [batch EXCEPT ![i].pc = "done"]
  PROVE  /\ InBatch(batch[i].r)
         /\ \A q \in Readings : InBatch(q)' => InBatch(q)
         /\ \A q \in Readings : InBatch(q) /\ q # batch[i].r => InBatch(q)'
<1>1. /\ DOMAIN batch' = DOMAIN batch
      /\ \A j \in DOMAIN batch : batch'[j].r = batch[j].r
      /\ batch'[i].pc = "done"
      /\ \A j \in DOMAIN batch : j # i => batch'[j] = batch[j]
  BY BatchStepType
<1> QED
  BY <1>1, Zenon DEF InBatch

\* A record of the batch goes on.
LEMMA RetryStays ==
  ASSUME Types, NEW i \in DOMAIN batch, batch[i].pc # "done",
         NEW pc \in {"produce", "spill"},
         batch' = [batch EXCEPT ![i].pc = pc]
  PROVE  \A q \in Readings : InBatch(q)' <=> InBatch(q)
<1>1. /\ DOMAIN batch' = DOMAIN batch
      /\ \A j \in DOMAIN batch : batch'[j].r = batch[j].r
      /\ batch'[i].pc = pc
      /\ \A j \in DOMAIN batch : j # i => batch'[j] = batch[j]
  BY BatchStepType
<1>2. pc # "done"
  OBVIOUS
<1> QED
  BY <1>1, <1>2, Zenon DEF InBatch

LEMMA ProduceAckedEffect ==
  ASSUME Types, NEW r \in Readings, ProduceAcked(r)
  PROVE  /\ topic'[r] > 0
         /\ \A q \in Readings : q # r => topic'[q] = topic[q]
         /\ late' = late
         /\ used'["faults"] = used["faults"] /\ used'["crashes"] = used["crashes"]
  BY StoredType DEF ProduceAcked

LEMMA ProduceFailsEffect ==
  ASSUME Types, NEW r \in Readings, ProduceFails(r)
  PROVE  /\ topic' = topic
         /\ \A q \in Readings : q # r => late'[q] = late[q]
         /\ used'["faults"] = used["faults"] /\ used'["crashes"] = used["crashes"]
<1>1. CASE ProduceRefused
  BY <1>1 DEF ProduceRefused
<1>2. CASE ProduceTimesOut(r)
  <2>1. used'["faults"] = used["faults"] /\ used'["crashes"] = used["crashes"]
    BY <1>2, SpendType DEF ProduceTimesOut, Kinds
  <2>2. \A q \in Readings : q # r => late'[q] = late[q]
    BY <1>2 DEF ProduceTimesOut, Types
  <2> QED
    BY <1>2, <2>1, <2>2 DEF ProduceTimesOut
<1> QED
  BY <1>1, <1>2 DEF ProduceFails

\* A record is appended: it is there, everything else is where it was.
LEMMA AppendEffect ==
  ASSUME Types, NEW e \in Readings \cup {Torn}, file' = Append(file, e)
  PROVE  /\ \A q \in Readings : InFile(q)' <=> InFile(q) \/ q = e
         /\ e # Torn => (Tears(file) = {} => Tears(file)' = {})
<1>1. file \in Seq(Readings \cup {Torn})
  BY DEF Types
<1>2. /\ DOMAIN file = 1 .. Len(file) /\ Len(file) \in Nat
      /\ DOMAIN file' = 1 .. Len(file) + 1
      /\ \A i \in 1 .. Len(file) : file'[i] = file[i]
      /\ file'[Len(file) + 1] = e
  BY <1>1
<1>3. \A i \in 1 .. Len(file) + 1 : i \in 1 .. Len(file) \/ i = Len(file) + 1
  BY <1>2
<1>4. 1 .. Len(file) \subseteq 1 .. Len(file) + 1 /\ Len(file) + 1 \in 1 .. Len(file) + 1
  BY <1>2
<1>5. \A q \in Readings : InFile(q)' <=> InFile(q) \/ q = e
  BY <1>2, <1>3, <1>4, Zenon DEF InFile
<1>6. e # Torn => (Tears(file) = {} => Tears(file)' = {})
  <2>1. SUFFICES ASSUME e # Torn, Tears(file) = {}, NEW i \in DOMAIN file'
                 PROVE  file'[i] # Torn
    BY DEF Tears
  <2> QED
    BY <2>1, <1>2, <1>3 DEF Tears
<1> QED
  BY <1>5, <1>6

LEMMA SpoolWriteEffect ==
  ASSUME Types, SoundSpool, NEW r \in Readings, SpoolWrite(r)
  PROVE  /\ SoundSpool'
         /\ \A q \in Readings : InFile(q) => InFile(q)'
         /\ \A q \in Readings : q # r => (InFile(q)' <=> InFile(q))
         /\ InFile(r)' \/ used'["faults"] > 0
<1>1. CASE SpoolWritten(r)
  <2>1. \A q \in Readings : InFile(q)' <=> InFile(q) \/ q = r
    BY <1>1, AppendEffect DEF SpoolWritten
  <2>2. SoundSpool'
    <3>1. Tears(file) = {} => Tears(file)' = {}
      BY <1>1, AppendEffect, TornIsNoReading DEF SpoolWritten
    <3> QED
      BY <1>1, <3>1 DEF SpoolWritten, SoundSpool
  <2> QED
    BY <2>1, <2>2
<1>2. CASE SpoolWriteFails
  <2>1. used'["faults"] > 0
    <3>1. CASE sticky /\ UNCHANGED <<file, sticky, used>>
      BY <3>1 DEF SoundSpool, Types, Kinds
    <3>2. CASE Spend("faults")
      BY <3>2, SpendType DEF Kinds, Types
    <3> QED
      BY <1>2, <3>1, <3>2 DEF SpoolWriteFails
  <2>2. \A q \in Readings : InFile(q)' <=> InFile(q)
    <3>1. CASE file' = file
      BY <3>1 DEF InFile
    <3>2. CASE file' = Append(file, Torn)
      BY <3>2, AppendEffect, TornIsNoReading
    <3> QED
      BY <1>2, <3>1, <3>2 DEF SpoolWriteFails
  <2>3. SoundSpool'
    BY <2>1 DEF SoundSpool
  <2> QED
    BY <2>1, <2>2, <2>3
<1> QED
  BY <1>1, <1>2 DEF SpoolWrite

\* A handler takes a new reading.
LEMMA HandlerEnters ==
  ASSUME NEW c \in Conns, NEW r \in Readings,
         conn \in [Conns -> {Waiting} \cup [pc : {"produce", "spill"}, r : Readings]],
         conn[c] = Waiting,
         conn' = [conn EXCEPT ![c] = Busy("produce", r)]
  PROVE  \A q \in Readings : InHandler(q)' <=> InHandler(q) \/ q = r
<1>1. \A d \in Conns : d # c => conn'[d] = conn[d]
  OBVIOUS
<1>2. conn'[c] = [pc |-> "produce", r |-> r]
  BY DEF Busy
<1>3. conn'[c] # Waiting /\ conn'[c].r = r
  BY <1>2 DEF Waiting
<1> QED
  BY <1>1, <1>3, Zenon DEF InHandler

\* The drainer takes over what could be read.
LEMMA BatchFilled ==
  ASSUME NEW rs \in Seq(Readings), batch = << >>, batch' = Queued(rs)
  PROVE  /\ \A q \in Readings : ~InBatch(q)
         /\ \A q \in Readings : InBatch(q)' <=> \E i \in DOMAIN rs : rs[i] = q
<1>1. /\ DOMAIN batch' = DOMAIN rs
      /\ \A i \in DOMAIN rs : batch'[i] = [pc |-> "queued", r |-> rs[i]]
  BY QueuedType, Zenon
<1>2. \A i \in DOMAIN rs : batch'[i].pc # "done" /\ batch'[i].r = rs[i]
  BY <1>1
<1>3. \A q \in Readings : InBatch(q)' <=> \E i \in DOMAIN rs : rs[i] = q
  BY <1>1, <1>2, Zenon DEF InBatch
<1>4. DOMAIN batch = {}
  OBVIOUS
<1> QED
  BY <1>3, <1>4 DEF InBatch

\* The effect of every action, one action after the other.
LEMMA ReceiveDuplicateEffect ==
  ASSUME Types, SoundSpool, NEW c \in Conns, NEW r \in Readings, ReceiveDuplicate(c, r)
  PROVE  Effect
<1>1. used'["faults"] = used["faults"]
  BY SpendType DEF ReceiveDuplicate, Kinds
<1>2. SoundSpool'
  BY <1>1 DEF SoundSpool, ReceiveDuplicate, Tears
<1>3. \A q \in Readings : Held(q)' <=> Held(q)
  BY DEF ReceiveDuplicate, Held, InHandler, InFile, InBatch
<1> QED
  BY <1>2, <1>3 DEF Effect, KeepsSafe, Safe, LosesSome, Present, ReceiveDuplicate

LEMMA ReceiveNewEffect ==
  ASSUME Types, SoundSpool, NEW c \in Conns, NEW r \in Readings, ReceiveNew(c, r)
  PROVE  Effect
<1>1. used'["faults"] = used["faults"]
  BY SpendType DEF ReceiveNew, Kinds
<1>2. SoundSpool'
  BY <1>1 DEF SoundSpool, ReceiveNew, Tears
<1>3. \A q \in Readings : InHandler(q)' <=> InHandler(q) \/ q = r
  BY HandlerEnters DEF ReceiveNew, Types
<1>4. \A q \in Readings : (InFile(q)' <=> InFile(q)) /\ (InBatch(q)' <=> InBatch(q))
  BY DEF ReceiveNew, InFile, InBatch
<1>5. topic' = topic /\ late' = late
  BY DEF ReceiveNew
<1>6. admits'[r] > 0 /\ \A q \in Readings : q # r => admits'[q] = admits[q]
  BY DEF ReceiveNew, Types
<1>7. \A q \in Readings : Held(q)' <=> Held(q) \/ q = r
  BY <1>3, <1>4 DEF Held
<1>8. AcceptsR(r)
  BY <1>5, <1>6, <1>7 DEF AcceptsR, Same, Present
<1>9. KeepsSafe
  BY <1>5, <1>7 DEF KeepsSafe, Safe
<1> QED
  BY <1>2, <1>8, <1>9 DEF Effect

LEMMA ConnProduceEffect ==
  ASSUME Types, SoundSpool, NEW c \in Conns, ConnProduce(c)
  PROVE  Effect
<1> DEFINE r == conn[c].r
<1>1. conn \in [Conns -> {Waiting} \cup [pc : {"produce", "spill"}, r : Readings]]
  BY DEF Types
<1>2. r \in Readings /\ conn[c] # Waiting /\ conn[c].pc = "produce"
  BY <1>1 DEF ConnProduce, Waiting
<1>3. /\ \A q \in Readings : (InFile(q)' <=> InFile(q)) /\ (InBatch(q)' <=> InBatch(q))
      /\ admits' = admits /\ file' = file /\ sticky' = sticky
  BY DEF ConnProduce, InFile, InBatch
<1>4. CASE ProduceAcked(r) /\ conn' = [conn EXCEPT ![c] = Waiting]
  <2>1. /\ topic'[r] > 0 /\ late' = late /\ used'["faults"] = used["faults"]
        /\ \A q \in Readings : q # r => topic'[q] = topic[q]
    BY <1>2, <1>4, ProduceAckedEffect
  <2>2. /\ InHandler(r)
        /\ \A q \in Readings : q # r => (InHandler(q)' <=> InHandler(q))
    BY <1>1, <1>2, <1>4, HandlerLeaves
  <2>3. ForwardsR(r)
    BY <1>3, <2>1, <2>2 DEF ForwardsR, Same, Present, Held
  <2>4. KeepsSafe
    BY <1>3, <2>1, <2>2 DEF KeepsSafe, Safe, Held
  <2>5. SoundSpool'
    BY <1>3, <2>1 DEF SoundSpool, Tears
  <2> QED
    BY <1>2, <2>3, <2>4, <2>5 DEF Effect
<1>5. CASE ProduceFails(r) /\ conn' = [conn EXCEPT ![c].pc = "spill"]
  <2>1. /\ topic' = topic /\ used'["faults"] = used["faults"]
        /\ \A q \in Readings : q # r => late'[q] = late[q]
    BY <1>2, <1>5, ProduceFailsEffect
  <2>2. \A q \in Readings : InHandler(q)' <=> InHandler(q)
    BY <1>1, <1>2, <1>5, HandlerStays
  <2>3. InHandler(r)
    BY <1>2 DEF InHandler
  <2>4. LosesSome
    BY <1>3, <2>1, <2>2, <2>3 DEF LosesSome, Present, Held
  <2>5. KeepsSafe
    BY <1>3, <2>1, <2>2 DEF KeepsSafe, Safe, Held
  <2>6. SoundSpool'
    BY <1>3, <2>1 DEF SoundSpool, Tears
  <2> QED
    BY <2>4, <2>5, <2>6 DEF Effect
<1> QED
  BY <1>4, <1>5 DEF ConnProduce

LEMMA ConnSpillEffect ==
  ASSUME Types, SoundSpool, NEW c \in Conns, ConnSpill(c)
  PROVE  Effect
<1>1. conn \in [Conns -> {Waiting} \cup [pc : {"produce", "spill"}, r : Readings]]
  BY DEF Types
<1>2. conn[c].r \in Readings /\ conn[c] # Waiting
  BY <1>1 DEF ConnSpill, Waiting
<1>0. PICK r \in Readings : r = conn[c].r
  BY <1>2
<1>3. /\ \A q \in Readings : InBatch(q)' <=> InBatch(q)
      /\ admits' = admits /\ topic' = topic /\ late' = late
  BY DEF ConnSpill, InBatch
<1>4. /\ SoundSpool'
      /\ \A q \in Readings : InFile(q) => InFile(q)'
      /\ \A q \in Readings : q # r => (InFile(q)' <=> InFile(q))
      /\ InFile(r)' \/ used'["faults"] > 0
  <2>1. SpoolWrite(r)
    BY <1>0 DEF ConnSpill
  <2> QED
    BY <1>2, <2>1, SpoolWriteEffect
<1>5. /\ InHandler(r)
      /\ \A q \in Readings : InHandler(q)' => InHandler(q)
      /\ \A q \in Readings : InHandler(q) /\ q # r => InHandler(q)'
  BY <1>0, <1>1, <1>2, HandlerLeaves DEF ConnSpill
<1>6. LosesSome
  BY <1>3, <1>4, <1>5 DEF LosesSome, Present, Held
<1>7. KeepsSafe
  <2>1. SUFFICES ASSUME NEW q \in Readings, Safe(q)
                 PROVE  Safe(q)' \/ used'["faults"] > 0
    BY DEF KeepsSafe
  <2>2. CASE q = r
    BY <2>2, <1>4 DEF Safe, Held
  <2>3. CASE q # r
    BY <2>1, <2>3, <1>3, <1>4, <1>5 DEF Safe, Held
  <2> QED
    BY <2>2, <2>3
<1> QED
  BY <1>4, <1>6, <1>7 DEF Effect

LEMMA DrainTakeEffect ==
  ASSUME Types, SoundSpool, DrainTake
  PROVE  Effect
<1>1. PICK rs \in ReadBacks(file) : batch' = Queued(rs)
  BY DEF DrainTake
<1>2. file \in Seq(Readings \cup {Torn})
  BY DEF Types
<1>3. /\ rs \in Seq(Readings)
      /\ Tears(file) = {} => rs = file
      /\ \A i \in DOMAIN rs : \E j \in DOMAIN file : rs[i] = file[j]
  BY <1>1, <1>2, ReadBacksType
<1>4. /\ \A q \in Readings : ~InBatch(q)
      /\ \A q \in Readings : InBatch(q)' <=> \E i \in DOMAIN rs : rs[i] = q
  BY <1>1, <1>3, BatchFilled DEF DrainTake
<1>5. /\ file' = << >> /\ sticky' = sticky /\ used' = used
      /\ admits' = admits /\ topic' = topic /\ late' = late /\ conn' = conn
  BY DEF DrainTake, Truncated
<1>6. \A q \in Readings : ~InFile(q)' /\ (InHandler(q)' <=> InHandler(q))
  BY <1>5 DEF InFile, InHandler
<1>7. \A q \in Readings : InBatch(q)' => InFile(q)
  BY <1>3, <1>4 DEF InFile
<1>8. \A q \in Readings : InFile(q) => InBatch(q)' \/ used["faults"] > 0
  <2>1. CASE used["faults"] = 0
    BY <2>1, <1>3, <1>4 DEF SoundSpool, InFile
  <2>2. CASE used["faults"] # 0
    BY <2>2 DEF Types, Kinds
  <2> QED
    BY <2>1, <2>2
<1>9. LosesSome
  BY <1>4, <1>5, <1>6, <1>7 DEF LosesSome, Present, Held
<1>10. KeepsSafe
  BY <1>4, <1>5, <1>6, <1>8 DEF KeepsSafe, Safe, Held
<1>11. SoundSpool'
  BY <1>5 DEF SoundSpool, Tears
<1> QED
  BY <1>9, <1>10, <1>11 DEF Effect

LEMMA DrainReadFaultEffect ==
  ASSUME Types, SoundSpool, DrainReadFault
  PROVE  Effect
<1>1. PICK rs \in ReadBacks(file), n \in 0 .. Len(file) :
        n < Len(rs) /\ batch' = Queued(SubSeq(rs, 1, n))
  BY DEF DrainReadFault
<1>2. file \in Seq(Readings \cup {Torn})
  BY DEF Types
<1>3. /\ rs \in Seq(Readings)
      /\ \A i \in DOMAIN rs : \E j \in DOMAIN file : rs[i] = file[j]
  BY <1>1, <1>2, ReadBacksType
<1> DEFINE part == SubSeq(rs, 1, n)
<1>4. /\ part \in Seq(Readings)
      /\ \A i \in DOMAIN part : i \in DOMAIN rs /\ part[i] = rs[i]
  BY <1>1, <1>3
<1>5. /\ \A q \in Readings : ~InBatch(q)
      /\ \A q \in Readings : InBatch(q)' <=> \E i \in DOMAIN part : part[i] = q
  BY <1>1, <1>4, BatchFilled DEF DrainReadFault
<1>6. /\ file' = << >>
      /\ admits' = admits /\ topic' = topic /\ late' = late /\ conn' = conn
  BY DEF DrainReadFault, Truncated
<1>7. \A q \in Readings : ~InFile(q)' /\ (InHandler(q)' <=> InHandler(q))
  BY <1>6 DEF InFile, InHandler
<1>8. \A q \in Readings : InBatch(q)' => InFile(q)
  BY <1>3, <1>4, <1>5 DEF InFile
<1>9. used'["faults"] > 0
  BY SpendType DEF DrainReadFault, Kinds, Types
<1>10. LosesSome
  BY <1>5, <1>6, <1>7, <1>8 DEF LosesSome, Present, Held
<1>11. KeepsSafe /\ SoundSpool'
  BY <1>9 DEF KeepsSafe, SoundSpool
<1> QED
  BY <1>10, <1>11 DEF Effect

LEMMA DrainFailsEffect ==
  ASSUME Types, SoundSpool, DrainFails
  PROVE  Effect
<1>1. used'["faults"] = used["faults"] \/ used'["faults"] > 0
  BY SpendType DEF DrainFails, Kinds, Types
<1>2. SoundSpool'
  BY <1>1 DEF SoundSpool, DrainFails, Tears
<1>3. \A q \in Readings : Held(q)' <=> Held(q)
  BY DEF DrainFails, Held, InHandler, InFile, InBatch
<1> QED
  BY <1>2, <1>3 DEF Effect, KeepsSafe, Safe, LosesSome, Present, DrainFails

LEMMA DrainLaunchEffect ==
  ASSUME Types, SoundSpool, DrainLaunch
  PROVE  Effect
<1>1. PICK i \in WithStatus("queued") : batch' = [batch EXCEPT ![i].pc = "produce"]
  BY DEF DrainLaunch
<1>2. i \in DOMAIN batch /\ batch[i].pc = "queued"
  BY DEF WithStatus
<1>3. \A q \in Readings : InBatch(q)' <=> InBatch(q)
  BY <1>1, <1>2, RetryStays
<1>4. \A q \in Readings : (InHandler(q)' <=> InHandler(q)) /\ (InFile(q)' <=> InFile(q))
  BY DEF DrainLaunch, InHandler, InFile
<1>5. SoundSpool'
  BY DEF SoundSpool, DrainLaunch, Tears
<1> QED
  BY <1>3, <1>4, <1>5 DEF Effect, KeepsSafe, Safe, Held, LosesSome, Present, DrainLaunch

LEMMA DrainProduceEffect ==
  ASSUME Types, SoundSpool, NEW i \in DOMAIN batch, DrainProduce(i)
  PROVE  Effect
<1> DEFINE r == batch[i].r
<1>1. r \in Readings /\ batch[i].pc = "produce"
  BY BatchMember DEF DrainProduce
<1>2. /\ \A q \in Readings : (InFile(q)' <=> InFile(q)) /\ (InHandler(q)' <=> InHandler(q))
      /\ admits' = admits /\ file' = file /\ sticky' = sticky
  BY DEF DrainProduce, InFile, InHandler
<1>3. CASE ProduceAcked(r) /\ batch' = [batch EXCEPT ![i].pc = "done"]
  <2>1. /\ topic'[r] > 0 /\ late' = late /\ used'["faults"] = used["faults"]
        /\ \A q \in Readings : q # r => topic'[q] = topic[q]
    BY <1>1, <1>3, ProduceAckedEffect
  <2>2. /\ InBatch(r)
        /\ \A q \in Readings : q # r => (InBatch(q)' <=> InBatch(q))
    BY <1>1, <1>3, RetryLeaves
  <2>3. ForwardsR(r)
    BY <1>2, <2>1, <2>2 DEF ForwardsR, Same, Present, Held
  <2>4. KeepsSafe
    BY <1>2, <2>1, <2>2 DEF KeepsSafe, Safe, Held
  <2>5. SoundSpool'
    BY <1>2, <2>1 DEF SoundSpool, Tears
  <2> QED
    BY <1>1, <2>3, <2>4, <2>5 DEF Effect
<1>4. CASE ProduceFails(r) /\ batch' = [batch EXCEPT ![i].pc = "spill"]
  <2>1. /\ topic' = topic /\ used'["faults"] = used["faults"]
        /\ \A q \in Readings : q # r => late'[q] = late[q]
    BY <1>1, <1>4, ProduceFailsEffect
  <2>2. \A q \in Readings : InBatch(q)' <=> InBatch(q)
    BY <1>1, <1>4, RetryStays
  <2>3. InBatch(r)
    BY <1>1 DEF InBatch
  <2>4. LosesSome
    BY <1>2, <2>1, <2>2, <2>3 DEF LosesSome, Present, Held
  <2>5. KeepsSafe
    BY <1>2, <2>1, <2>2 DEF KeepsSafe, Safe, Held
  <2>6. SoundSpool'
    BY <1>2, <2>1 DEF SoundSpool, Tears
  <2> QED
    BY <2>4, <2>5, <2>6 DEF Effect
<1> QED
  BY <1>3, <1>4 DEF DrainProduce

LEMMA DrainSpillEffect ==
  ASSUME Types, SoundSpool, NEW i \in DOMAIN batch, DrainSpill(i)
  PROVE  Effect
<1>1. batch[i].r \in Readings /\ batch[i].pc = "spill"
  BY BatchMember DEF DrainSpill
<1>0. PICK r \in Readings : r = batch[i].r
  BY <1>1
<1>2. /\ \A q \in Readings : InHandler(q)' <=> InHandler(q)
      /\ admits' = admits /\ topic' = topic /\ late' = late
  BY DEF DrainSpill, InHandler
<1>3. /\ InBatch(r)
      /\ \A q \in Readings : InBatch(q)' => InBatch(q)
      /\ \A q \in Readings : InBatch(q) /\ q # r => InBatch(q)'
  BY <1>0, <1>1, RetryLeaves DEF DrainSpill
<1>4. /\ SoundSpool'
      /\ \A q \in Readings : InFile(q) => InFile(q)'
      /\ \A q \in Readings : q # r => (InFile(q)' <=> InFile(q))
      /\ InFile(r)' \/ used'["faults"] > 0
  <2>1. SpoolWrite(r)
    BY <1>0 DEF DrainSpill
  <2> QED
    BY <1>1, <2>1, SpoolWriteEffect
<1>5. LosesSome
  BY <1>2, <1>3, <1>4 DEF LosesSome, Present, Held
<1>6. KeepsSafe
  <2>1. SUFFICES ASSUME NEW q \in Readings, Safe(q)
                 PROVE  Safe(q)' \/ used'["faults"] > 0
    BY DEF KeepsSafe
  <2>2. CASE q = r
    BY <2>2, <1>4 DEF Safe, Held
  <2>3. CASE q # r
    BY <2>1, <2>3, <1>2, <1>3, <1>4 DEF Safe, Held
  <2> QED
    BY <2>2, <2>3
<1> QED
  BY <1>4, <1>5, <1>6 DEF Effect

LEMMA DrainEndsEffect ==
  ASSUME Types, SoundSpool, DrainEnds
  PROVE  Effect
<1>1. \A q \in Readings : ~InBatch(q) /\ ~InBatch(q)'
  <2>1. DOMAIN batch' = {}
    BY DEF DrainEnds
  <2>2. \A i \in DOMAIN batch : batch[i].pc = "done"
    BY DEF DrainEnds, WithStatus
  <2> QED
    BY <2>1, <2>2 DEF InBatch
<1>2. \A q \in Readings : (InHandler(q)' <=> InHandler(q)) /\ (InFile(q)' <=> InFile(q))
  BY DEF DrainEnds, InHandler, InFile
<1>3. SoundSpool'
  BY DEF SoundSpool, DrainEnds, Tears
<1> QED
  BY <1>1, <1>2, <1>3 DEF Effect, KeepsSafe, Safe, Held, LosesSome, Present, DrainEnds

LEMMA LateWriteEffect ==
  ASSUME Types, SoundSpool, NEW r \in Readings, LateWrite(r)
  PROVE  Effect
<1>1. \A q \in Readings : Held(q)' <=> Held(q)
  BY DEF LateWrite, Held, InHandler, InFile, InBatch
<1>0. Stored(r)
  BY DEF LateWrite
<1>2. /\ topic'[r] > 0 /\ late[r] > 0 /\ admits' = admits
      /\ \A q \in Readings : q # r => topic'[q] = topic[q] /\ late'[q] = late[q]
  BY <1>0, StoredType DEF LateWrite, Types
<1>3. ForwardsR(r)
  BY <1>1, <1>2 DEF ForwardsR, Same, Present
<1>4. KeepsSafe
  BY <1>1, <1>2 DEF KeepsSafe, Safe
<1>5. SoundSpool'
  BY <1>0, StoredType DEF SoundSpool, LateWrite, Tears
<1> QED
  BY <1>3, <1>4, <1>5 DEF Effect

LEMMA LateDropEffect ==
  ASSUME Types, SoundSpool, NEW r \in Readings, LateDrop(r)
  PROVE  Effect
<1>1. \A q \in Readings : Held(q)' <=> Held(q)
  BY DEF LateDrop, Held, InHandler, InFile, InBatch
<1>2. /\ late[r] > 0 /\ admits' = admits /\ topic' = topic
      /\ \A q \in Readings : q # r => late'[q] = late[q]
  BY DEF LateDrop, Types
<1>3. LosesSome
  BY <1>1, <1>2 DEF LosesSome, Present
<1>4. KeepsSafe
  BY <1>1, <1>2 DEF KeepsSafe, Safe
<1>5. SoundSpool'
  BY DEF SoundSpool, LateDrop, Tears
<1> QED
  BY <1>3, <1>4, <1>5 DEF Effect

LEMMA BrokerEffect ==
  ASSUME Types, SoundSpool, BrokerGoes \/ BrokerReturns
  PROVE  Effect
<1>1. used'["faults"] = used["faults"]
  BY SpendType DEF BrokerGoes, BrokerReturns, Kinds
<1>2. SoundSpool'
  BY <1>1 DEF SoundSpool, BrokerGoes, BrokerReturns, Tears
<1>3. \A q \in Readings : Held(q)' <=> Held(q)
  BY DEF BrokerGoes, BrokerReturns, Held, InHandler, InFile, InBatch
<1> QED
  BY <1>2, <1>3
     DEF Effect, KeepsSafe, Safe, LosesSome, Present, BrokerGoes, BrokerReturns

LEMMA RestartEffect ==
  ASSUME Types, SoundSpool, Restart
  PROVE  Effect
<1>1. used'["crashes"] > 0 /\ used'["faults"] = used["faults"]
  BY SpendType DEF Restart, Kinds, Types
<1>2. SoundSpool'
  BY <1>1 DEF SoundSpool, Restart, SpoolOpened, Tears
<1>3. \A q \in Readings : ~InHandler(q)' /\ ~InBatch(q)' /\ (InFile(q)' <=> InFile(q))
  <2>1. DOMAIN batch' = {}
    BY DEF Restart
  <2>2. \A c \in Conns : conn'[c] = Waiting
    BY DEF Restart
  <2> QED
    BY <2>1, <2>2 DEF Restart, SpoolOpened, InHandler, InBatch, InFile
<1>4. \A q \in Readings : ~(late'[q] > 0)
  BY DEF Restart, None
<1>5. LosesSome
  BY <1>3, <1>4 DEF LosesSome, Present, Held, Restart
<1>6. KeepsSafe
  BY <1>1 DEF KeepsSafe, StartsAfresh, Restart
<1> QED
  BY <1>2, <1>5, <1>6 DEF Effect

LEMMA StutterEffect ==
  ASSUME Types, SoundSpool, UNCHANGED vars
  PROVE  Effect
<1>1. \A q \in Readings : Held(q)' <=> Held(q)
  BY DEF vars, Held, InHandler, InFile, InBatch
<1>2. SoundSpool'
  BY DEF vars, SoundSpool, Tears
<1> QED
  BY <1>1, <1>2 DEF Effect, KeepsSafe, Safe, LosesSome, Present, vars

LEMMA NextEffect ==
  ASSUME Types, SoundSpool, [Next]_vars
  PROVE  Effect
BY ReceiveDuplicateEffect, ReceiveNewEffect, ConnProduceEffect, ConnSpillEffect,
   DrainTakeEffect, DrainReadFaultEffect, DrainFailsEffect, DrainLaunchEffect,
   DrainProduceEffect, DrainSpillEffect, DrainEndsEffect, LateWriteEffect,
   LateDropEffect, BrokerEffect, RestartEffect, StutterEffect
   DEF Next, Receive, DrainStep

-----------------------------------------------------------------------------
(* The inductive invariant: types, a sound spool as long as no *)
(* disk fault happened, and the origin of every copy.                      *)

LEMMA InitIInv == Init => IInv
<1> SUFFICES ASSUME Init PROVE IInv
  OBVIOUS
<1>1. Types
  BY InitTypes
<1>2. \A q \in Readings : ~Held(q) /\ topic[q] = 0 /\ late[q] = 0 /\ admits[q] = 0
  BY DEF Init, Held, InHandler, InFile, InBatch, None
<1>4. SoundSpool
  BY DEF Init, SoundSpool, Tears
<1> QED
  BY <1>1, <1>2, <1>4 DEF IInv, OnlyAdmitted, NoLoss

\* No counter of failures ever goes down.
LEMMA FailuresCount ==
  ASSUME Types, [Next]_vars
  PROVE  \A k \in Kinds : used'[k] >= used[k] /\ (used[k] > 0 => used'[k] > 0)
<1>1. ASSUME NEW k \in Kinds, Spend(k), NEW j \in Kinds
      PROVE  used'[j] >= used[j]
  <2>1. CASE j = k
    BY <1>1, <2>1, SpendType DEF Types
  <2>2. CASE j # k
    BY <1>1, <2>2, SpendType DEF Types
  <2> QED
    BY <2>1, <2>2
<1>2. UNCHANGED used \/ \E k \in Kinds : Spend(k)
  BY DEF Next, Receive, DrainStep, vars, ReceiveDuplicate, ReceiveNew, ConnProduce,
         ConnSpill, DrainTake, DrainReadFault, DrainFails, DrainLaunch, DrainProduce,
         DrainSpill, DrainEnds, LateWrite, LateDrop, BrokerGoes, BrokerReturns,
         Restart, Stored, ProduceAcked, ProduceFails, ProduceRefused, ProduceTimesOut,
         SpoolWrite, SpoolWritten, SpoolWriteFails, Kinds
<1>3. \A k \in Kinds : used'[k] >= used[k]
  BY <1>1, <1>2 DEF Types
<1>4. \A k \in Kinds : used[k] \in Nat /\ used'[k] \in Nat
  BY NextTypes DEF Types
<1> QED
  BY <1>3, <1>4

LEMMA DisturbedStays ==
  ASSUME Types, [Next]_vars, Disturbed
  PROVE  Disturbed'
  BY FailuresCount DEF Disturbed, Kinds

\* What the effect of a step says about the origin of copies and about loss.
LEMMA EffectKeeps ==
  ASSUME Types, Types', OnlyAdmitted, NoLoss, Effect, [Next]_vars
  PROVE  OnlyAdmitted' /\ NoLoss'
<1>1. \A q \in Readings :
        /\ topic[q] \in Nat /\ late[q] \in Nat /\ admits[q] \in Nat
        /\ topic'[q] \in Nat /\ late'[q] \in Nat /\ admits'[q] \in Nat
  BY DEF Types
<1>2. \A q \in Readings : topic[q] > 0 \/ Present(q) => admits[q] > 0
  BY DEF OnlyAdmitted, Present
<1>3. ASSUME NEW q \in Readings
      PROVE  /\ topic'[q] > 0 \/ Present(q)' => admits'[q] > 0
             /\ admits'[q] > 0 => admits[q] > 0 \/ Held(q)'
  <2>1. CASE LosesSome
    BY <2>1, <1>2 DEF LosesSome
  <2>2. ASSUME NEW r \in Readings, AcceptsR(r)
        PROVE  /\ topic'[q] > 0 \/ Present(q)' => admits'[q] > 0
               /\ admits'[q] > 0 => admits[q] > 0 \/ Held(q)'
    <3>1. CASE q = r
      BY <2>2, <3>1 DEF AcceptsR
    <3>2. CASE q # r
      BY <2>2, <3>2, <1>2 DEF AcceptsR, Same
    <3> QED
      BY <3>1, <3>2
  <2>3. ASSUME NEW r \in Readings, ForwardsR(r)
        PROVE  /\ topic'[q] > 0 \/ Present(q)' => admits'[q] > 0
               /\ admits'[q] > 0 => admits[q] > 0 \/ Held(q)'
    <3>1. CASE q = r
      BY <2>3, <3>1, <1>2 DEF ForwardsR
    <3>2. CASE q # r
      BY <2>3, <3>2, <1>2 DEF ForwardsR, Same
    <3> QED
      BY <3>1, <3>2
  <2> QED
    BY <2>1, <2>2, <2>3 DEF Effect
<1>4. OnlyAdmitted'
  BY <1>3 DEF OnlyAdmitted, Present
<1>5. ASSUME ~Disturbed', NEW q \in Readings, admits'[q] > 0
      PROVE  Safe(q)'
  <2>1. CASE Held(q)'
    BY <2>1 DEF Safe
  <2>2. CASE admits[q] > 0
    <3>1. ~Disturbed
      BY <1>5, DisturbedStays
    <3>2. Safe(q)
      BY <2>2, <3>1 DEF NoLoss, Safe
    <3> QED
      BY <1>5, <3>2 DEF Effect, KeepsSafe, StartsAfresh, Disturbed
  <2> QED
    BY <2>1, <2>2, <1>3, <1>5
<1>6. NoLoss'
  BY <1>5 DEF NoLoss, Safe, Disturbed, Types, Kinds
<1> QED
  BY <1>4, <1>6

LEMMA NextIInv == IInv /\ [Next]_vars => IInv'
<1> SUFFICES ASSUME IInv, [Next]_vars PROVE IInv'
  OBVIOUS
<1>1. Types /\ SoundSpool /\ OnlyAdmitted /\ NoLoss
  BY DEF IInv
<1>2. Types'
  BY <1>1, NextTypes
<1>3. Effect
  BY <1>1, NextEffect
<1>4. OnlyAdmitted' /\ NoLoss'
  BY <1>1, <1>2, <1>3, EffectKeeps
<1> QED
  BY <1>2, <1>3, <1>4 DEF IInv, Effect

LEMMA Invariance == Spec => []IInv
BY InitIInv, NextIInv, PTL DEF Spec

\* As long as disk and process are sound nothing that passed dedup is lost.
THEOREM NoLossHolds == Spec => []NoLoss
<1>1. IInv => NoLoss
  BY DEF IInv
<1> QED
  BY <1>1, Invariance, PTL

-----------------------------------------------------------------------------
(* The refinement: each effect is one step of Forwarding or none.          *)

\* A reading is lost only when disk or process have failed.
LossMeansTrouble == \A q \in Readings : Status(q) = "lost" => Disturbed

LEMMA LostOnlyIfDisturbed == IInv => LossMeansTrouble
<1> SUFFICES ASSUME IInv, NEW q \in Readings, Status(q) = "lost"
             PROVE  Disturbed
  BY DEF LossMeansTrouble
<1>1. ~Safe(q) /\ admits[q] > 0
  BY DEF Status, Safe
<1> QED
  BY <1>1 DEF IInv, NoLoss, Safe

\* A reading whose place did not change keeps its status.
LEMMA SameStatus ==
  ASSUME NEW q \in Readings, Same(q)
  PROVE  Status(q)' = Status(q)
BY Zenon DEF Same, Status, Present

LEMMA StepRefines ==
  ASSUME IInv, IInv', Effect, Disturbed => Disturbed'
  PROVE  [Forward!Next]_(<<[r \in Readings |-> Status(r)], Disturbed>>)
<1> DEFINE st == [r \in Readings |-> Status(r)]
<1>0. /\ \A q \in Readings : st[q] = Status(q)
      /\ \A q \in Readings : st'[q] = Status(q)'
  OBVIOUS
<1>4. ASSUME st' = st PROVE Forward!Next
  <2>1. st' = [r \in Readings |-> IF r \in {} THEN "lost" ELSE st[r]]
    BY <1>4
  <2>2. Forward!Lose({})
    BY <2>1 DEF Forward!Lose, Forward!Becomes
  <2> QED
    BY <2>2 DEF Forward!Next
<1>1. CASE LosesSome
  <2> DEFINE R == {q \in Readings : Status(q)' # Status(q)}
  <2>1. ASSUME NEW q \in R
        PROVE  Status(q) = "onItsWay" /\ Status(q)' = "lost"
    <3>1. /\ topic'[q] > 0 <=> topic[q] > 0
          /\ Present(q)' => Present(q)
          /\ admits'[q] = admits[q]
      BY <1>1 DEF LosesSome
    <3>2. topic[q] > 0 \/ Present(q) => admits[q] > 0
      BY DEF IInv, OnlyAdmitted, Present
    <3>3. ~(topic[q] > 0) /\ Present(q) /\ ~Present(q)'
      BY <3>1, Zenon DEF Status, Present
    <3> QED
      BY <3>1, <3>2, <3>3, Zenon DEF Status, Present
  <2>2. R # {} => Disturbed'
    <3>1. ASSUME NEW q \in R PROVE Disturbed'
      <4>1. Status(q)' = "lost" /\ q \in Readings
        BY <3>1, <2>1
      <4>2. IInv' => LossMeansTrouble'
        BY LostOnlyIfDisturbed, PTL
      <4> QED
        BY <4>1, <4>2 DEF LossMeansTrouble
    <3> QED
      BY <3>1
  <2>3. \A q \in R : st[q] = "onItsWay"
    BY <2>1, <1>0
  <2>4. st' = [r \in Readings |-> IF r \in R THEN "lost" ELSE st[r]]
    BY <2>1
  <2>5. Forward!Lose(R)
    BY <2>2, <2>3, <2>4 DEF Forward!Lose, Forward!Becomes
  <2>6. R \in SUBSET Readings
    OBVIOUS
  <2> QED
    BY <2>5, <2>6 DEF Forward!Next
<1>2. ASSUME NEW r \in Readings, AcceptsR(r)
      PROVE  Forward!Next
  <2>1. \A q \in Readings \ {r} : Status(q)' = Status(q)
    BY <1>2, SameStatus DEF AcceptsR
  <2>2. CASE topic[r] > 0 \/ Present(r)
    <3>1. Status(r)' = Status(r)
      BY <1>2, <2>2, Zenon DEF AcceptsR, Status, Present
    <3>2. st' = st
      BY <2>1, <3>1
    <3> QED
      BY <3>2, <1>4
  <2>3. CASE ~(topic[r] > 0 \/ Present(r))
    <3>1. Status(r) \in {"unknown", "lost"}
      BY <2>3 DEF Status, Present
    <3>2. Status(r)' = "onItsWay"
      BY <1>2, <2>3 DEF AcceptsR, Status
    <3>3. st' = [q \in Readings |-> IF q \in {r} THEN "onItsWay" ELSE st[q]]
      BY <2>1, <3>2
    <3>4. Forward!Accept(r)
      BY <3>1, <3>3, <1>0 DEF Forward!Accept, Forward!Becomes
    <3> QED
      BY <3>4 DEF Forward!Next
  <2> QED
    BY <2>2, <2>3
<1>3. ASSUME NEW r \in Readings, ForwardsR(r)
      PROVE  Forward!Next
  <2>1. \A q \in Readings \ {r} : Status(q)' = Status(q)
    BY <1>3, SameStatus DEF ForwardsR
  <2>2. Status(r)' = "forwarded"
    BY <1>3 DEF ForwardsR, Status
  <2>3. CASE topic[r] > 0
    <3>1. Status(r)' = Status(r)
      BY <2>2, <2>3 DEF Status
    <3>2. st' = st
      BY <2>1, <3>1
    <3> QED
      BY <3>2, <1>4
  <2>4. CASE ~(topic[r] > 0)
    <3>1. Status(r) = "onItsWay"
      BY <1>3, <2>4, Zenon DEF ForwardsR, Present, Status
    <3>2. st' = [q \in Readings |-> IF q \in {r} THEN "forwarded" ELSE st[q]]
      BY <2>1, <2>2
    <3>3. Forward!Forward(r)
      BY <3>1, <3>2, <1>0 DEF Forward!Forward, Forward!Becomes
    <3> QED
      BY <3>3 DEF Forward!Next
  <2> QED
    BY <2>3, <2>4
<1> QED
  BY <1>1, <1>2, <1>3 DEF Effect

\* Seen from outside, the gateway forwards what it accepts, and loses
\* readings only after the disk or the process has failed.
THEOREM ForwardingImplemented == Spec => ImplementsForwarding
<1>1. Init => Forward!Init
  <2>0. Init => ~Disturbed
    BY DEF Init, Disturbed, Kinds
  <2>1. SUFFICES ASSUME Init PROVE \A q \in Readings : Status(q) = "unknown"
    BY <2>0 DEF Forward!Init
  <2>2. \A q \in Readings : ~Held(q) /\ topic[q] = 0 /\ late[q] = 0 /\ admits[q] = 0
    BY <2>1 DEF Init, Held, InHandler, InFile, InBatch, None
  <2> QED
    BY <2>2 DEF Status
<1>2. IInv /\ [Next]_vars => [Forward!Next]_(<<[r \in Readings |-> Status(r)], Disturbed>>)
  <2> SUFFICES ASSUME IInv, [Next]_vars
               PROVE  [Forward!Next]_(<<[r \in Readings |-> Status(r)], Disturbed>>)
    OBVIOUS
  <2>1. IInv' /\ Effect
    BY NextIInv, NextEffect DEF IInv
  <2>2. Disturbed => Disturbed'
    BY DisturbedStays DEF IInv
  <2> QED
    BY <2>1, <2>2, StepRefines
<1> QED
  BY <1>1, <1>2, Invariance, PTL DEF Spec, ImplementsForwarding, Forward!Spec, Forward!vars

-----------------------------------------------------------------------------
(* What the dedup remembers, and what the spool holds.                     *)

Remembered(q) == SeqNo(q) \in seen[Dev(q)].set

\* As long as the disk works, what a duplicate is dropped for is safe.
RememberedIsSafe ==
  used["faults"] = 0 => \A q \in Readings : Remembered(q) => Safe(q)

LEMMA DeviceAndNumber ==
  ASSUME NEW q \in Readings
  PROVE  Dev(q) \in Devices /\ SeqNo(q) \in SeqNos /\ q = <<Dev(q), SeqNo(q)>>
  BY DEF Readings, Dev, SeqNo

\* Only what a handler has just taken over is added to the dedup.
LEMMA RememberedIsTakenOver ==
  ASSUME Types, [Next]_vars, NEW q \in Readings, Remembered(q)'
  PROVE  Remembered(q) \/ Held(q)'
<1>1. CASE UNCHANGED seen
  BY <1>1 DEF Remembered
<1>2. ASSUME NEW c \in Conns, NEW r \in Readings, ReceiveNew(c, r)
      PROVE  Remembered(q) \/ Held(q)'
  <2>1. CASE q = r
    BY <1>2, <2>1, HandlerEnters DEF ReceiveNew, Types, Held
  <2>2. CASE q # r /\ Dev(q) # Dev(r)
    BY <1>2, <2>2, DeviceAndNumber DEF ReceiveNew, Types, Remembered
  <2>3. CASE q # r /\ Dev(q) = Dev(r)
    <3>1. SeqNo(q) # SeqNo(r)
      BY <2>3, DeviceAndNumber
    <3>2. seen'[Dev(q)] = Remember(seen[Dev(q)], SeqNo(r))
      BY <1>2, <2>3, DeviceAndNumber DEF ReceiveNew, Types
    <3>3. Remember(seen[Dev(q)], SeqNo(r)).set \subseteq seen[Dev(q)].set \cup {SeqNo(r)}
      BY DEF Remember, EvictOldest
    <3> QED
      BY <3>1, <3>2, <3>3 DEF Remembered
  <2> QED
    BY <2>1, <2>2, <2>3
<1>3. ~Restart
  BY DeviceAndNumber DEF Restart, Remembered, NewDeviceSeen
<1> QED
  BY <1>1, <1>2, <1>3
     DEF Next, Receive, DrainStep, vars, ReceiveDuplicate, ConnProduce, ConnSpill,
         DrainTake, DrainReadFault, DrainFails, DrainLaunch, DrainProduce, DrainSpill,
         DrainEnds, LateWrite, LateDrop, BrokerGoes, BrokerReturns

\* A safe reading stays safe or the dedup forgets it.
LEMMA NextRememberedIsSafe ==
  Types /\ SoundSpool /\ RememberedIsSafe /\ [Next]_vars => RememberedIsSafe'
<1> SUFFICES ASSUME Types, SoundSpool, RememberedIsSafe, [Next]_vars, used'["faults"] = 0,
                    NEW q \in Readings, Remembered(q)'
             PROVE  Safe(q)'
  BY DEF RememberedIsSafe
<1>1. CASE Held(q)'
  BY <1>1 DEF Safe
<1>2. CASE Remembered(q)
  <2>1. used["faults"] = 0
    BY FailuresCount DEF Types, Kinds
  <2>2. Safe(q)
    BY <1>2, <2>1 DEF RememberedIsSafe
  <2>3. ~StartsAfresh
    BY DeviceAndNumber DEF StartsAfresh, Remembered, NewDeviceSeen
  <2>4. KeepsSafe
    BY NextEffect DEF Effect
  <2> QED
    BY <2>2, <2>3, <2>4 DEF KeepsSafe
<1> QED
  BY <1>1, <1>2, RememberedIsTakenOver

\* Whatever timeouts, outages and restarts there are: as long as the disk
\* works, a reading that is dropped as a duplicate (Ingest, Dedup.Admit) was
\* forwarded already or is still held.
THEOREM DuplicateIsOnItsWayHolds == Spec => DuplicateIsOnItsWay
<1>1. Init => IInv /\ RememberedIsSafe
  BY InitIInv, DeviceAndNumber DEF Init, RememberedIsSafe, Remembered, NewDeviceSeen
<1>2. IInv /\ RememberedIsSafe /\ [Next]_vars => (IInv /\ RememberedIsSafe)'
  BY NextIInv, NextRememberedIsSafe DEF IInv
<1>3. RememberedIsSafe =>
        (used["faults"] = 0 =>
           \A c \in Conns, r \in Readings : ReceiveDuplicate(c, r) => topic[r] > 0 \/ Held(r))
  BY DEF RememberedIsSafe, ReceiveDuplicate, Remembered, Safe
<1> QED
  BY <1>1, <1>2, <1>3, PTL DEF Spec, DuplicateIsOnItsWay

\* No step takes a reading out of the spool but to hand it to the drainer,
\* unless the disk fails.
LEMMA SpoolKept ==
  ASSUME Types, SoundSpool, [Next]_vars, used'["faults"] = 0,
         NEW q \in Readings, InFile(q)
  PROVE  InFile(q)' \/ InBatch(q)'
<1>1. CASE UNCHANGED file
  BY <1>1 DEF InFile
<1>2. ASSUME NEW r \in Readings, SpoolWrite(r) PROVE InFile(q)'
  BY <1>2, SpoolWriteEffect
<1>3. ASSUME NEW c \in Conns, ConnSpill(c) PROVE InFile(q)'
  <2>1. conn[c].r \in Readings
    BY <1>3 DEF ConnSpill, Types, Waiting
  <2> QED
    BY <1>2, <1>3, <2>1 DEF ConnSpill
<1>4. ASSUME NEW i \in DOMAIN batch, DrainSpill(i) PROVE InFile(q)'
  <2>1. batch[i].r \in Readings
    BY BatchMember DEF Types
  <2> QED
    BY <1>2, <1>4, <2>1 DEF DrainSpill
<1>5. CASE DrainTake
  <2>1. used["faults"] = 0
    BY <1>5 DEF DrainTake
  <2>2. Tears(file) = {}
    BY <2>1 DEF SoundSpool
  <2>3. file \in Seq(Readings \cup {Torn})
    BY DEF Types
  <2>4. batch = << >> /\ file \in Seq(Readings) /\ batch' = Queued(file)
    BY <1>5, <2>2, <2>3, ReadBacksType DEF DrainTake
  <2> QED
    BY <2>4, BatchFilled DEF InFile
<1>6. ~DrainReadFault
  BY SpendType DEF DrainReadFault, Kinds, Types
<1>7. Restart => UNCHANGED file
  BY DEF Restart, SpoolOpened
<1> QED
  BY <1>1, <1>3, <1>4, <1>5, <1>6, <1>7
     DEF Next, Receive, DrainStep, vars, ReceiveDuplicate, ReceiveNew, ConnProduce,
         DrainFails, DrainLaunch, DrainProduce, DrainEnds, LateWrite, LateDrop,
         BrokerGoes, BrokerReturns

\* Through restarts as well, what Spool.Write has written is handed to the
\* drainer by Drain, as long as the disk works.
THEOREM SpooledSurvivesHolds == Spec => SpooledSurvives
<1>1. IInv /\ [Next]_vars =>
        (used'["faults"] = 0 =>
           \A r \in Readings : InFile(r) => (InFile(r) \/ InBatch(r))')
  BY SpoolKept DEF IInv
<1> QED
  BY <1>1, Invariance, PTL DEF Spec, SpooledSurvives

-----------------------------------------------------------------------------
(* Counting the copies of a reading: in handlers, in the spool and with    *)
(* the drainer.                                                            *)

Handling(q) == {c \in Conns : conn[c] # Waiting /\ conn[c].r = q}
RecordsOf(f, q) == {i \in DOMAIN f : f[i] = q}
Spooled(q) == RecordsOf(file, q)
RetriesOf(b, q) == {i \in DOMAIN b : b[i].r = q /\ b[i].pc # "done"}
Retried(q) == RetriesOf(batch, q)

\* A reading is with finitely many handlers, however many there are.
HandlersFinite == \A q \in Readings : IsFiniteSet(Handling(q))

LEMMA CountSubset ==
  ASSUME NEW S, IsFiniteSet(S), NEW T, T \subseteq S
  PROVE  /\ IsFiniteSet(T) /\ Cardinality(T) <= Cardinality(S)
         /\ Cardinality(T) \in Nat /\ Cardinality(S) \in Nat
BY FS_Subset, FS_CardinalityType

LEMMA CountGain ==
  ASSUME NEW S, IsFiniteSet(S), NEW T, NEW x, T \subseteq S \cup {x}
  PROVE  /\ IsFiniteSet(T) /\ Cardinality(T) <= Cardinality(S) + 1
<1>1. IsFiniteSet(S \cup {x}) /\ Cardinality(S \cup {x}) <= Cardinality(S) + 1
  <2>1. Cardinality(S) \in Nat
    BY FS_CardinalityType
  <2>2. /\ IsFiniteSet(S \cup {x})
        /\ Cardinality(S \cup {x}) = IF x \in S THEN Cardinality(S) ELSE Cardinality(S) + 1
    BY FS_AddElement
  <2> QED
    BY <2>1, <2>2
<1>2. IsFiniteSet(T) /\ Cardinality(T) <= Cardinality(S \cup {x})
  BY <1>1, FS_Subset
<1>3. Cardinality(T) \in Nat /\ Cardinality(S) \in Nat /\ Cardinality(S \cup {x}) \in Nat
  BY <1>1, <1>2, FS_CardinalityType
<1> QED
  BY <1>1, <1>2, <1>3

LEMMA CountLoss ==
  ASSUME NEW S, IsFiniteSet(S), NEW x \in S, NEW T, T \subseteq S \ {x}
  PROVE  Cardinality(T) + 1 <= Cardinality(S)
<1>1. IsFiniteSet(S \ {x}) /\ Cardinality(S \ {x}) = Cardinality(S) - 1
  BY FS_RemoveElement
<1>2. IsFiniteSet(T) /\ Cardinality(T) <= Cardinality(S \ {x})
  BY <1>1, FS_Subset
<1>3. Cardinality(T) \in Nat /\ Cardinality(S) \in Nat /\ Cardinality(S \ {x}) \in Nat
  BY <1>1, <1>2, FS_CardinalityType
<1> QED
  BY <1>1, <1>2, <1>3

LEMMA PositionsFinite ==
  ASSUME NEW E, NEW f \in Seq(E), NEW T, T \subseteq DOMAIN f
  PROVE  IsFiniteSet(T) /\ Cardinality(T) \in Nat
<1>1. DOMAIN f = 1 .. Len(f) /\ Len(f) \in Nat
  OBVIOUS
<1>2. IsFiniteSet(DOMAIN f)
  BY <1>1, FS_Interval
<1> QED
  BY <1>2, CountSubset

\* The copies of a reading are those in the three places.
LEMMA CopiesAre ==
  ASSUME Types, HandlersFinite, NEW q \in Readings
  PROVE  /\ Copies(q) = Cardinality(Handling(q)) + Cardinality(Spooled(q)) + Cardinality(Retried(q))
         /\ Cardinality(Handling(q)) \in Nat
         /\ IsFiniteSet(Spooled(q)) /\ Cardinality(Spooled(q)) \in Nat
         /\ IsFiniteSet(Retried(q)) /\ Cardinality(Retried(q)) \in Nat
<1>1. IsFiniteSet(Spooled(q)) /\ Cardinality(Spooled(q)) \in Nat
  BY PositionsFinite DEF Types, Spooled, RecordsOf
<1>2. IsFiniteSet(Retried(q)) /\ Cardinality(Retried(q)) \in Nat
  BY PositionsFinite DEF Types, Retried, RetriesOf
<1>3. Cardinality(Handling(q)) \in Nat
  BY FS_CardinalityType DEF HandlersFinite
<1>4. Copies(q) = Cardinality(Handling(q)) + Cardinality(Spooled(q)) + Cardinality(Retried(q))
  BY DEF Copies, Handling, Spooled, RecordsOf, Retried, RetriesOf
<1> QED
  BY <1>1, <1>2, <1>3, <1>4

LEMMA CopiesWillBe ==
  ASSUME Types', HandlersFinite', NEW q \in Readings
  PROVE  /\ Copies(q)' = Cardinality(Handling(q)') + Cardinality(Spooled(q)') + Cardinality(Retried(q)')
         /\ Cardinality(Handling(q)') \in Nat
         /\ Cardinality(Spooled(q)') \in Nat
         /\ Cardinality(Retried(q)') \in Nat
<1>1. Cardinality(Spooled(q)') \in Nat
  BY PositionsFinite DEF Types, Spooled, RecordsOf
<1>2. Cardinality(Retried(q)') \in Nat
  BY PositionsFinite DEF Types, Retried, RetriesOf
<1>3. Cardinality(Handling(q)') \in Nat
  BY FS_CardinalityType DEF HandlersFinite
<1>4. Copies(q)' = Cardinality(Handling(q)') + Cardinality(Spooled(q)') + Cardinality(Retried(q)')
  BY DEF Copies, Handling, Spooled, RecordsOf, Retried, RetriesOf
<1> QED
  BY <1>1, <1>2, <1>3, <1>4

LEMMA HandlerEntersCounts ==
  ASSUME Types, HandlersFinite, NEW c \in Conns, NEW r \in Readings, conn[c] = Waiting,
         conn' = [conn EXCEPT ![c] = Busy("produce", r)], NEW q \in Readings
  PROVE  /\ IsFiniteSet(Handling(q)')
         /\ Cardinality(Handling(q)') <= Cardinality(Handling(q)) + 1
         /\ q # r => Cardinality(Handling(q)') <= Cardinality(Handling(q))
<1>1. \A d \in Conns : d # c => conn'[d] = conn[d]
  OBVIOUS
<1>2. conn'[c].r = r
  BY DEF Types, Busy
<1>3. Handling(q)' \subseteq Handling(q) \cup {c}
  BY <1>1 DEF Handling
<1>4. q # r => Handling(q)' \subseteq Handling(q)
  BY <1>1, <1>2 DEF Handling
<1> QED
  BY <1>3, <1>4, CountGain, CountSubset DEF HandlersFinite

LEMMA HandlerLeavesCounts ==
  ASSUME Types, HandlersFinite, NEW c \in Conns, conn[c] # Waiting,
         conn' = [conn EXCEPT ![c] = Waiting], NEW q \in Readings
  PROVE  /\ IsFiniteSet(Handling(q)')
         /\ Cardinality(Handling(q)') <= Cardinality(Handling(q))
         /\ q = conn[c].r => Cardinality(Handling(q)') + 1 <= Cardinality(Handling(q))
<1>1. /\ \A d \in Conns : d # c => conn'[d] = conn[d]
      /\ conn'[c] = Waiting
  BY DEF Types
<1>2. Handling(q)' \subseteq Handling(q) \ {c}
  BY <1>1 DEF Handling
<1>3. q = conn[c].r => c \in Handling(q)
  BY DEF Handling
<1> QED
  BY <1>2, <1>3, CountLoss, CountSubset DEF HandlersFinite

LEMMA HandlerStaysCounts ==
  ASSUME Types, NEW c \in Conns, conn[c].pc = "produce",
         conn' = [conn EXCEPT ![c].pc = "spill"], NEW q \in Readings
  PROVE  Handling(q)' = Handling(q)
<1>1. \A d \in Conns : d # c => conn'[d] = conn[d]
  OBVIOUS
<1>2. conn[c] \in [pc : {"produce", "spill"}, r : Readings]
  BY DEF Types, Waiting
<1>3. conn'[c] = [conn[c] EXCEPT !.pc = "spill"]
  BY DEF Types
<1>4. conn'[c].r = conn[c].r /\ conn'[c].pc = "spill"
  BY <1>2, <1>3
<1>5. conn[c] # Waiting /\ conn'[c] # Waiting
  BY <1>4 DEF Waiting
<1> QED
  BY <1>1, <1>4, <1>5 DEF Handling

LEMMA RetryLeavesCounts ==
  ASSUME Types, HandlersFinite, NEW i \in DOMAIN batch, batch[i].pc # "done",
         batch' = [batch EXCEPT ![i].pc = "done"], NEW q \in Readings
  PROVE  /\ Cardinality(Retried(q)') <= Cardinality(Retried(q))
         /\ q = batch[i].r => Cardinality(Retried(q)') + 1 <= Cardinality(Retried(q))
<1>1. /\ DOMAIN batch' = DOMAIN batch
      /\ \A j \in DOMAIN batch : batch'[j].r = batch[j].r
      /\ batch'[i].pc = "done"
      /\ \A j \in DOMAIN batch : j # i => batch'[j] = batch[j]
  BY BatchStepType
<1>2. Retried(q)' \subseteq Retried(q) \ {i}
  BY <1>1 DEF Retried, RetriesOf
<1>3. q = batch[i].r => i \in Retried(q)
  BY DEF Retried, RetriesOf
<1>4. IsFiniteSet(Retried(q))
  BY CopiesAre
<1> QED
  BY <1>2, <1>3, <1>4, CountLoss, CountSubset

LEMMA RetryStaysCounts ==
  ASSUME Types, NEW i \in DOMAIN batch, batch[i].pc # "done", NEW pc \in {"produce", "spill"},
         batch' = [batch EXCEPT ![i].pc = pc], NEW q \in Readings
  PROVE  Retried(q)' = Retried(q)
<1>1. /\ DOMAIN batch' = DOMAIN batch
      /\ \A j \in DOMAIN batch : batch'[j].r = batch[j].r
      /\ batch'[i].pc = pc
      /\ \A j \in DOMAIN batch : j # i => batch'[j] = batch[j]
  BY BatchStepType
<1> QED
  BY <1>1 DEF Retried, RetriesOf

\* Reading back multiplies no record, whatever a torn one makes of it.
LEMMA ReadBackCounts ==
  ASSUME NEW f \in Seq(Readings \cup {Torn}), NEW rs \in ReadBacks(f), NEW q \in Readings,
         NEW k \in Nat, k <= Len(rs)
  PROVE  Cardinality({i \in 1 .. k : rs[i] = q}) <= Cardinality(RecordsOf(f, q))
<1> DEFINE S == {i \in 1 .. k : rs[i] = q}
           T == RecordsOf(f, q)
<1>1. IsFiniteSet(T)
  BY PositionsFinite DEF RecordsOf
<1>2. CASE Tears(f) = {}
  <2>1. rs = f
    BY <1>2 DEF ReadBacks
  <2>2. S \subseteq T
    BY <2>1 DEF RecordsOf
  <2> QED
    BY <1>1, <2>2, CountSubset
<1>3. CASE Tears(f) # {}
  <2>1. PICK p \in PicksAroundTear(f, FirstTear(f)) : rs = [i \in DOMAIN p |-> f[p[i]]]
    BY <1>3 DEF ReadBacks
  <2>2. PICK n \in 0 .. Len(f) : p \in [1 .. n -> DOMAIN f]
    BY <2>1 DEF PicksAroundTear, Picks
  <2>3. \A i, j \in 1 .. n : i < j => p[i] < p[j]
    BY <2>1, <2>2 DEF PicksAroundTear, Picks
  <2>4. rs = [i \in 1 .. n |-> f[p[i]]] /\ n \in Nat
    BY <2>1, <2>2
  <2>5. Len(rs) = n
    BY <2>4
  <2>6. 1 .. k \subseteq 1 .. n
    BY <2>4, <2>5
  <2> DEFINE g == [i \in S |-> p[i]]
  <2>7. \A i \in S : p[i] \in T
    BY <2>2, <2>4, <2>6 DEF RecordsOf
  <2>8. \A i, j \in S : p[i] = p[j] => i = j
    <3>1. SUFFICES ASSUME NEW i \in S, NEW j \in S, i # j PROVE p[i] # p[j]
      OBVIOUS
    <3>2. i \in 1 .. n /\ j \in 1 .. n
      BY <2>6
    <3>3. p[i] \in Nat /\ p[j] \in Nat
      BY <2>2, <3>2
    <3>4. i < j \/ j < i
      BY <3>1, <3>2
    <3> QED
      BY <2>3, <3>2, <3>3, <3>4
  <2> HIDE DEF S, T
  <2>9. g \in Injection(S, T)
    BY <2>7, <2>8 DEF Injection, IsInjective
  <2> QED
    BY <1>1, <2>9, FS_Injection DEF S, T
<1> QED
  BY <1>2, <1>3

LEMMA BatchFilledCounts ==
  ASSUME NEW rs \in Seq(Readings), batch' = Queued(rs), NEW q \in Readings
  PROVE  Retried(q)' = {i \in 1 .. Len(rs) : rs[i] = q}
<1>1. /\ DOMAIN batch' = DOMAIN rs /\ DOMAIN rs = 1 .. Len(rs)
      /\ \A i \in DOMAIN rs : batch'[i] = [pc |-> "queued", r |-> rs[i]]
  BY QueuedType
<1>2. \A i \in DOMAIN rs : batch'[i].pc # "done" /\ batch'[i].r = rs[i]
  BY <1>1
<1> QED
  BY <1>1, <1>2 DEF Retried, RetriesOf

LEMMA SpoolWriteCounts ==
  ASSUME Types, HandlersFinite, NEW r \in Readings, SpoolWrite(r), NEW q \in Readings
  PROVE  /\ Cardinality(Spooled(q)') <= Cardinality(Spooled(q)) + 1
         /\ q # r => Cardinality(Spooled(q)') <= Cardinality(Spooled(q))
         /\ used'["timeouts"] = used["timeouts"]
<1>1. used'["timeouts"] = used["timeouts"]
  BY SpendType DEF SpoolWrite, SpoolWritten, SpoolWriteFails, Kinds
<1>2. IsFiniteSet(Spooled(q)) /\ file \in Seq(Readings \cup {Torn})
  BY CopiesAre DEF Types
<1>3. ASSUME NEW e \in Readings \cup {Torn}, file' = Append(file, e)
      PROVE  /\ Spooled(q)' \subseteq Spooled(q) \cup {Len(file) + 1}
             /\ q # e => Spooled(q)' \subseteq Spooled(q)
  <2>1. /\ DOMAIN file = 1 .. Len(file) /\ Len(file) \in Nat
        /\ DOMAIN file' = 1 .. Len(file) + 1
        /\ \A i \in 1 .. Len(file) : file'[i] = file[i]
        /\ file'[Len(file) + 1] = e
    BY <1>2, <1>3
  <2>2. \A i \in 1 .. Len(file) + 1 : i \in 1 .. Len(file) \/ i = Len(file) + 1
    BY <2>1
  <2> QED
    BY <2>1, <2>2 DEF Spooled, RecordsOf
<1>4. /\ Spooled(q)' \subseteq Spooled(q) \cup {Len(file) + 1}
      /\ q # r => Spooled(q)' \subseteq Spooled(q)
  <2>1. CASE file' = file
    BY <2>1 DEF Spooled
  <2>2. CASE file' = Append(file, r)
    BY <1>3, <2>2
  <2>3. CASE file' = Append(file, Torn)
    BY <1>3, <2>3, TornIsNoReading
  <2> QED
    BY <2>1, <2>2, <2>3 DEF SpoolWrite, SpoolWritten, SpoolWriteFails
<1> QED
  BY <1>1, <1>2, <1>4, CountGain, CountSubset

LEMMA StoredCounts ==
  ASSUME Types, NEW r \in Readings, Stored(r)
  PROVE  /\ topic'[r] + used["timeouts"] <= topic[r] + 1 + used'["timeouts"]
         /\ used'["timeouts"] >= used["timeouts"]
         /\ \A q \in Readings : q # r => topic'[q] = topic[q]
<1>1. CASE topic' = [topic EXCEPT ![r] = @ + 1] /\ UNCHANGED used
  BY <1>1 DEF Types, Kinds
<1>2. CASE Spend("timeouts") /\ topic' = [topic EXCEPT ![r] = @ + 2]
  <2>1. used'["timeouts"] = used["timeouts"] + 1 /\ used["timeouts"] \in Nat
    BY <1>2, SpendType DEF Kinds, Types
  <2> QED
    BY <1>2, <2>1 DEF Types
<1> QED
  BY <1>1, <1>2 DEF Stored

LEMMA ProduceFailsCounts ==
  ASSUME Types, NEW r \in Readings, ProduceFails(r)
  PROVE  /\ late'[r] + used["timeouts"] <= late[r] + used'["timeouts"]
         /\ used'["timeouts"] >= used["timeouts"]
         /\ \A q \in Readings : q # r => late'[q] = late[q]
         /\ topic' = topic
<1>1. CASE ProduceRefused
  BY <1>1 DEF ProduceRefused, Types, Kinds
<1>2. CASE ProduceTimesOut(r)
  <2>1. used'["timeouts"] = used["timeouts"] + 1 /\ used["timeouts"] \in Nat
    BY <1>2, SpendType DEF ProduceTimesOut, Kinds, Types
  <2> QED
    BY <1>2, <2>1 DEF ProduceTimesOut, Types
<1> QED
  BY <1>1, <1>2 DEF ProduceFails

-----------------------------------------------------------------------------
(* No step adds a copy that is not paid for by an admission or a timeout.  *)

Balanced(q) ==
  topic'[q] + late'[q] + Copies(q)' + admits[q] + used["timeouts"]
    <= topic[q] + late[q] + Copies(q) + admits'[q] + used'["timeouts"]

LEMMA HandlersStayFinite ==
  ASSUME Types, HandlersFinite, [Next]_vars
  PROVE  HandlersFinite'
<1> SUFFICES ASSUME NEW q \in Readings PROVE IsFiniteSet(Handling(q)')
  BY DEF HandlersFinite
<1>1. CASE UNCHANGED conn
  BY <1>1 DEF Handling, HandlersFinite
<1>2. ASSUME NEW c \in Conns, NEW r \in Readings, ReceiveNew(c, r) PROVE IsFiniteSet(Handling(q)')
  BY <1>2, HandlerEntersCounts DEF ReceiveNew
<1>3. ASSUME NEW c \in Conns, ConnProduce(c) \/ ConnSpill(c) PROVE IsFiniteSet(Handling(q)')
  <2>1. conn[c] # Waiting
    BY <1>3 DEF ConnProduce, ConnSpill, Waiting
  <2>2. CASE conn' = [conn EXCEPT ![c] = Waiting]
    BY <2>1, <2>2, HandlerLeavesCounts
  <2>3. CASE conn[c].pc = "produce" /\ conn' = [conn EXCEPT ![c].pc = "spill"]
    BY <2>3, HandlerStaysCounts DEF HandlersFinite
  <2> QED
    BY <1>3, <2>2, <2>3 DEF ConnProduce, ConnSpill
<1>4. CASE Restart
  <2>1. Handling(q)' = {}
    BY <1>4 DEF Restart, Handling
  <2> QED
    BY <2>1, FS_EmptySet
<1> QED
  BY <1>1, <1>2, <1>3, <1>4
     DEF Next, Receive, DrainStep, vars, ReceiveDuplicate, DrainTake, DrainReadFault, DrainFails,
         DrainLaunch, DrainProduce, DrainSpill, DrainEnds, LateWrite, LateDrop, BrokerGoes, BrokerReturns

\* The numbers a balance is made of.
LEMMA BalanceOf ==
  ASSUME Types, Types', HandlersFinite, HandlersFinite', NEW q \in Readings,
         topic'[q] + late'[q] + Cardinality(Handling(q)') + Cardinality(Spooled(q)')
             + Cardinality(Retried(q)') + admits[q] + used["timeouts"]
           <= topic[q] + late[q] + Cardinality(Handling(q)) + Cardinality(Spooled(q))
                + Cardinality(Retried(q)) + admits'[q] + used'["timeouts"]
  PROVE  Balanced(q)
<1>1. /\ topic[q] \in Nat /\ topic'[q] \in Nat /\ late[q] \in Nat /\ late'[q] \in Nat
      /\ admits[q] \in Nat /\ admits'[q] \in Nat
      /\ used["timeouts"] \in Nat /\ used'["timeouts"] \in Nat
  BY DEF Types, Kinds
<1> QED
  BY <1>1, CopiesAre, CopiesWillBe DEF Balanced

LEMMA NumbersAre ==
  ASSUME Types, Types', HandlersFinite, HandlersFinite', NEW q \in Readings
  PROVE  /\ topic[q] \in Nat /\ topic'[q] \in Nat /\ late[q] \in Nat /\ late'[q] \in Nat
         /\ admits[q] \in Nat /\ admits'[q] \in Nat
         /\ used["timeouts"] \in Nat /\ used'["timeouts"] \in Nat
         /\ Cardinality(Handling(q)) \in Nat /\ Cardinality(Handling(q)') \in Nat
         /\ Cardinality(Spooled(q)) \in Nat /\ Cardinality(Spooled(q)') \in Nat
         /\ Cardinality(Retried(q)) \in Nat /\ Cardinality(Retried(q)') \in Nat
<1>1. /\ topic[q] \in Nat /\ topic'[q] \in Nat /\ late[q] \in Nat /\ late'[q] \in Nat
      /\ admits[q] \in Nat /\ admits'[q] \in Nat
      /\ used["timeouts"] \in Nat /\ used'["timeouts"] \in Nat
  BY DEF Types, Kinds
<1> QED
  BY <1>1, CopiesAre, CopiesWillBe

LEMMA QuietBalanced ==
  ASSUME Types, Types', HandlersFinite, HandlersFinite', NEW q \in Readings,
         UNCHANGED <<conn, file, batch, late, topic, admits>>, used'["timeouts"] = used["timeouts"]
  PROVE  Balanced(q)
<1>1. Handling(q)' = Handling(q) /\ Spooled(q)' = Spooled(q) /\ Retried(q)' = Retried(q)
  BY DEF Handling, Spooled, Retried
<1> QED
  BY <1>1, NumbersAre, BalanceOf

LEMMA ReceiveNewBalanced ==
  ASSUME Types, Types', HandlersFinite, HandlersFinite', NEW q \in Readings,
         NEW c \in Conns, NEW r \in Readings, ReceiveNew(c, r)
  PROVE  Balanced(q)
<1>1. Spooled(q)' = Spooled(q) /\ Retried(q)' = Retried(q) /\ topic' = topic /\ late' = late
  BY DEF ReceiveNew, Spooled, Retried
<1>2. used'["timeouts"] = used["timeouts"]
  BY SpendType DEF ReceiveNew, Kinds
<1>3. /\ Cardinality(Handling(q)') <= Cardinality(Handling(q)) + 1
      /\ q # r => Cardinality(Handling(q)') <= Cardinality(Handling(q))
  BY HandlerEntersCounts DEF ReceiveNew
<1>4. admits'[q] = IF q = r THEN admits[q] + 1 ELSE admits[q]
  BY DEF ReceiveNew, Types
<1> QED
  BY <1>1, <1>2, <1>3, <1>4, NumbersAre, BalanceOf

LEMMA ConnProduceBalanced ==
  ASSUME Types, Types', HandlersFinite, HandlersFinite', NEW q \in Readings,
         NEW c \in Conns, ConnProduce(c)
  PROVE  Balanced(q)
<1> DEFINE r == conn[c].r
<1>1. conn[c].pc = "produce" /\ conn[c] # Waiting /\ r \in Readings
  BY DEF ConnProduce, Waiting, Types
<1>2. Spooled(q)' = Spooled(q) /\ Retried(q)' = Retried(q) /\ admits' = admits
  BY DEF ConnProduce, Spooled, Retried
<1>3. CASE ProduceAcked(r) /\ conn' = [conn EXCEPT ![c] = Waiting]
  <2>1. /\ Cardinality(Handling(q)') <= Cardinality(Handling(q))
        /\ q = r => Cardinality(Handling(q)') + 1 <= Cardinality(Handling(q))
    BY <1>1, <1>3, HandlerLeavesCounts
  <2>2. Stored(r) /\ late' = late
    BY <1>3 DEF ProduceAcked
  <2>3. /\ topic'[r] + used["timeouts"] <= topic[r] + 1 + used'["timeouts"]
        /\ used'["timeouts"] >= used["timeouts"]
        /\ q # r => topic'[q] = topic[q]
    BY <1>1, <2>2, StoredCounts
  <2> HIDE DEF r
  <2>4. CASE q = r
    BY <1>2, <2>1, <2>2, <2>3, <2>4, NumbersAre, BalanceOf
  <2>5. CASE q # r
    BY <1>2, <2>1, <2>2, <2>3, <2>5, NumbersAre, BalanceOf
  <2> QED
    BY <2>4, <2>5
<1>4. CASE ProduceFails(r) /\ conn' = [conn EXCEPT ![c].pc = "spill"]
  <2>1. Handling(q)' = Handling(q)
    BY <1>1, <1>4, HandlerStaysCounts
  <2>2. /\ late'[r] + used["timeouts"] <= late[r] + used'["timeouts"]
        /\ used'["timeouts"] >= used["timeouts"]
        /\ q # r => late'[q] = late[q]
        /\ topic' = topic
    BY <1>1, <1>4, ProduceFailsCounts
  <2> HIDE DEF r
  <2>3. CASE q = r
    BY <1>2, <2>1, <2>2, <2>3, NumbersAre, BalanceOf
  <2>4. CASE q # r
    BY <1>2, <2>1, <2>2, <2>4, NumbersAre, BalanceOf
  <2> QED
    BY <2>3, <2>4
<1> QED
  BY <1>3, <1>4 DEF ConnProduce

LEMMA ConnSpillBalanced ==
  ASSUME Types, Types', HandlersFinite, HandlersFinite', NEW q \in Readings,
         NEW c \in Conns, ConnSpill(c)
  PROVE  Balanced(q)
<1> DEFINE r == conn[c].r
<1>1. conn[c] # Waiting /\ r \in Readings /\ SpoolWrite(r)
  BY DEF ConnSpill, Waiting, Types
<1>2. Retried(q)' = Retried(q) /\ admits' = admits /\ topic' = topic /\ late' = late
  BY DEF ConnSpill, Retried
<1>3. /\ Cardinality(Handling(q)') <= Cardinality(Handling(q))
      /\ q = r => Cardinality(Handling(q)') + 1 <= Cardinality(Handling(q))
  BY <1>1, HandlerLeavesCounts DEF ConnSpill
<1>4. /\ Cardinality(Spooled(q)') <= Cardinality(Spooled(q)) + 1
      /\ q # r => Cardinality(Spooled(q)') <= Cardinality(Spooled(q))
      /\ used'["timeouts"] = used["timeouts"]
  BY <1>1, SpoolWriteCounts
<1> HIDE DEF r
<1> QED
  BY <1>2, <1>3, <1>4, NumbersAre, BalanceOf

LEMMA DrainProduceBalanced ==
  ASSUME Types, Types', HandlersFinite, HandlersFinite', NEW q \in Readings,
         NEW i \in DOMAIN batch, DrainProduce(i)
  PROVE  Balanced(q)
<1> DEFINE r == batch[i].r
<1>1. batch[i].pc = "produce" /\ r \in Readings
  BY BatchMember DEF DrainProduce
<1>2. Spooled(q)' = Spooled(q) /\ Handling(q)' = Handling(q) /\ admits' = admits
  BY DEF DrainProduce, Spooled, Handling
<1>3. CASE ProduceAcked(r) /\ batch' = [batch EXCEPT ![i].pc = "done"]
  <2>1. /\ Cardinality(Retried(q)') <= Cardinality(Retried(q))
        /\ q = r => Cardinality(Retried(q)') + 1 <= Cardinality(Retried(q))
    BY <1>1, <1>3, RetryLeavesCounts
  <2>2. Stored(r) /\ late' = late
    BY <1>3 DEF ProduceAcked
  <2>3. /\ topic'[r] + used["timeouts"] <= topic[r] + 1 + used'["timeouts"]
        /\ used'["timeouts"] >= used["timeouts"]
        /\ q # r => topic'[q] = topic[q]
    BY <1>1, <2>2, StoredCounts
  <2> HIDE DEF r
  <2>4. CASE q = r
    BY <1>2, <2>1, <2>2, <2>3, <2>4, NumbersAre, BalanceOf
  <2>5. CASE q # r
    BY <1>2, <2>1, <2>2, <2>3, <2>5, NumbersAre, BalanceOf
  <2> QED
    BY <2>4, <2>5
<1>4. CASE ProduceFails(r) /\ batch' = [batch EXCEPT ![i].pc = "spill"]
  <2>1. Retried(q)' = Retried(q)
    BY <1>1, <1>4, RetryStaysCounts
  <2>2. /\ late'[r] + used["timeouts"] <= late[r] + used'["timeouts"]
        /\ used'["timeouts"] >= used["timeouts"]
        /\ q # r => late'[q] = late[q]
        /\ topic' = topic
    BY <1>1, <1>4, ProduceFailsCounts
  <2> HIDE DEF r
  <2>3. CASE q = r
    BY <1>2, <2>1, <2>2, <2>3, NumbersAre, BalanceOf
  <2>4. CASE q # r
    BY <1>2, <2>1, <2>2, <2>4, NumbersAre, BalanceOf
  <2> QED
    BY <2>3, <2>4
<1> QED
  BY <1>3, <1>4 DEF DrainProduce

LEMMA DrainSpillBalanced ==
  ASSUME Types, Types', HandlersFinite, HandlersFinite', NEW q \in Readings,
         NEW i \in DOMAIN batch, DrainSpill(i)
  PROVE  Balanced(q)
<1> DEFINE r == batch[i].r
<1>1. batch[i].pc = "spill" /\ r \in Readings /\ SpoolWrite(r)
  BY BatchMember DEF DrainSpill
<1>2. Handling(q)' = Handling(q) /\ admits' = admits /\ topic' = topic /\ late' = late
  BY DEF DrainSpill, Handling
<1>3. /\ Cardinality(Retried(q)') <= Cardinality(Retried(q))
      /\ q = r => Cardinality(Retried(q)') + 1 <= Cardinality(Retried(q))
  BY <1>1, RetryLeavesCounts DEF DrainSpill
<1>4. /\ Cardinality(Spooled(q)') <= Cardinality(Spooled(q)) + 1
      /\ q # r => Cardinality(Spooled(q)') <= Cardinality(Spooled(q))
      /\ used'["timeouts"] = used["timeouts"]
  BY <1>1, SpoolWriteCounts
<1> HIDE DEF r
<1> QED
  BY <1>2, <1>3, <1>4, NumbersAre, BalanceOf

LEMMA DrainReadsBalanced ==
  ASSUME Types, Types', HandlersFinite, HandlersFinite', NEW q \in Readings,
         DrainTake \/ DrainReadFault
  PROVE  Balanced(q)
<1>1. /\ file' = << >> /\ UNCHANGED <<conn, late, topic, admits>>
      /\ \/ UNCHANGED used
         \/ Spend("faults")
  BY DEF DrainTake, DrainReadFault, Truncated
<1>2. used'["timeouts"] = used["timeouts"]
  BY <1>1, SpendType DEF Kinds
<1>3. file \in Seq(Readings \cup {Torn})
  BY DEF Types
<1>4. Cardinality(Retried(q)') <= Cardinality(Spooled(q))
  <2>1. CASE DrainTake
    <3>1. PICK rs \in ReadBacks(file) : batch' = Queued(rs)
      BY <2>1 DEF DrainTake
    <3>2. rs \in Seq(Readings)
      BY <1>3, <3>1, ReadBacksType
    <3>3. Retried(q)' = {i \in 1 .. Len(rs) : rs[i] = q}
      BY <3>1, <3>2, BatchFilledCounts
    <3>4. Len(rs) \in Nat /\ Len(rs) <= Len(rs)
      BY <3>2
    <3> QED
      BY <1>3, <3>1, <3>3, <3>4, ReadBackCounts DEF Spooled
  <2>2. CASE DrainReadFault
    <3>1. PICK rs \in ReadBacks(file), n \in 0 .. Len(file) :
            n < Len(rs) /\ batch' = Queued(SubSeq(rs, 1, n))
      BY <2>2 DEF DrainReadFault
    <3>2. rs \in Seq(Readings) /\ n \in Nat /\ n <= Len(rs)
      BY <1>3, <3>1, ReadBacksType
    <3> DEFINE part == SubSeq(rs, 1, n)
    <3>3. /\ part \in Seq(Readings) /\ Len(part) = n
          /\ \A i \in 1 .. n : part[i] = rs[i]
      BY <3>1, <3>2
    <3>4. Retried(q)' = {i \in 1 .. Len(part) : part[i] = q}
      BY <3>1, <3>3, BatchFilledCounts
    <3> HIDE DEF part
    <3>5. Retried(q)' = {i \in 1 .. n : rs[i] = q}
      BY <3>3, <3>4
    <3> QED
      BY <1>3, <3>1, <3>2, <3>5, ReadBackCounts DEF Spooled
  <2> QED
    BY <2>1, <2>2
<1>5. Cardinality(Spooled(q)') = 0
  <2>1. Spooled(q)' = {}
    BY <1>1 DEF Spooled, RecordsOf
  <2> QED
    BY <2>1, FS_EmptySet
<1>6. Handling(q)' = Handling(q)
  BY <1>1 DEF Handling
<1>7. Cardinality(Handling(q)') = Cardinality(Handling(q))
  BY <1>6
<1>8. topic'[q] = topic[q] /\ late'[q] = late[q] /\ admits'[q] = admits[q]
  BY <1>1
<1> QED
  BY <1>2, <1>4, <1>5, <1>7, <1>8, NumbersAre, BalanceOf

LEMMA DrainMovesBalanced ==
  ASSUME Types, Types', HandlersFinite, HandlersFinite', NEW q \in Readings,
         DrainLaunch \/ DrainEnds
  PROVE  Balanced(q)
<1>1. UNCHANGED <<conn, file, late, topic, admits, used>>
  BY DEF DrainLaunch, DrainEnds
<1>2. Cardinality(Retried(q)') <= Cardinality(Retried(q))
  <2>1. CASE DrainLaunch
    <3>1. PICK i \in WithStatus("queued") : batch' = [batch EXCEPT ![i].pc = "produce"]
      BY <2>1 DEF DrainLaunch
    <3>2. i \in DOMAIN batch /\ batch[i].pc # "done"
      BY DEF WithStatus
    <3>3. Retried(q)' = Retried(q)
      BY <3>1, <3>2, RetryStaysCounts
    <3> QED
      BY <3>3, NumbersAre
  <2>2. CASE DrainEnds
    <3>1. Retried(q)' = {}
      BY <2>2 DEF DrainEnds, Retried, RetriesOf
    <3> QED
      BY <3>1, FS_EmptySet, NumbersAre
  <2> QED
    BY <2>1, <2>2
<1>3. Handling(q)' = Handling(q) /\ Spooled(q)' = Spooled(q)
  BY <1>1 DEF Handling, Spooled
<1> QED
  BY <1>1, <1>2, <1>3, NumbersAre, BalanceOf

LEMMA LateBalanced ==
  ASSUME Types, Types', HandlersFinite, HandlersFinite', NEW q \in Readings,
         NEW r \in Readings, LateWrite(r) \/ LateDrop(r)
  PROVE  Balanced(q)
<1>1. /\ UNCHANGED <<conn, file, batch, admits>>
      /\ late[r] > 0 /\ late' = [late EXCEPT ![r] = @ - 1]
      /\ \/ Stored(r)
         \/ UNCHANGED <<topic, used>>
  BY DEF LateWrite, LateDrop
<1>2. late'[q] = IF q = r THEN late[q] - 1 ELSE late[q]
  BY <1>1 DEF Types
<1>3. Handling(q)' = Handling(q) /\ Spooled(q)' = Spooled(q) /\ Retried(q)' = Retried(q)
  BY <1>1 DEF Handling, Spooled, Retried
<1>4. /\ q = r => topic'[q] + used["timeouts"] <= topic[q] + 1 + used'["timeouts"]
      /\ q # r => topic'[q] = topic[q]
      /\ used'["timeouts"] >= used["timeouts"]
  <2>1. CASE Stored(r)
    BY <2>1, StoredCounts
  <2>2. CASE UNCHANGED <<topic, used>>
    BY <2>2, NumbersAre
  <2> QED
    BY <1>1, <2>1, <2>2
<1>5. CASE q = r
  BY <1>1, <1>2, <1>3, <1>4, <1>5, NumbersAre, BalanceOf
<1>6. CASE q # r
  BY <1>1, <1>2, <1>3, <1>4, <1>6, NumbersAre, BalanceOf
<1> QED
  BY <1>5, <1>6

LEMMA RestartBalanced ==
  ASSUME Types, Types', HandlersFinite, HandlersFinite', NEW q \in Readings, Restart
  PROVE  Balanced(q)
<1>1. used'["timeouts"] = used["timeouts"]
  BY SpendType DEF Restart, Kinds
<1>2. Handling(q)' = {} /\ Retried(q)' = {} /\ Spooled(q)' = Spooled(q)
  BY DEF Restart, SpoolOpened, Handling, Retried, RetriesOf, Spooled
<1>3. /\ Cardinality(Handling(q)') = 0 /\ Cardinality(Retried(q)') = 0
      /\ Cardinality(Spooled(q)') = Cardinality(Spooled(q))
  BY <1>2, FS_EmptySet
<1>4. late'[q] = 0 /\ topic'[q] = topic[q] /\ admits'[q] = admits[q]
  BY DEF Restart, None
<1> QED
  BY <1>1, <1>3, <1>4, NumbersAre, BalanceOf

LEMMA NextBalanced ==
  ASSUME Types, HandlersFinite, [Next]_vars, NEW q \in Readings
  PROVE  Balanced(q)
<1>1. Types' /\ HandlersFinite'
  BY NextTypes, HandlersStayFinite
<1>2. ASSUME NEW c \in Conns, NEW r \in Readings, ReceiveDuplicate(c, r) PROVE Balanced(q)
  <2>1. used'["timeouts"] = used["timeouts"]
    BY <1>2, SpendType DEF ReceiveDuplicate, Kinds
  <2> QED
    BY <1>1, <1>2, <2>1, QuietBalanced DEF ReceiveDuplicate
<1>3. CASE DrainFails \/ BrokerGoes \/ BrokerReturns \/ UNCHANGED vars
  <2>1. used'["timeouts"] = used["timeouts"]
    BY <1>3, SpendType DEF DrainFails, BrokerGoes, BrokerReturns, vars, Kinds
  <2>2. UNCHANGED <<conn, file, batch, late, topic, admits>>
    BY <1>3 DEF DrainFails, BrokerGoes, BrokerReturns, vars
  <2> QED
    BY <1>1, <2>1, <2>2, QuietBalanced
<1> QED
  BY <1>1, <1>2, <1>3, ReceiveNewBalanced, ConnProduceBalanced, ConnSpillBalanced,
     DrainProduceBalanced, DrainSpillBalanced, DrainReadsBalanced, DrainMovesBalanced,
     LateBalanced, RestartBalanced
     DEF Next, Receive, DrainStep

CopiesInv == Types /\ HandlersFinite /\ NoExtraCopies

LEMMA InitCopiesInv == Init => CopiesInv
<1> SUFFICES ASSUME Init PROVE CopiesInv
  OBVIOUS
<1>1. Types
  BY InitTypes
<1>2. \A q \in Readings : Handling(q) = {} /\ Spooled(q) = {} /\ Retried(q) = {}
  BY DEF Init, Handling, Spooled, RecordsOf, Retried, RetriesOf
<1>3. HandlersFinite
  BY <1>2, FS_EmptySet DEF HandlersFinite
<1>4. \A q \in Readings : Copies(q) = 0
  BY <1>1, <1>2, <1>3, CopiesAre, FS_EmptySet
<1>5. \A q \in Readings : topic[q] = 0 /\ late[q] = 0 /\ admits[q] = 0
  BY DEF Init, None
<1>6. used["timeouts"] = 0
  BY DEF Init, Kinds
<1> QED
  BY <1>1, <1>3, <1>4, <1>5, <1>6 DEF CopiesInv, NoExtraCopies

LEMMA NextCopiesInv == CopiesInv /\ [Next]_vars => CopiesInv'
<1> SUFFICES ASSUME CopiesInv, [Next]_vars PROVE CopiesInv'
  OBVIOUS
<1>1. Types' /\ HandlersFinite'
  BY NextTypes, HandlersStayFinite DEF CopiesInv
<1>2. ASSUME NEW q \in Readings
      PROVE  topic'[q] + late'[q] + Copies(q)' <= admits'[q] + used'["timeouts"]
  <2>1. Balanced(q) /\ topic[q] + late[q] + Copies(q) <= admits[q] + used["timeouts"]
    BY NextBalanced DEF CopiesInv, NoExtraCopies
  <2>2. Copies(q) \in Nat /\ Copies(q)' \in Nat
    BY <1>1, CopiesAre, CopiesWillBe DEF CopiesInv
  <2> QED
    BY <1>1, <2>1, <2>2, NumbersAre DEF CopiesInv, Balanced
<1> QED
  BY <1>1, <1>2 DEF CopiesInv, NoExtraCopies

\* Whatever the broker, the disk and the process do, and however many handlers
\* there are: Ingest and drainer never multiply a reading; every copy beyond
\* the admitted ones comes from a produce whose answer was late.
THEOREM NoExtraCopiesHolds == Spec => []NoExtraCopies
<1>1. CopiesInv => NoExtraCopies
  BY DEF CopiesInv
<1> QED
  BY <1>1, InitCopiesInv, NextCopiesInv, PTL DEF Spec

-----------------------------------------------------------------------------
(* Devices within the cap: no number is ever evicted, so that a process    *)
(* lets a reading pass once.                                               *)

SeenWhole == \A d \in Devices : Len(seen[d].order) = Cardinality(seen[d].set)

AdmittedOnce ==
  \A r \in Readings :
    admits[r] <= used["crashes"] + (IF SeqNo(r) \in seen[Dev(r)].set THEN 1 ELSE 0)

OnceInv == Types /\ SeenWhole /\ AdmittedOnce

LEMMA RememberWithinCap ==
  ASSUME NEW S \in SUBSET SeqNos, IsFiniteSet(S), Cardinality(S) <= MaxSequencesPerDevice,
         NEW ds \in DeviceSeen, Len(ds.order) = Cardinality(ds.set), ds.set \subseteq S,
         NEW s \in S, s \notin ds.set
  PROVE  /\ Remember(ds, s).set = ds.set \cup {s}
         /\ Len(Remember(ds, s).order) = Cardinality(ds.set \cup {s})
<1> DEFINE o == Append(ds.order, s)
           more == ds.set \cup {s}
<1>1. ds.order \in Seq(SeqNos) /\ more \subseteq S
  BY DEF DeviceSeen
<1>2. Len(o) = Len(ds.order) + 1
  BY <1>1
<1>3. IsFiniteSet(ds.set)
  BY FS_Subset
<1>4. Cardinality(more) = Cardinality(ds.set) + 1
  BY <1>3, FS_AddElement
<1>5. Cardinality(more) <= Cardinality(S) /\ Cardinality(more) \in Nat /\ Cardinality(S) \in Nat
  BY <1>1, CountSubset
<1>6. ~(Len(o) > MaxSequencesPerDevice)
  BY <1>2, <1>4, <1>5, CapAssumption
<1>7. Remember(ds, s) = [set |-> more, order |-> o]
  BY <1>6 DEF Remember, EvictOldest
<1> QED
  BY <1>2, <1>4, <1>7

LEMMA NextOnceInv ==
  ASSUME IsFiniteSet(SeqNos), Cardinality(SeqNos) <= MaxSequencesPerDevice, OnceInv, [Next]_vars
  PROVE  OnceInv'
<1>1. Types /\ Types'
  BY NextTypes DEF OnceInv
<1>2. /\ used["crashes"] \in Nat /\ used'["crashes"] \in Nat
      /\ \A r \in Readings : admits[r] \in Nat /\ Dev(r) \in Devices /\ SeqNo(r) \in SeqNos
  BY <1>1 DEF Types, Kinds, Readings, Dev, SeqNo
<1>3. used'["crashes"] >= used["crashes"]
  BY <1>1, FailuresCount DEF Kinds
<1>4. CASE UNCHANGED <<seen, admits>>
  BY <1>1, <1>2, <1>3, <1>4 DEF OnceInv, SeenWhole, AdmittedOnce
<1>5. ASSUME NEW c \in Conns, NEW r \in Readings, ReceiveNew(c, r) PROVE OnceInv'
  <2>1. /\ seen' = [seen EXCEPT ![Dev(r)] = Remember(seen[Dev(r)], SeqNo(r))]
        /\ admits' = [admits EXCEPT ![r] = admits[r] + 1]
        /\ SeqNo(r) \notin seen[Dev(r)].set
    BY <1>5 DEF ReceiveNew
  <2>2. seen[Dev(r)] \in DeviceSeen /\ Len(seen[Dev(r)].order) = Cardinality(seen[Dev(r)].set)
    BY <1>1, <1>2 DEF Types, DeviceSeen, OnceInv, SeenWhole
  <2>3. /\ Remember(seen[Dev(r)], SeqNo(r)).set = seen[Dev(r)].set \cup {SeqNo(r)}
        /\ Len(Remember(seen[Dev(r)], SeqNo(r)).order) = Cardinality(seen[Dev(r)].set \cup {SeqNo(r)})
    <3>1. seen[Dev(r)].set \subseteq SeqNos /\ SeqNo(r) \in SeqNos
      BY <1>2, <2>2 DEF DeviceSeen
    <3> QED
      BY <2>1, <2>2, <3>1, RememberWithinCap
  <2>4. /\ seen'[Dev(r)] = Remember(seen[Dev(r)], SeqNo(r))
        /\ \A d \in Devices : d # Dev(r) => seen'[d] = seen[d]
    BY <1>1, <1>2, <2>1 DEF Types
  <2>5. SeenWhole'
    BY <2>3, <2>4 DEF OnceInv, SeenWhole
  <2>6. /\ admits'[r] = admits[r] + 1
        /\ \A q \in Readings : q # r => admits'[q] = admits[q]
    BY <1>1, <2>1 DEF Types
  <2>7. SeqNo(r) \in seen'[Dev(r)].set /\ admits[r] <= used["crashes"]
    BY <1>2, <2>1, <2>3, <2>4 DEF OnceInv, AdmittedOnce
  <2>8. \A q \in Readings : SeqNo(q) \in seen[Dev(q)].set => SeqNo(q) \in seen'[Dev(q)].set
    BY <1>2, <2>3, <2>4
  <2>9. AdmittedOnce'
    <3>1. SUFFICES ASSUME NEW q \in Readings
                   PROVE  admits'[q] <= used'["crashes"]
                                          + (IF SeqNo(q) \in seen'[Dev(q)].set THEN 1 ELSE 0)
      BY DEF AdmittedOnce
    <3>2. CASE q = r
      BY <1>2, <1>3, <2>6, <2>7, <3>2
    <3>3. CASE q # r
      BY <1>2, <1>3, <2>6, <2>8, <3>3 DEF OnceInv, AdmittedOnce
    <3> QED
      BY <3>2, <3>3
  <2> QED
    BY <1>1, <2>5, <2>9 DEF OnceInv
<1>6. CASE Restart
  <2>1. used'["crashes"] = used["crashes"] + 1 /\ admits' = admits
    BY <1>1, <1>6, SpendType DEF Restart, Kinds
  <2>2. \A d \in Devices : seen'[d].set = {} /\ seen'[d].order = << >>
    BY <1>6 DEF Restart, NewDeviceSeen
  <2>3. SeenWhole'
    <3>1. Len(<< >>) = 0 /\ Cardinality({}) = 0
      BY FS_EmptySet
    <3> QED
      BY <2>2, <3>1 DEF SeenWhole
  <2>4. AdmittedOnce'
    BY <1>2, <2>1, <2>2 DEF OnceInv, AdmittedOnce
  <2> QED
    BY <1>1, <2>3, <2>4 DEF OnceInv
<1> QED
  BY <1>4, <1>5, <1>6
     DEF Next, Receive, DrainStep, vars, ReceiveDuplicate, ConnProduce, ConnSpill, DrainTake,
         DrainReadFault, DrainFails, DrainLaunch, DrainProduce, DrainSpill, DrainEnds,
         LateWrite, LateDrop, BrokerGoes, BrokerReturns

\* For devices that send no more numbers than the cap (MaxSequencesPerDevice): no
\* reading gets into the topic twice but for a late answer each time, or a
\* process that restarted and forgot what it had admitted (Dedup, Produce).
THEOREM TwiceOnlyAfterTimeoutOrRestartHolds ==
  ASSUME IsFiniteSet(SeqNos), Cardinality(SeqNos) <= MaxSequencesPerDevice
  PROVE  Spec => []TwiceOnlyAfterTimeoutOrRestart
<1> DEFINE Inv == CopiesInv /\ OnceInv
<1>1. Init => Inv
  <2> SUFFICES ASSUME Init PROVE SeenWhole /\ AdmittedOnce
    BY InitCopiesInv, InitTypes DEF OnceInv
  <2>1. \A d \in Devices : seen[d].set = {} /\ seen[d].order = << >>
    BY DEF Init, NewDeviceSeen
  <2>2. SeenWhole
    <3>1. Len(<< >>) = 0 /\ Cardinality({}) = 0
      BY FS_EmptySet
    <3> QED
      BY <2>1, <3>1 DEF SeenWhole
  <2>3. used["crashes"] = 0 /\ \A r \in Readings : admits[r] = 0
    BY DEF Init, None, Kinds
  <2>4. AdmittedOnce
    BY <2>3 DEF AdmittedOnce
  <2> QED
    BY <2>2, <2>4
<1>2. Inv /\ [Next]_vars => Inv'
  BY NextCopiesInv, NextOnceInv
<1>3. Inv => TwiceOnlyAfterTimeoutOrRestart
  <2> SUFFICES ASSUME Inv, NEW r \in Readings
               PROVE  topic[r] <= 1 + used["timeouts"] + used["crashes"]
    BY DEF TwiceOnlyAfterTimeoutOrRestart
  <2>1. topic[r] + late[r] + Copies(r) <= admits[r] + used["timeouts"]
    BY DEF CopiesInv, NoExtraCopies
  <2>2. Copies(r) \in Nat
    BY CopiesAre DEF CopiesInv
  <2>3. admits[r] <= used["crashes"] + 1
    BY DEF OnceInv, AdmittedOnce, Types, Kinds
  <2>4. /\ topic[r] \in Nat /\ late[r] \in Nat /\ admits[r] \in Nat
        /\ used["timeouts"] \in Nat /\ used["crashes"] \in Nat
    BY DEF OnceInv, Types, Kinds
  <2> QED
    BY <2>1, <2>2, <2>3, <2>4
<1> QED
  BY <1>1, <1>2, <1>3, PTL DEF Spec

-----------------------------------------------------------------------------
(* The benchmarks that drive the gateway: a step of theirs is a step of    *)
(* the gateway, or moves frames and leaves the gateway alone.              *)

Carries(q, s) == \E i \in DOMAIN q : q[i] = s
Distinct(q) == \A i, j \in DOMAIN q : q[i] = q[j] => i = j

LEMMA TailCarries ==
  ASSUME NEW S, NEW q \in Seq(S), q # << >>
  PROVE  /\ Head(q) \in S /\ Tail(q) \in Seq(S) /\ Carries(q, Head(q))
         /\ \A s : Carries(Tail(q), s) => Carries(q, s)
         /\ \A s : Carries(q, s) => s = Head(q) \/ Carries(Tail(q), s)
         /\ Distinct(q) => Distinct(Tail(q)) /\ ~Carries(Tail(q), Head(q))
<1>1. /\ Len(q) \in Nat /\ Len(q) > 0 /\ DOMAIN q = 1 .. Len(q) /\ Head(q) = q[1]
      /\ Tail(q) \in Seq(S) /\ Len(Tail(q)) = Len(q) - 1 /\ DOMAIN Tail(q) = 1 .. Len(q) - 1
      /\ \A i \in 1 .. Len(q) - 1 : Tail(q)[i] = q[i + 1]
  OBVIOUS
<1>2. Head(q) \in S /\ Carries(q, Head(q))
  BY <1>1 DEF Carries
<1>3. \A s : Carries(Tail(q), s) => Carries(q, s)
  <2>1. \A i \in 1 .. Len(q) - 1 : i + 1 \in 1 .. Len(q)
    BY <1>1
  <2>2. SUFFICES ASSUME NEW i \in DOMAIN Tail(q) PROVE Carries(q, Tail(q)[i])
    BY DEF Carries
  <2>3. i + 1 \in DOMAIN q /\ q[i + 1] = Tail(q)[i]
    BY <1>1, <2>1
  <2> QED
    BY <2>3 DEF Carries
<1>4. \A s : Carries(q, s) => s = Head(q) \/ Carries(Tail(q), s)
  <2>0. SUFFICES ASSUME NEW s, Carries(q, s), s # Head(q) PROVE Carries(Tail(q), s)
    OBVIOUS
  <2>1. PICK i \in DOMAIN q : q[i] = s
    BY <2>0 DEF Carries
  <2>2. i - 1 \in 1 .. Len(q) - 1 /\ q[i] = q[(i - 1) + 1]
    BY <1>1, <2>0, <2>1
  <2>3. Tail(q)[i - 1] = s
    BY <1>1, <2>1, <2>2
  <2> QED
    BY <1>1, <2>2, <2>3 DEF Carries
<1>5. ASSUME Distinct(q) PROVE Distinct(Tail(q)) /\ ~Carries(Tail(q), Head(q))
  <2>1. \A i \in 1 .. Len(q) - 1 : i + 1 \in DOMAIN q /\ i + 1 # 1 /\ 1 \in DOMAIN q
    BY <1>1
  <2>2. \A i, j \in 1 .. Len(q) - 1 : q[i + 1] = q[j + 1] => i = j
    BY <1>5, <2>1 DEF Distinct
  <2>3. \A i \in 1 .. Len(q) - 1 : q[i + 1] # q[1]
    BY <1>5, <2>1 DEF Distinct
  <2> QED
    BY <1>1, <2>2, <2>3 DEF Distinct, Carries
<1> QED
  BY <1>1, <1>2, <1>3, <1>4, <1>5

LEMMA AppendCarries ==
  ASSUME NEW S, NEW q \in Seq(S), NEW x \in S
  PROVE  /\ Append(q, x) \in Seq(S)
         /\ \A s : Carries(Append(q, x), s) <=> Carries(q, s) \/ s = x
         /\ Distinct(q) /\ ~Carries(q, x) => Distinct(Append(q, x))
<1>1. /\ Len(q) \in Nat /\ DOMAIN q = 1 .. Len(q) /\ Append(q, x) \in Seq(S)
      /\ DOMAIN Append(q, x) = 1 .. Len(q) + 1 /\ Append(q, x)[Len(q) + 1] = x
      /\ \A i \in 1 .. Len(q) : Append(q, x)[i] = q[i]
  OBVIOUS
<1>2. 1 .. Len(q) + 1 = (1 .. Len(q)) \cup {Len(q) + 1}
  BY <1>1
<1>3. \A s : Carries(Append(q, x), s) <=> Carries(q, s) \/ s = x
  BY <1>1, <1>2 DEF Carries
<1>4. Distinct(q) /\ ~Carries(q, x) => Distinct(Append(q, x))
  BY <1>1, <1>2 DEF Distinct, Carries
<1> QED
  BY <1>1, <1>3, <1>4

Numbers(c) == 1 .. PerDevice[DeviceOf[c]]

BenchTypes ==
  /\ bench \in {"outage", "replay"} /\ main \in {"send", "wait", "read", "done"}
  /\ DOMAIN toSend = Conns /\ DOMAIN wire = Conns
  /\ \A c \in Conns : toSend[c] \in Seq(Numbers(c)) /\ wire[c] \in Seq(Numbers(c))
  /\ written \in [Readings -> Nat] /\ got \in [Readings -> Nat]
  /\ leftover \in BOOLEAN

LEMMA FrameFacts ==
  ASSUME NEW c \in Conns, NEW s \in Numbers(c)
  PROVE  /\ FrameOf(c, s) \in Readings /\ Dev(FrameOf(c, s)) = DeviceOf[c] /\ SeqNo(FrameOf(c, s)) = s
         /\ DeviceOf[c] \in Devices /\ s \in SeqNos
         /\ \A d \in Conns : d # c => DeviceOf[d] # DeviceOf[c]
<1>1. DeviceOf[c] \in Devices /\ s \in SeqNos
  BY BenchAssumption DEF Numbers
<1>2. PICK e \in Conns : {x \in Conns : DeviceOf[x] = DeviceOf[c]} = {e}
  BY <1>1, BenchAssumption
<1>3. \A d \in Conns : d # c => DeviceOf[d] # DeviceOf[c]
  BY <1>2
<1>4. <<DeviceOf[c], s>> \in Devices \X SeqNos
  BY <1>1
<1>5. <<DeviceOf[c], s>>[1] = DeviceOf[c] /\ <<DeviceOf[c], s>>[2] = s
  OBVIOUS
<1> QED
  BY <1>1, <1>3, <1>4, <1>5 DEF FrameOf, Readings, Dev, SeqNo

\* The reading a handler takes from the wire.
LEMMA FrameRead ==
  ASSUME BenchTypes, NEW c \in Conns, wire[c] # << >>
  PROVE  Head(wire[c]) \in Numbers(c) /\ FrameOf(c, Head(wire[c])) \in Readings
<1>1. Head(wire[c]) \in Numbers(c)
  BY TailCarries DEF BenchTypes
<1> QED
  BY <1>1, FrameFacts

LEMMA BenchIsGateway ==
  ASSUME BenchTypes, [BenchNext]_allVars
  PROVE  [Next]_vars
<1>1. ASSUME NEW c \in Conns, HandlerReads(c) PROVE Next
  <2>1. FrameOf(c, Head(wire[c])) \in Readings
    BY <1>1, FrameRead DEF HandlerReads
  <2> QED
    BY <1>1, <2>1 DEF HandlerReads, Next
<1>2. GatewayStep \/ OutageEnds => Next
  BY DEF GatewayStep, OutageEnds, Next
<1>3. ASSUME \/ \E c \in Conns : DeviceWrites(c)
             \/ AllSent \/ WaitEnds \/ Compare \/ \E d \in Devices : readPartition(d)
             \/ UNCHANGED allVars
      PROVE  UNCHANGED vars
  BY <1>3 DEF DeviceWrites, AllSent, WaitEnds, Compare, readPartition, allVars
<1>4. \/ \E c \in Conns : DeviceWrites(c) \/ HandlerReads(c)
      \/ GatewayStep \/ OutageEnds \/ AllSent \/ WaitEnds \/ Compare
      \/ \E d \in Devices : readPartition(d)
      \/ UNCHANGED allVars
  BY DEF BenchNext
<1> HIDE DEF Next, vars, allVars
<1> QED
  BY <1>1, <1>2, <1>3, <1>4

\* Main does nothing to the gateway but look at its topic.
MainMoves ==
  /\ UNCHANGED <<vars, bench, toSend, wire, written, leftover>>
  /\ main' \in {"send", "wait", "read", "done"}
  /\ \/ UNCHANGED got
     \/ \E d \in Devices : got' = [r \in Readings |-> IF Dev(r) = d THEN topic[r] ELSE got[r]]

LEMMA BenchCases ==
  ASSUME BenchTypes, [BenchNext]_allVars
  PROVE  \/ \E c \in Conns : DeviceWrites(c) \/ HandlerReads(c)
         \/ GatewayStep \/ OutageEnds
         \/ MainMoves
<1>1. \/ \E c \in Conns : DeviceWrites(c) \/ HandlerReads(c)
      \/ GatewayStep \/ OutageEnds \/ AllSent \/ WaitEnds \/ Compare
      \/ \E d \in Devices : readPartition(d)
      \/ UNCHANGED allVars
  BY DEF BenchNext
<1>2. ASSUME AllSent \/ WaitEnds \/ Compare \/ UNCHANGED allVars PROVE MainMoves
  BY <1>2 DEF AllSent, WaitEnds, Compare, allVars, benchVars, MainMoves, BenchTypes
<1>3. ASSUME NEW d \in Devices, readPartition(d) PROVE MainMoves
  BY <1>3 DEF readPartition, MainMoves, BenchTypes
<1> QED
  BY <1>1, <1>2, <1>3

\* What a device does with its connection.
LEMMA WritesFrame ==
  ASSUME BenchTypes, NEW c \in Conns, DeviceWrites(c)
  PROVE  /\ toSend[c] # << >> /\ Head(toSend[c]) \in Numbers(c)
         /\ toSend'[c] = Tail(toSend[c]) /\ wire'[c] = Append(wire[c], Head(toSend[c]))
         /\ \A d \in Conns : d # c => toSend'[d] = toSend[d] /\ wire'[d] = wire[d]
         /\ DOMAIN toSend' = Conns /\ DOMAIN wire' = Conns
         /\ written' \in [Readings -> Nat]
         /\ written'[FrameOf(c, Head(toSend[c]))] > 0
         /\ \A r \in Readings : written'[r] >= written[r]
         /\ \A r \in Readings : r # FrameOf(c, Head(toSend[c])) => written'[r] = written[r]
<1>1. toSend[c] # << >> /\ Head(toSend[c]) \in Numbers(c)
  BY TailCarries DEF DeviceWrites, BenchTypes
<1>2. FrameOf(c, Head(toSend[c])) \in Readings
  BY <1>1, FrameFacts
<1>3. /\ toSend'[c] = Tail(toSend[c]) /\ wire'[c] = Append(wire[c], Head(toSend[c]))
      /\ \A d \in Conns : d # c => toSend'[d] = toSend[d] /\ wire'[d] = wire[d]
      /\ DOMAIN toSend' = Conns /\ DOMAIN wire' = Conns
  BY DEF DeviceWrites, BenchTypes
<1>4. /\ written' \in [Readings -> Nat]
      /\ written'[FrameOf(c, Head(toSend[c]))] = written[FrameOf(c, Head(toSend[c]))] + 1
      /\ \A r \in Readings : r # FrameOf(c, Head(toSend[c])) => written'[r] = written[r]
  BY <1>2 DEF DeviceWrites, BenchTypes
<1>5. \A r \in Readings : written[r] \in Nat
  BY DEF BenchTypes
<1> QED
  BY <1>1, <1>2, <1>3, <1>4, <1>5

LEMMA ReadsFrame ==
  ASSUME BenchTypes, NEW c \in Conns, HandlerReads(c)
  PROVE  /\ wire[c] # << >> /\ Head(wire[c]) \in Numbers(c)
         /\ wire'[c] = Tail(wire[c]) /\ \A d \in Conns : d # c => wire'[d] = wire[d]
         /\ DOMAIN wire' = Conns
         /\ FrameOf(c, Head(wire[c])) \in Readings
         /\ Receive(c, FrameOf(c, Head(wire[c])))
         /\ UNCHANGED <<bench, main, toSend, written, got, leftover>>
<1>1. wire[c] # << >>
  BY DEF HandlerReads
<1> QED
  BY <1>1, FrameRead DEF HandlerReads, BenchTypes

LEMMA BenchTypesKept ==
  ASSUME Types, BenchTypes, [BenchNext]_allVars
  PROVE  BenchTypes'
<1>1. ASSUME NEW c \in Conns, DeviceWrites(c) PROVE BenchTypes'
  <2>1. UNCHANGED <<bench, main, got, leftover>>
    BY <1>1 DEF DeviceWrites
  <2>2. toSend'[c] \in Seq(Numbers(c)) /\ wire'[c] \in Seq(Numbers(c))
    <3>1. toSend[c] \in Seq(Numbers(c)) /\ wire[c] \in Seq(Numbers(c))
      BY DEF BenchTypes
    <3>2. /\ toSend[c] # << >> /\ Head(toSend[c]) \in Numbers(c)
          /\ toSend'[c] = Tail(toSend[c]) /\ wire'[c] = Append(wire[c], Head(toSend[c]))
      BY <1>1, WritesFrame
    <3>3. Tail(toSend[c]) \in Seq(Numbers(c))
      BY <3>1, <3>2, TailCarries
    <3>4. Append(wire[c], Head(toSend[c])) \in Seq(Numbers(c))
      BY <3>1, <3>2, AppendCarries
    <3> QED
      BY <3>2, <3>3, <3>4
  <2>3. \A d \in Conns : toSend'[d] \in Seq(Numbers(d)) /\ wire'[d] \in Seq(Numbers(d))
    BY <1>1, <2>2, WritesFrame DEF BenchTypes
  <2> QED
    BY <1>1, <2>1, <2>3, WritesFrame DEF BenchTypes, Numbers
<1>2. ASSUME NEW c \in Conns, HandlerReads(c) PROVE BenchTypes'
  <2>1. wire'[c] \in Seq(Numbers(c))
    <3>1. wire[c] \in Seq(Numbers(c))
      BY DEF BenchTypes
    <3>2. wire[c] # << >> /\ wire'[c] = Tail(wire[c])
      BY <1>2, ReadsFrame
    <3> QED
      BY <3>1, <3>2, TailCarries
  <2>2. \A d \in Conns : wire'[d] \in Seq(Numbers(d))
    BY <1>2, <2>1, ReadsFrame DEF BenchTypes
  <2> QED
    BY <1>2, <2>2, ReadsFrame DEF BenchTypes, Numbers
<1>3. CASE GatewayStep \/ OutageEnds
  BY <1>3 DEF GatewayStep, OutageEnds, benchVars, BenchTypes, Numbers
<1>4. CASE MainMoves
  <2>1. got' \in [Readings -> Nat]
    BY <1>4 DEF MainMoves, BenchTypes, Types
  <2> QED
    BY <1>4, <2>1 DEF MainMoves, BenchTypes, Numbers
<1> QED
  BY <1>1, <1>2, <1>3, <1>4, BenchCases

\* The dedup admits a reading only when a frame is read.
LEMMA OthersAdmitNone ==
  ASSUME Types, GatewayStep \/ OutageEnds
  PROVE  UNCHANGED <<seen, admits>> /\ UNCHANGED benchVars
BY DEF GatewayStep, OutageEnds, DrainStep, ConnProduce, ConnSpill, DrainTake, DrainLaunch,
       DrainProduce, DrainSpill, DrainEnds, LateWrite, LateDrop, BrokerReturns

\* Neither crashes nor, on a sound disk, faults.
LEMMA NoFailure ==
  ASSUME Types, BenchTypes, [BenchNext]_allVars
  PROVE  /\ used'["crashes"] = used["crashes"]
         /\ used["faults"] = 0 /\ Limit["faults"] = 0 => used'["faults"] = 0
<1>1. ASSUME NEW r \in Readings, SpoolWrite(r)
      PROVE  /\ used'["crashes"] = used["crashes"]
             /\ used["faults"] = 0 /\ Limit["faults"] = 0 => used'["faults"] = 0
  <2>1. CASE UNCHANGED used
    BY <2>1
  <2>2. CASE Spend("faults")
    BY <2>2, SpendType DEF Kinds
  <2> QED
    BY <1>1, <2>1, <2>2 DEF SpoolWrite, SpoolWritten, SpoolWriteFails
<1>2. ASSUME NEW c \in Conns, NEW r \in Readings, Receive(c, r)
      PROVE  used'["crashes"] = used["crashes"] /\ used'["faults"] = used["faults"]
  <2>1. Spend("sends")
    BY <1>2 DEF Receive, ReceiveDuplicate, ReceiveNew
  <2> QED
    BY <2>1, SpendType DEF Kinds
<1>3. ASSUME NEW c \in Conns, ConnProduce(c)
      PROVE  used'["crashes"] = used["crashes"] /\ used'["faults"] = used["faults"]
  <2>1. conn[c].r \in Readings
    BY <1>3 DEF ConnProduce, Types, Waiting
  <2> QED
    BY <1>3, <2>1, ProduceAckedEffect, ProduceFailsEffect DEF ConnProduce
<1>4. ASSUME NEW c \in Conns, ConnSpill(c) PROVE \E r \in Readings : SpoolWrite(r)
  BY <1>4 DEF ConnSpill, Types, Waiting
<1>5. ASSUME NEW i \in DOMAIN batch, DrainProduce(i)
      PROVE  used'["crashes"] = used["crashes"] /\ used'["faults"] = used["faults"]
  <2>1. batch[i].r \in Readings
    BY BatchMember
  <2> QED
    BY <1>5, <2>1, ProduceAckedEffect, ProduceFailsEffect DEF DrainProduce
<1>6. ASSUME NEW i \in DOMAIN batch, DrainSpill(i) PROVE \E r \in Readings : SpoolWrite(r)
  BY <1>6, BatchMember DEF DrainSpill
<1>7. ASSUME NEW r \in Readings, LateWrite(r)
      PROVE  used'["crashes"] = used["crashes"] /\ used'["faults"] = used["faults"]
  BY <1>7, StoredType DEF LateWrite
<1>8. ASSUME DrainTake \/ DrainLaunch \/ DrainEnds \/ (\E r \in Readings : LateDrop(r)) \/ BrokerReturns
      PROVE  UNCHANGED used
  BY <1>8 DEF DrainTake, DrainLaunch, DrainEnds, LateDrop, BrokerReturns
<1>9. CASE GatewayStep \/ OutageEnds
  BY <1>1, <1>3, <1>4, <1>5, <1>6, <1>7, <1>8, <1>9 DEF GatewayStep, OutageEnds, DrainStep
<1>10. ASSUME NEW c \in Conns, DeviceWrites(c) PROVE UNCHANGED used
  BY <1>10 DEF DeviceWrites, vars
<1>11. CASE MainMoves
  BY <1>11 DEF MainMoves, vars
<1> QED
  BY <1>2, <1>9, <1>10, <1>11, BenchCases, ReadsFrame

-----------------------------------------------------------------------------
(* On a sound disk a frame that was written is on the wire or safe.        *)

SafeInv ==
  /\ used["faults"] = 0 /\ used["crashes"] = 0
  /\ SoundSpool /\ RememberedIsSafe
  /\ \A r \in Readings : written[r] > 0 => Safe(r) \/ OnTheWire(r)

LEMMA WireIs ==
  ASSUME NEW r
  PROVE  OnTheWire(r) <=> \E c \in Conns : DeviceOf[c] = Dev(r) /\ Carries(wire[c], SeqNo(r))
BY DEF OnTheWire, Carries

LEMMA WireWillBe ==
  ASSUME NEW r
  PROVE  OnTheWire(r)' <=> \E c \in Conns : DeviceOf[c] = Dev(r) /\ Carries(wire'[c], SeqNo(r))
BY DEF OnTheWire, Carries

LEMMA SafeInvKept ==
  ASSUME Limit["faults"] = 0, Types, BenchTypes, SafeInv, [BenchNext]_allVars
  PROVE  SafeInv'
<1>1. [Next]_vars
  BY BenchIsGateway
<1>2. used'["faults"] = 0 /\ used'["crashes"] = 0
  BY NoFailure DEF SafeInv
<1>3. Effect
  BY <1>1, NextEffect DEF SafeInv
<1>4. RememberedIsSafe' /\ SoundSpool'
  BY <1>1, <1>3, NextRememberedIsSafe DEF SafeInv, Effect
<1>5. \A r \in Readings : Safe(r) => Safe(r)'
  BY <1>2, <1>3 DEF Effect, KeepsSafe, StartsAfresh
<1>6. ASSUME NEW r \in Readings, written'[r] > 0 PROVE Safe(r)' \/ OnTheWire(r)'
  <2>1. ASSUME NEW c \in Conns, DeviceWrites(c) PROVE Safe(r)' \/ OnTheWire(r)'
    <3> DEFINE s == Head(toSend[c])
    <3>1. /\ s \in Numbers(c) /\ wire'[c] = Append(wire[c], s)
          /\ \A d \in Conns : d # c => wire'[d] = wire[d]
          /\ r # FrameOf(c, s) => written'[r] = written[r]
      BY <2>1, WritesFrame
    <3>2. wire[c] \in Seq(Numbers(c))
      BY DEF BenchTypes
    <3> HIDE DEF s
    <3>3. \A n : Carries(wire'[c], n) <=> Carries(wire[c], n) \/ n = s
      BY <3>1, <3>2, AppendCarries
    <3>4. CASE r = FrameOf(c, s)
      <4>1. Dev(r) = DeviceOf[c] /\ SeqNo(r) = s
        BY <3>1, <3>4, FrameFacts
      <4> QED
        BY <3>3, <4>1, WireWillBe
    <3>5. CASE r # FrameOf(c, s)
      <4>1. Safe(r) \/ OnTheWire(r)
        BY <1>6, <3>1, <3>5 DEF SafeInv
      <4>2. CASE OnTheWire(r)
        BY <3>1, <3>3, <4>2, WireIs, WireWillBe
      <4> QED
        BY <1>5, <4>1, <4>2
    <3> QED
      BY <3>4, <3>5
  <2>2. ASSUME NEW c \in Conns, HandlerReads(c) PROVE Safe(r)' \/ OnTheWire(r)'
    <3> DEFINE s == Head(wire[c])
    <3>1. /\ wire[c] # << >> /\ s \in Numbers(c) /\ wire'[c] = Tail(wire[c])
          /\ \A d \in Conns : d # c => wire'[d] = wire[d]
          /\ FrameOf(c, s) \in Readings /\ Receive(c, FrameOf(c, s))
          /\ written' = written
      BY <2>2, ReadsFrame
    <3>2. wire[c] \in Seq(Numbers(c))
      BY DEF BenchTypes
    <3>3. \A n : Carries(wire[c], n) => n = s \/ Carries(wire'[c], n)
      BY <3>1, <3>2, TailCarries
    <3> HIDE DEF s
    <3>4. Safe(r) \/ OnTheWire(r)
      BY <1>6, <3>1 DEF SafeInv
    <3>5. CASE r = FrameOf(c, s)
      <4>1. CASE ReceiveDuplicate(c, r)
        <5>1. Safe(r)
          BY <4>1 DEF ReceiveDuplicate, Remembered, SafeInv, RememberedIsSafe
        <5> QED
          BY <1>5, <5>1
      <4>2. CASE ReceiveNew(c, r)
        <5>1. Held(r)'
          BY <4>2, HandlerEnters DEF ReceiveNew, Types, Held
        <5> QED
          BY <5>1 DEF Safe
      <4> QED
        BY <3>1, <3>5, <4>1, <4>2 DEF Receive
    <3>6. CASE r # FrameOf(c, s) /\ OnTheWire(r)
      <4>1. PICK d \in Conns : DeviceOf[d] = Dev(r) /\ Carries(wire[d], SeqNo(r))
        BY <3>6, WireIs
      <4>2. d = c => SeqNo(r) # s
        BY <3>6, <4>1, DeviceAndNumber DEF FrameOf
      <4>3. Carries(wire'[d], SeqNo(r))
        BY <3>1, <3>3, <4>1, <4>2
      <4> QED
        BY <4>1, <4>3, WireWillBe
    <3> QED
      BY <1>5, <3>4, <3>5, <3>6
  <2>3. CASE (GatewayStep \/ OutageEnds) \/ MainMoves
    <3>1. written' = written /\ wire' = wire
      BY <2>3, OthersAdmitNone DEF MainMoves, benchVars
    <3>2. OnTheWire(r) => OnTheWire(r)'
      BY <3>1 DEF OnTheWire
    <3> QED
      BY <1>5, <1>6, <3>1, <3>2 DEF SafeInv
  <2> QED
    BY <2>1, <2>2, <2>3, BenchCases
<1> QED
  BY <1>2, <1>4, <1>6 DEF SafeInv

-----------------------------------------------------------------------------
(* How often a reading can be admitted.                                    *)

\* Nothing is admitted or on the wire that was not written, and no more was
\* read back than there is.
SourceInv ==
  /\ \A r \in Readings : admits[r] > 0 => written[r] > 0
  /\ \A c \in Conns : \A s \in Numbers(c) : Carries(wire[c], s) => written[FrameOf(c, s)] > 0
  /\ \A r \in Readings : got[r] <= topic[r]

\* In the outage benchmark a number is sent once.
CountedInv ==
  bench = "outage" =>
    /\ \A c \in Conns :
         /\ Distinct(wire[c]) /\ Distinct(toSend[c])
         /\ \A s \in Numbers(c) : Carries(wire[c], s) => ~Carries(toSend[c], s)
         /\ \A s \in Numbers(c) :
              Carries(wire[c], s) \/ Carries(toSend[c], s) => admits[FrameOf(c, s)] = 0
    /\ \A r \in Readings : admits[r] <= 1

\* The readings of each device fit into its record in the dedup.
FitsCap == \A d \in Devices : PerDevice[d] <= MaxSequencesPerDevice

\* Then no number is forgotten.
FittingInv ==
  FitsCap =>
    /\ \A d \in Devices : seen[d].set \subseteq 1 .. PerDevice[d]
    /\ SeenWhole
    /\ \A r \in Readings : admits[r] <= (IF Remembered(r) THEN 1 ELSE 0)

LEMMA TopicGrows ==
  ASSUME Types, BenchTypes, [BenchNext]_allVars, NEW q \in Readings
  PROVE  topic'[q] >= topic[q]
<1>1. topic \in [Readings -> Nat] /\ topic[q] \in Nat
  BY DEF Types
<1>2. ASSUME NEW r \in Readings, Stored(r) PROVE topic'[q] >= topic[q]
  <2>1. topic' = [topic EXCEPT ![r] = topic[r] + 1] \/ topic' = [topic EXCEPT ![r] = topic[r] + 2]
    BY <1>2 DEF Stored
  <2> QED
    BY <1>1, <2>1
<1>3. ASSUME NEW c \in Conns, ConnProduce(c) PROVE topic'[q] >= topic[q]
  <2>1. conn[c].r \in Readings
    BY <1>3 DEF ConnProduce, Types, Waiting
  <2>2. UNCHANGED topic \/ Stored(conn[c].r)
    BY <1>3 DEF ConnProduce, ProduceAcked, ProduceFails, ProduceRefused, ProduceTimesOut
  <2> QED
    BY <1>1, <1>2, <2>1, <2>2
<1>4. ASSUME NEW i \in DOMAIN batch, DrainProduce(i) PROVE topic'[q] >= topic[q]
  <2>1. batch[i].r \in Readings
    BY BatchMember
  <2>2. UNCHANGED topic \/ Stored(batch[i].r)
    BY <1>4 DEF DrainProduce, ProduceAcked, ProduceFails, ProduceRefused, ProduceTimesOut
  <2> QED
    BY <1>1, <1>2, <2>1, <2>2
<1>5. ASSUME NEW r \in Readings, LateWrite(r) PROVE topic'[q] >= topic[q]
  BY <1>2, <1>5 DEF LateWrite
<1>6. ASSUME \/ \E c \in Conns : ConnSpill(c)
             \/ \E i \in DOMAIN batch : DrainSpill(i)
             \/ DrainTake \/ DrainLaunch \/ DrainEnds
             \/ \E r \in Readings : LateDrop(r)
             \/ BrokerReturns
      PROVE  UNCHANGED topic
  BY <1>6 DEF ConnSpill, DrainSpill, DrainTake, DrainLaunch, DrainEnds, LateDrop, BrokerReturns
<1>7. CASE GatewayStep \/ OutageEnds
  BY <1>1, <1>3, <1>4, <1>5, <1>6, <1>7 DEF GatewayStep, OutageEnds, DrainStep
<1>8. ASSUME NEW c \in Conns, DeviceWrites(c) \/ HandlerReads(c) PROVE UNCHANGED topic
  BY <1>8 DEF DeviceWrites, HandlerReads, vars, Receive, ReceiveDuplicate, ReceiveNew
<1>9. CASE MainMoves
  BY <1>1, <1>9 DEF MainMoves, vars
<1> QED
  BY <1>1, <1>7, <1>8, <1>9, BenchCases

\* What reading a frame does to the dedup.
LEMMA FrameAdmitted ==
  ASSUME Types, BenchTypes, NEW c \in Conns, NEW r \in Readings, Receive(c, r)
  PROVE  \/ UNCHANGED <<seen, admits>>
         \/ /\ admits'[r] = admits[r] + 1
            /\ \A q \in Readings : q # r => admits'[q] = admits[q]
            /\ SeqNo(r) \notin seen[Dev(r)].set
            /\ seen'[Dev(r)] = Remember(seen[Dev(r)], SeqNo(r))
            /\ \A d \in Devices : d # Dev(r) => seen'[d] = seen[d]
<1>1. Dev(r) \in Devices
  BY DeviceAndNumber
<1>2. CASE ReceiveDuplicate(c, r)
  BY <1>2 DEF ReceiveDuplicate
<1>3. CASE ReceiveNew(c, r)
  BY <1>1, <1>3 DEF ReceiveNew, Types
<1> QED
  BY <1>2, <1>3 DEF Receive

LEMMA SourceInvKept ==
  ASSUME Types, BenchTypes, SourceInv, [BenchNext]_allVars
  PROVE  SourceInv'
<1>1. \A r \in Readings : /\ admits[r] \in Nat /\ written[r] \in Nat
                          /\ topic[r] \in Nat /\ topic'[r] \in Nat /\ got[r] \in Nat
                          /\ topic'[r] >= topic[r]
  <2>1. Types'
    BY BenchIsGateway, NextTypes
  <2> QED
    BY <2>1, TopicGrows DEF Types, BenchTypes
<1>2. ASSUME NEW c \in Conns, DeviceWrites(c) PROVE SourceInv'
  <2> DEFINE s == Head(toSend[c])
  <2>1. /\ s \in Numbers(c) /\ wire'[c] = Append(wire[c], s)
        /\ \A d \in Conns : d # c => wire'[d] = wire[d]
        /\ \A r \in Readings : written'[r] \in Nat /\ written'[r] >= written[r]
        /\ written'[FrameOf(c, s)] > 0
    BY <1>2, WritesFrame
  <2>2. wire[c] \in Seq(Numbers(c))
    BY DEF BenchTypes
  <2> HIDE DEF s
  <2>3. \A n : Carries(wire'[c], n) <=> Carries(wire[c], n) \/ n = s
    BY <2>1, <2>2, AppendCarries
  <2>4. UNCHANGED <<vars, got>>
    BY <1>2 DEF DeviceWrites
  <2>5. \A d \in Conns : \A n \in Numbers(d) : Carries(wire'[d], n) => written'[FrameOf(d, n)] > 0
    <3>1. SUFFICES ASSUME NEW d \in Conns, NEW n \in Numbers(d), Carries(wire'[d], n)
                   PROVE  written'[FrameOf(d, n)] > 0
      OBVIOUS
    <3>2. CASE d = c /\ n = s
      BY <2>1, <3>2
    <3>3. CASE Carries(wire[d], n)
      <4>1. written[FrameOf(d, n)] > 0 /\ FrameOf(d, n) \in Readings
        BY <3>3, FrameFacts DEF SourceInv
      <4> QED
        BY <1>1, <2>1, <4>1
    <3> QED
      BY <2>1, <2>3, <3>1, <3>2, <3>3
  <2>6. \A r \in Readings : admits'[r] > 0 => written'[r] > 0
    BY <1>1, <2>1, <2>4 DEF SourceInv, vars
  <2> QED
    BY <2>4, <2>5, <2>6 DEF SourceInv, vars, Numbers
<1>3. ASSUME NEW c \in Conns, HandlerReads(c) PROVE SourceInv'
  <2> DEFINE s == Head(wire[c])
             f == FrameOf(c, s)
  <2>1. /\ wire[c] # << >> /\ s \in Numbers(c) /\ wire'[c] = Tail(wire[c])
        /\ \A d \in Conns : d # c => wire'[d] = wire[d]
        /\ f \in Readings /\ Receive(c, f)
        /\ UNCHANGED <<written, got>>
    BY <1>3, ReadsFrame
  <2>2. wire[c] \in Seq(Numbers(c))
    BY DEF BenchTypes
  <2>3. Carries(wire[c], s) /\ \A n : Carries(wire'[c], n) => Carries(wire[c], n)
    BY <2>1, <2>2, TailCarries
  <2>4. written[f] > 0
    BY <2>1, <2>3 DEF SourceInv
  <2> HIDE DEF s, f
  <2>5. \A r \in Readings : r # f => admits'[r] = admits[r]
    BY <2>1, FrameAdmitted
  <2>6. \A r \in Readings : admits'[r] > 0 => written'[r] > 0
    BY <2>1, <2>4, <2>5 DEF SourceInv
  <2>7. \A d \in Conns : \A n \in Numbers(d) : Carries(wire'[d], n) => written'[FrameOf(d, n)] > 0
    BY <2>1, <2>3 DEF SourceInv
  <2>8. \A r \in Readings : got'[r] <= topic'[r]
    BY <1>1, <2>1 DEF SourceInv
  <2> QED
    BY <2>6, <2>7, <2>8 DEF SourceInv, Numbers
<1>4. CASE GatewayStep \/ OutageEnds
  <2>1. UNCHANGED <<admits, written, wire, got>>
    BY <1>4, OthersAdmitNone DEF benchVars
  <2> QED
    BY <1>1, <2>1 DEF SourceInv, Numbers
<1>5. CASE MainMoves
  <2>1. UNCHANGED <<admits, written, wire, topic>>
    BY <1>5 DEF MainMoves, vars
  <2>2. \A r \in Readings : got'[r] <= topic[r]
    BY <1>1, <1>5 DEF MainMoves, SourceInv
  <2> QED
    BY <2>1, <2>2 DEF SourceInv, Numbers
<1> QED
  BY <1>2, <1>3, <1>4, <1>5, BenchCases

LEMMA CountedInvKept ==
  ASSUME Types, BenchTypes, CountedInv, [BenchNext]_allVars
  PROVE  CountedInv'
<1>1. bench' = bench
  BY BenchCases, ReadsFrame, OthersAdmitNone DEF DeviceWrites, MainMoves, benchVars
<1>2. SUFFICES ASSUME bench = "outage"
               PROVE  /\ \A c \in Conns :
                           /\ Distinct(wire'[c]) /\ Distinct(toSend'[c])
                           /\ \A s \in Numbers(c) : Carries(wire'[c], s) => ~Carries(toSend'[c], s)
                           /\ \A s \in Numbers(c) :
                                Carries(wire'[c], s) \/ Carries(toSend'[c], s) => admits'[FrameOf(c, s)] = 0
                      /\ \A r \in Readings : admits'[r] <= 1
  BY <1>1 DEF CountedInv, Numbers, Distinct, Carries
<1>3. \A c \in Conns : wire[c] \in Seq(Numbers(c)) /\ toSend[c] \in Seq(Numbers(c))
  BY DEF BenchTypes
<1>4. ASSUME NEW c \in Conns, DeviceWrites(c)
      PROVE  /\ admits' = admits
             /\ \A d \in Conns : d # c => wire'[d] = wire[d] /\ toSend'[d] = toSend[d]
             /\ Distinct(wire'[c]) /\ Distinct(toSend'[c])
             /\ \A s \in Numbers(c) : Carries(wire'[c], s) => ~Carries(toSend'[c], s)
             /\ \A s \in Numbers(c) :
                  Carries(wire'[c], s) \/ Carries(toSend'[c], s) => Carries(wire[c], s) \/ Carries(toSend[c], s)
  <2> DEFINE x == Head(toSend[c])
  <2>1. /\ toSend[c] # << >> /\ x \in Numbers(c)
        /\ toSend'[c] = Tail(toSend[c]) /\ wire'[c] = Append(wire[c], x)
        /\ \A d \in Conns : d # c => wire'[d] = wire[d] /\ toSend'[d] = toSend[d]
    BY <1>4, WritesFrame
  <2>2. /\ Carries(toSend[c], x) /\ \A n : Carries(toSend'[c], n) => Carries(toSend[c], n)
        /\ Distinct(toSend'[c]) /\ ~Carries(toSend'[c], x)
    BY <1>2, <1>3, <2>1, TailCarries DEF CountedInv
  <2> HIDE DEF x
  <2>3. ~Carries(wire[c], x)
    BY <1>2, <2>1, <2>2 DEF CountedInv
  <2>4. /\ \A n : Carries(wire'[c], n) <=> Carries(wire[c], n) \/ n = x
        /\ Distinct(wire'[c])
    BY <1>2, <1>3, <2>1, <2>3, AppendCarries DEF CountedInv
  <2>5. \A s \in Numbers(c) : Carries(wire'[c], s) => ~Carries(toSend'[c], s)
    BY <1>2, <2>2, <2>4 DEF CountedInv
  <2>6. \A s \in Numbers(c) :
          Carries(wire'[c], s) \/ Carries(toSend'[c], s) => Carries(wire[c], s) \/ Carries(toSend[c], s)
    BY <2>2, <2>4
  <2>7. admits' = admits
    BY <1>4 DEF DeviceWrites, vars
  <2> QED
    BY <2>1, <2>2, <2>4, <2>5, <2>6, <2>7
<1>5. ASSUME NEW c \in Conns, HandlerReads(c)
      PROVE  /\ \A d \in Conns :
                  /\ Distinct(wire'[d]) /\ Distinct(toSend'[d])
                  /\ \A s \in Numbers(d) : Carries(wire'[d], s) => ~Carries(toSend'[d], s)
                  /\ \A s \in Numbers(d) :
                       Carries(wire'[d], s) \/ Carries(toSend'[d], s) => admits'[FrameOf(d, s)] = 0
             /\ \A r \in Readings : admits'[r] <= 1
  <2> DEFINE x == Head(wire[c])
             f == FrameOf(c, x)
  <2>1. /\ wire[c] # << >> /\ x \in Numbers(c) /\ wire'[c] = Tail(wire[c])
        /\ \A d \in Conns : d # c => wire'[d] = wire[d]
        /\ f \in Readings /\ Receive(c, f)
        /\ toSend' = toSend
    BY <1>5, ReadsFrame
  <2>2. /\ Carries(wire[c], x) /\ \A n : Carries(wire'[c], n) => Carries(wire[c], n)
        /\ Distinct(wire'[c]) /\ ~Carries(wire'[c], x)
    BY <1>2, <1>3, <2>1, TailCarries DEF CountedInv
  <2>3. ~Carries(toSend[c], x) /\ admits[f] = 0
    BY <1>2, <2>1, <2>2 DEF CountedInv
  <2>4. /\ \A r \in Readings : r # f => admits'[r] = admits[r]
        /\ admits'[f] \in {admits[f], admits[f] + 1}
    BY <2>1, FrameAdmitted
  <2>5. \A d \in Conns : \A s \in Numbers(d) : FrameOf(d, s) \in Readings /\ (FrameOf(d, s) = f => d = c /\ s = x)
    <3>1. SUFFICES ASSUME NEW d \in Conns, NEW s \in Numbers(d)
                   PROVE  FrameOf(d, s) \in Readings /\ (FrameOf(d, s) = f => d = c /\ s = x)
      OBVIOUS
    <3>2. /\ FrameOf(d, s) \in Readings /\ Dev(FrameOf(d, s)) = DeviceOf[d] /\ SeqNo(FrameOf(d, s)) = s
          /\ \A e \in Conns : e # d => DeviceOf[e] # DeviceOf[d]
      BY FrameFacts
    <3>3. Dev(f) = DeviceOf[c] /\ SeqNo(f) = x
      BY <2>1, FrameFacts
    <3> HIDE DEF f, x
    <3> QED
      BY <3>2, <3>3
  <2> HIDE DEF x, f
  <2>6. \A d \in Conns : \A s \in Numbers(d) :
          Carries(wire'[d], s) \/ Carries(toSend'[d], s) => admits'[FrameOf(d, s)] = 0
    <3>1. SUFFICES ASSUME NEW d \in Conns, NEW s \in Numbers(d), Carries(wire'[d], s) \/ Carries(toSend'[d], s)
                   PROVE  admits'[FrameOf(d, s)] = 0
      OBVIOUS
    <3>2. Carries(wire[d], s) \/ Carries(toSend[d], s)
      BY <2>1, <2>2, <3>1
    <3>3. ~(d = c /\ s = x)
      BY <2>1, <2>2, <2>3, <3>1
    <3>4. FrameOf(d, s) \in Readings /\ FrameOf(d, s) # f
      BY <2>5, <3>3
    <3>5. admits[FrameOf(d, s)] = 0
      BY <1>2, <3>2 DEF CountedInv
    <3> QED
      BY <2>4, <3>4, <3>5
  <2>7. \A r \in Readings : admits'[r] <= 1
    BY <1>2, <2>3, <2>4 DEF CountedInv
  <2>8. \A d \in Conns :
          /\ Distinct(wire'[d]) /\ Distinct(toSend'[d])
          /\ \A s \in Numbers(d) : Carries(wire'[d], s) => ~Carries(toSend'[d], s)
    BY <1>2, <2>1, <2>2 DEF CountedInv
  <2> QED
    BY <2>6, <2>7, <2>8
<1>6. CASE (GatewayStep \/ OutageEnds) \/ MainMoves
  <2>1. UNCHANGED <<admits, wire, toSend>>
    BY <1>6, OthersAdmitNone DEF benchVars, MainMoves, vars
  <2> QED
    BY <1>2, <2>1 DEF CountedInv
<1>7. ASSUME NEW c \in Conns, DeviceWrites(c)
      PROVE  /\ \A d \in Conns :
                  /\ Distinct(wire'[d]) /\ Distinct(toSend'[d])
                  /\ \A s \in Numbers(d) : Carries(wire'[d], s) => ~Carries(toSend'[d], s)
                  /\ \A s \in Numbers(d) :
                       Carries(wire'[d], s) \/ Carries(toSend'[d], s) => admits'[FrameOf(d, s)] = 0
             /\ \A r \in Readings : admits'[r] <= 1
  BY <1>2, <1>4, <1>7 DEF CountedInv
<1> QED
  BY <1>5, <1>6, <1>7, BenchCases

LEMMA FittingInvKept ==
  ASSUME Types, BenchTypes, FittingInv, [BenchNext]_allVars
  PROVE  FittingInv'
<1>1. SUFFICES ASSUME FitsCap
               PROVE  /\ \A d \in Devices : seen'[d].set \subseteq 1 .. PerDevice[d]
                      /\ SeenWhole'
                      /\ \A r \in Readings : admits'[r] <= (IF Remembered(r)' THEN 1 ELSE 0)
  BY DEF FittingInv, FitsCap
<1>2. /\ \A d \in Devices : seen[d].set \subseteq 1 .. PerDevice[d]
      /\ SeenWhole
      /\ \A r \in Readings : admits[r] \in Nat /\ admits[r] <= (IF Remembered(r) THEN 1 ELSE 0)
  BY <1>1 DEF FittingInv, Types
<1>3. CASE UNCHANGED <<seen, admits>>
  BY <1>2, <1>3 DEF SeenWhole, Remembered
<1>4. ASSUME NEW c \in Conns, HandlerReads(c), ~UNCHANGED <<seen, admits>>
      PROVE  /\ \A d \in Devices : seen'[d].set \subseteq 1 .. PerDevice[d]
             /\ SeenWhole'
             /\ \A r \in Readings : admits'[r] <= (IF Remembered(r)' THEN 1 ELSE 0)
  <2> DEFINE d == DeviceOf[c]
             S == 1 .. PerDevice[d]
  <2>0. Head(wire[c]) \in Numbers(c) /\ FrameOf(c, Head(wire[c])) \in Readings
    BY <1>4, ReadsFrame
  <2>1. PICK f \in Readings : f = FrameOf(c, Head(wire[c])) /\ Receive(c, f)
    BY <1>4, <2>0, ReadsFrame
  <2>2. Dev(f) = d /\ SeqNo(f) \in S /\ d \in Devices
    BY <2>0, <2>1, FrameFacts DEF Numbers
  <2>3. S \in SUBSET SeqNos /\ IsFiniteSet(S) /\ Cardinality(S) <= MaxSequencesPerDevice
    <3>1. PerDevice[d] \in Nat /\ PerDevice[d] <= MaxSequencesPerDevice /\ S \subseteq SeqNos
      BY <1>1, <2>2, BenchAssumption DEF FitsCap
    <3>2. \A n \in Nat : IsFiniteSet(1 .. n) /\ Cardinality(1 .. n) = n
      BY FS_Interval
    <3> HIDE DEF d
    <3> QED
      BY <3>1, <3>2
  <2> HIDE DEF d
  <2>4. /\ admits'[f] = admits[f] + 1
        /\ \A q \in Readings : q # f => admits'[q] = admits[q]
        /\ SeqNo(f) \notin seen[d].set
        /\ seen'[d] = Remember(seen[d], SeqNo(f))
        /\ \A e \in Devices : e # d => seen'[e] = seen[e]
    BY <1>4, <2>1, <2>2, FrameAdmitted
  <2>5. seen[d] \in DeviceSeen /\ Len(seen[d].order) = Cardinality(seen[d].set) /\ seen[d].set \subseteq S
    BY <1>2, <2>2 DEF Types, DeviceSeen, SeenWhole
  <2> HIDE DEF S
  <2>6. /\ Remember(seen[d], SeqNo(f)).set = seen[d].set \cup {SeqNo(f)}
        /\ Len(Remember(seen[d], SeqNo(f)).order) = Cardinality(seen[d].set \cup {SeqNo(f)})
    BY <2>2, <2>3, <2>4, <2>5, RememberWithinCap
  <2>7. seen'[d].set \subseteq S
    BY <2>2, <2>4, <2>5, <2>6
  <2>8. \A e \in Devices : seen'[e].set \subseteq 1 .. PerDevice[e]
    BY <1>2, <2>4, <2>7 DEF S
  <2>9. SeenWhole'
    BY <1>2, <2>4, <2>6 DEF SeenWhole
  <2>10. ~Remembered(f) /\ Remembered(f)' /\ \A q \in Readings : Remembered(q) => Remembered(q)'
    <3>1. \A e \in Devices : seen[e].set \subseteq seen'[e].set
      BY <2>4, <2>6
    <3>2. \A q \in Readings : Dev(q) \in Devices
      BY DeviceAndNumber
    <3>3. ~Remembered(f)
      BY <2>2, <2>4 DEF Remembered
    <3>4. Remembered(f)'
      BY <2>2, <2>4, <2>6 DEF Remembered
    <3>5. \A q \in Readings : Remembered(q) => Remembered(q)'
      BY <3>1, <3>2 DEF Remembered
    <3> QED
      BY <3>3, <3>4, <3>5
  <2>11. ASSUME NEW q \in Readings PROVE admits'[q] <= (IF Remembered(q)' THEN 1 ELSE 0)
    <3>1. CASE q = f
      <4>1. admits[f] <= 0 /\ admits[f] \in Nat
        BY <1>2, <2>1, <2>10
      <4> QED
        BY <2>4, <2>10, <3>1, <4>1
    <3>2. CASE q # f
      BY <1>2, <2>4, <2>10, <3>2
    <3> QED
      BY <3>1, <3>2
  <2> QED
    BY <2>8, <2>9, <2>11
<1>5. ASSUME (GatewayStep \/ OutageEnds) \/ MainMoves \/ \E c \in Conns : DeviceWrites(c)
      PROVE  UNCHANGED <<seen, admits>>
  BY <1>5, OthersAdmitNone DEF MainMoves, DeviceWrites, vars
<1> QED
  BY <1>3, <1>4, <1>5, BenchCases

\* What both verdicts rest on.
VerdictInv ==
  /\ Types /\ BenchTypes
  /\ HandlersFinite /\ (~leftover => NoExtraCopies)
  /\ SourceInv /\ CountedInv /\ FittingInv

LEMMA BenchInitTypes == BenchInit => Types /\ BenchTypes
<1> SUFFICES ASSUME BenchInit PROVE Types /\ BenchTypes
  OBVIOUS
<1>1. file \in Seq(Readings \cup {Torn})
  <2>1. \A x \in Readings : <<x>> \in Seq(Readings \cup {Torn})
    OBVIOUS
  <2>2. << >> \in Seq(Readings \cup {Torn})
    OBVIOUS
  <2> QED
    BY <2>1, <2>2 DEF BenchInit
<1>2. Types
  <2>1. NewDeviceSeen \in [set : SUBSET SeqNos, order : Seq(SeqNos)]
    BY DEF NewDeviceSeen
  <2>2. None \in [Readings -> Nat]
    BY DEF None
  <2>3. << >> \in Seq([pc : {"queued", "produce", "spill", "done"}, r : Readings])
    OBVIOUS
  <2>4. brokerUp \in BOOLEAN
    BY DEF BenchInit
  <2> QED
    BY <1>1, <2>1, <2>2, <2>3, <2>4 DEF BenchInit, Types
<1>3. \A c \in Conns : toSend[c] \in Seq(Numbers(c))
  <2>1. SUFFICES ASSUME NEW c \in Conns PROVE toSend[c] \in Seq(Numbers(c))
    OBVIOUS
  <2>2. toSend[c] \in Deliveries(DeviceOf[c])
    BY DEF BenchInit
  <2>3. PerDevice[DeviceOf[c]] \in Nat
    BY BenchAssumption
  <2>4. ASSUME NEW n \in 0 .. PerDevice[DeviceOf[c]] PROVE [i \in 1 .. n |-> i] \in Seq(Numbers(c))
    <3>1. n \in Nat /\ \A i \in 1 .. n : i \in Numbers(c)
      BY <2>3 DEF Numbers
    <3>2. [i \in 1 .. n |-> i] \in [1 .. n -> Numbers(c)]
      BY <3>1
    <3> QED
      BY <3>1, <3>2
  <2>5. ASSUME NEW n \in PerDevice[DeviceOf[c]] .. PerDevice[DeviceOf[c]] + MaxDuplicates,
               NEW s \in [1 .. n -> 1 .. PerDevice[DeviceOf[c]]]
        PROVE  s \in Seq(Numbers(c))
    <3>1. n \in Nat
      BY <2>3, BenchAssumption
    <3>2. s \in [1 .. n -> Numbers(c)]
      BY DEF Numbers
    <3> QED
      BY <3>1, <3>2
  <2> QED
    BY <2>2, <2>4, <2>5 DEF Deliveries, Counted, Shuffled
<1>4. DOMAIN toSend = Conns
  BY DEF BenchInit
<1>5. \A c \in Conns : wire[c] \in Seq(Numbers(c))
  <2>1. \A c \in Conns : << >> \in Seq(Numbers(c))
    OBVIOUS
  <2> QED
    BY <2>1 DEF BenchInit
<1>6. DOMAIN wire = Conns /\ written \in [Readings -> Nat] /\ got \in [Readings -> Nat]
  BY DEF BenchInit, None
<1> QED
  BY <1>2, <1>3, <1>4, <1>5, <1>6 DEF BenchInit, BenchTypes

LEMMA BenchInitVerdictInv == BenchInit => VerdictInv
<1> SUFFICES ASSUME BenchInit PROVE VerdictInv
  OBVIOUS
<1>1. Types /\ BenchTypes
  BY BenchInitTypes
<1>2. \A r \in Readings : /\ admits[r] = 0 /\ topic[r] = 0 /\ late[r] = 0 /\ got[r] = 0
                          /\ Handling(r) = {} /\ Retried(r) = {} /\ (~leftover => Spooled(r) = {})
  <2>1. ASSUME NEW r \in Readings
        PROVE  /\ admits[r] = 0 /\ topic[r] = 0 /\ late[r] = 0 /\ got[r] = 0
               /\ Handling(r) = {}
    BY DEF BenchInit, None, Handling
  <2>2. batch = << >> /\ DOMAIN << >> = {} /\ (~leftover => file = << >>)
    <3>1. batch = << >> /\ leftover = (file # << >>)
      BY DEF BenchInit
    <3>2. DOMAIN << >> = {}
      OBVIOUS
    <3> QED
      BY <3>1, <3>2
  <2>3. ASSUME NEW r \in Readings PROVE Retried(r) = {} /\ (~leftover => Spooled(r) = {})
    BY <2>2 DEF Retried, RetriesOf, Spooled, RecordsOf
  <2> QED
    BY <2>1, <2>3
<1>3. HandlersFinite
  BY <1>2, FS_EmptySet DEF HandlersFinite
<1>4. ASSUME ~leftover PROVE NoExtraCopies
  <2>1. \A r \in Readings : Copies(r) = 0
    BY <1>1, <1>2, <1>3, <1>4, CopiesAre, FS_EmptySet
  <2>2. used["timeouts"] = 0
    BY DEF BenchInit, Kinds
  <2> QED
    BY <1>2, <2>1, <2>2 DEF NoExtraCopies
<1>5. \A c \in Conns : wire[c] = << >> /\ Distinct(wire[c]) /\ \A s : ~Carries(wire[c], s)
  BY DEF BenchInit, Distinct, Carries
<1>6. SourceInv
  BY <1>2, <1>5 DEF SourceInv
<1>7. CountedInv
  <2>1. SUFFICES ASSUME bench = "outage", NEW c \in Conns
                 PROVE  Distinct(toSend[c]) /\ \A s \in Numbers(c) : admits[FrameOf(c, s)] = 0
    BY <1>2, <1>5 DEF CountedInv
  <2>2. PICK n \in 0 .. PerDevice[DeviceOf[c]] : toSend[c] = [i \in 1 .. n |-> i]
    BY <2>1 DEF BenchInit, Deliveries, Counted
  <2>3. Distinct(toSend[c])
    BY <2>2 DEF Distinct
  <2> QED
    BY <1>2, <2>3, FrameFacts
<1>8. FittingInv
  <2>1. \A d \in Devices : seen[d].set = {} /\ seen[d].order = << >>
    BY DEF BenchInit, NewDeviceSeen
  <2>2. Len(<< >>) = 0 /\ Cardinality({}) = 0
    BY FS_EmptySet
  <2>3. \A r \in Readings : ~Remembered(r)
    BY <2>1, DeviceAndNumber DEF Remembered
  <2>4. SeenWhole
    BY <2>1, <2>2 DEF SeenWhole
  <2> QED
    BY <1>2, <2>1, <2>3, <2>4 DEF FittingInv
<1> QED
  BY <1>1, <1>3, <1>4, <1>6, <1>7, <1>8 DEF VerdictInv

LEMMA VerdictInvKept == VerdictInv /\ [BenchNext]_allVars => VerdictInv'
<1> SUFFICES ASSUME VerdictInv, [BenchNext]_allVars PROVE VerdictInv'
  OBVIOUS
<1>1. [Next]_vars
  BY BenchIsGateway DEF VerdictInv
<1>2. Types' /\ BenchTypes' /\ HandlersFinite'
  BY <1>1, NextTypes, BenchTypesKept, HandlersStayFinite DEF VerdictInv
<1>3. leftover' = leftover
  BY BenchCases, ReadsFrame, OthersAdmitNone DEF VerdictInv, DeviceWrites, MainMoves, benchVars
<1>4. ~leftover => NoExtraCopies'
  BY <1>1, NextCopiesInv DEF VerdictInv, CopiesInv
<1>5. SourceInv' /\ CountedInv' /\ FittingInv'
  BY SourceInvKept, CountedInvKept, FittingInvKept DEF VerdictInv
<1> QED
  BY <1>2, <1>3, <1>4, <1>5 DEF VerdictInv

\* Without a resend and with an empty spool file to start from, no more of a
\* reading comes back than was written, where the dedup admits it once.
LEMMA ReadBackBound ==
  ASSUME VerdictInv, ~leftover, used["timeouts"] = 0, bench = "outage" \/ FitsCap, NEW r \in Readings
  PROVE  got[r] <= 1 /\ got[r] <= written[r]
<1>1. /\ got[r] \in Nat /\ topic[r] \in Nat /\ late[r] \in Nat /\ admits[r] \in Nat /\ written[r] \in Nat
      /\ Copies(r) \in Nat
  <2>1. Types /\ BenchTypes /\ HandlersFinite
    BY DEF VerdictInv
  <2>2. Copies(r) \in Nat
    BY <2>1, CopiesAre
  <2>3. /\ got[r] \in Nat /\ topic[r] \in Nat /\ late[r] \in Nat /\ admits[r] \in Nat
        /\ written[r] \in Nat
    BY <2>1 DEF Types, BenchTypes
  <2> QED
    BY <2>2, <2>3
<1>2. topic[r] + late[r] + Copies(r) <= admits[r]
  BY <1>1 DEF VerdictInv, NoExtraCopies
<1>3. got[r] <= topic[r] /\ (admits[r] > 0 => written[r] > 0)
  BY DEF VerdictInv, SourceInv
<1>4. admits[r] <= 1
  <2>1. CASE bench = "outage"
    BY <2>1 DEF VerdictInv, CountedInv
  <2>2. CASE FitsCap
    <3>1. admits[r] <= (IF Remembered(r) THEN 1 ELSE 0)
      BY <2>2 DEF VerdictInv, FittingInv
    <3> QED
      BY <1>1, <3>1
  <2> QED
    BY <2>1, <2>2
<1> QED
  BY <1>1, <1>2, <1>3, <1>4

\* On a sound disk, and for devices that send each number once or no more
\* numbers than their record in the dedup holds (MaxSequencesPerDevice): what
\* cmd/outagebench and cmd/loadgen call lost is on its way, and what they count
\* too often is a resend of the writer or a reading of an earlier run.
THEOREM LostIsOnItsWayHolds ==
  ASSUME Limit["faults"] = 0
  PROVE  BenchSpec => [](bench = "outage" \/ FitsCap => LostIsOnItsWay)
<1>1. BenchInit => VerdictInv /\ SafeInv
  <2> SUFFICES ASSUME BenchInit PROVE SafeInv
    BY BenchInitVerdictInv
  <2>1. used["faults"] = 0 /\ used["crashes"] = 0
    BY DEF BenchInit, Kinds
  <2>2. SoundSpool
    <3>1. \A i \in DOMAIN file : file[i] \in Readings
      BY DEF BenchInit
    <3> QED
      BY <3>1, TornIsNoReading DEF SoundSpool, Tears, BenchInit
  <2>3. RememberedIsSafe
    BY DeviceAndNumber DEF BenchInit, RememberedIsSafe, Remembered, NewDeviceSeen
  <2>4. \A r \in Readings : written[r] = 0
    BY DEF BenchInit, None
  <2> QED
    BY <2>1, <2>2, <2>3, <2>4 DEF SafeInv
<1>2. VerdictInv /\ SafeInv /\ [BenchNext]_allVars => (VerdictInv /\ SafeInv)'
  BY VerdictInvKept, SafeInvKept DEF VerdictInv
<1>3. VerdictInv /\ SafeInv => (bench = "outage" \/ FitsCap => LostIsOnItsWay)
  <2> SUFFICES ASSUME VerdictInv, SafeInv, bench = "outage" \/ FitsCap, NEW r \in Readings
               PROVE  /\ written[r] > 0 /\ got[r] = 0 => topic[r] > 0 \/ OnTheWire(r) \/ Held(r)
                      /\ got[r] > (IF written[r] > 0 THEN 1 ELSE 0) => used["timeouts"] > 0 \/ leftover
    BY DEF LostIsOnItsWay
  <2>1. written[r] > 0 => Safe(r) \/ OnTheWire(r)
    BY DEF SafeInv
  <2>2. used["timeouts"] \in Nat /\ got[r] \in Nat /\ written[r] \in Nat
    BY DEF VerdictInv, Types, BenchTypes, Kinds
  <2>3. CASE ~leftover /\ used["timeouts"] = 0
    <3>1. got[r] <= 1 /\ got[r] <= written[r]
      BY <2>3, ReadBackBound
    <3> QED
      BY <2>1, <2>2, <3>1 DEF Safe
  <2> QED
    BY <2>1, <2>2, <2>3 DEF Safe
<1> QED
  BY <1>1, <1>2, <1>3, PTL DEF BenchSpec

-----------------------------------------------------------------------------
(* Sums over a finite set, as MapThenSumSet adds them up.                  *)

\* Induction on finite sets, by a least counterexample.
LEMMA LeastSubset ==
  ASSUME NEW S, IsFiniteSet(S), NEW T, T \subseteq SUBSET S, T # {}
  PROVE  \E x \in T : \A y \in T : y \subseteq x => y = x
<1>1. IsWellFoundedOn(StrictSubsetOrdering(S), SUBSET S)
  BY FS_StrictSubsetOrderingWellFounded, FS_FiniteSubsetsOfFinite
<1>2. PICK x \in T : \A y \in T : ~(<<y, x>> \in StrictSubsetOrdering(S))
  BY <1>1, WFMin
<1> QED
  BY <1>2 DEF StrictSubsetOrdering

First(s) == CHOOSE x \in s : TRUE

\* g adds up t over the subsets of S, one element after the other.
Sums(t, S, g) ==
  g = [s \in SUBSET S |-> IF s = {} THEN 0 ELSE t[First(s)] + g[s \ {First(s)}]]

LEMMA SumsAt ==
  ASSUME NEW t, NEW S, NEW g, Sums(t, S, g), NEW s \in SUBSET S
  PROVE  /\ g[s] = IF s = {} THEN 0 ELSE t[First(s)] + g[s \ {First(s)}]
         /\ s # {} => First(s) \in s /\ s \ {First(s)} \in SUBSET S /\ s \ {First(s)} # s
<1>1. g[s] = IF s = {} THEN 0 ELSE t[First(s)] + g[s \ {First(s)}]
  BY DEF Sums
<1>2. s # {} => First(s) \in s
  BY DEF First
<1> QED
  BY <1>1, <1>2

\* Two such functions agree where both are defined.
LEMMA SumsAgree ==
  ASSUME NEW t, NEW S, IsFiniteSet(S), NEW T \in SUBSET S,
         NEW g, Sums(t, S, g), NEW h, Sums(t, T, h)
  PROVE  \A s \in SUBSET T : g[s] = h[s]
<1> DEFINE Bad == {s \in SUBSET T : g[s] # h[s]}
<1>1. SUFFICES ASSUME Bad # {} PROVE FALSE
  OBVIOUS
<1>2. IsFiniteSet(T) /\ Bad \subseteq SUBSET T
  BY FS_Subset
<1>3. PICK s \in Bad : \A y \in Bad : y \subseteq s => y = s
  <2> HIDE DEF Bad
  <2> QED
    BY <1>1, <1>2, LeastSubset
<1>4. s \in SUBSET T /\ s \in SUBSET S /\ g[s] # h[s]
  OBVIOUS
<1>5. /\ g[s] = IF s = {} THEN 0 ELSE t[First(s)] + g[s \ {First(s)}]
      /\ h[s] = IF s = {} THEN 0 ELSE t[First(s)] + h[s \ {First(s)}]
      /\ s # {} => First(s) \in s /\ s \ {First(s)} # s
  <2> HIDE DEF Bad
  <2>1. /\ g[s] = IF s = {} THEN 0 ELSE t[First(s)] + g[s \ {First(s)}]
        /\ s # {} => First(s) \in s /\ s \ {First(s)} # s
    BY <1>4, SumsAt
  <2>2. h[s] = IF s = {} THEN 0 ELSE t[First(s)] + h[s \ {First(s)}]
    BY <1>4, SumsAt
  <2> QED
    BY <2>1, <2>2
<1>6. s # {} /\ s \ {First(s)} \in SUBSET T /\ g[s \ {First(s)}] # h[s \ {First(s)}]
  BY <1>4, <1>5
<1> QED
  BY <1>3, <1>5, <1>6

LEMMA SumsExist ==
  ASSUME NEW t, NEW S, IsFiniteSet(S)
  PROVE  \E g : Sums(t, S, g)
<1> DEFINE Bad == {T \in SUBSET S : ~\E g : Sums(t, T, g)}
<1>1. SUFFICES ASSUME Bad # {} PROVE FALSE
  OBVIOUS
<1>2. Bad \subseteq SUBSET S
  OBVIOUS
<1>3. PICK T \in Bad : \A y \in Bad : y \subseteq T => y = T
  <2> HIDE DEF Bad
  <2> QED
    BY <1>1, <1>2, LeastSubset
<1>4. T \in SUBSET S /\ ~\E g : Sums(t, T, g)
  OBVIOUS
<1> DEFINE G(U) == CHOOSE g : Sums(t, U, g)
<1>5. \A U \in SUBSET T : U # T => Sums(t, U, G(U)) /\ IsFiniteSet(U)
  <2>1. SUFFICES ASSUME NEW U \in SUBSET T, U # T PROVE Sums(t, U, G(U)) /\ IsFiniteSet(U)
    OBVIOUS
  <2>2. U \in SUBSET S /\ U \notin Bad
    BY <1>3, <1>4, <2>1
  <2>3. \E g : Sums(t, U, g)
    BY <2>2
  <2> QED
    BY <2>2, <2>3, FS_Subset
<1> HIDE DEF G, Bad
<1> DEFINE h == [s \in SUBSET T |-> IF s = {} THEN 0 ELSE t[First(s)] + G(s \ {First(s)})[s \ {First(s)}]]
<1>6. ASSUME NEW r \in SUBSET T, r # T PROVE h[r] = G(r)[r]
  <2>1. G(r)[r] = IF r = {} THEN 0 ELSE t[First(r)] + G(r)[r \ {First(r)}]
    BY <1>5, <1>6, SumsAt
  <2>2. h[r] = IF r = {} THEN 0 ELSE t[First(r)] + G(r \ {First(r)})[r \ {First(r)}]
    OBVIOUS
  <2> HIDE DEF h
  <2>3. CASE r = {}
    BY <2>1, <2>2, <2>3
  <2>4. CASE r # {}
    <3> DEFINE q == r \ {First(r)}
    <3>1. First(r) \in r
      BY <2>4 DEF First
    <3>2. q \in SUBSET r /\ q \in SUBSET T /\ q # T
      BY <3>1
    <3> HIDE DEF q
    <3>3. \A s \in SUBSET q : G(r)[s] = G(q)[s]
      BY <1>5, <1>6, <3>2, SumsAgree
    <3>4. G(r)[q] = G(q)[q]
      BY <3>3
    <3> QED
      BY <2>1, <2>2, <2>4, <3>4 DEF q
  <2> QED
    BY <2>3, <2>4
<1>7. h = [s \in SUBSET T |-> IF s = {} THEN 0 ELSE t[First(s)] + h[s \ {First(s)}]]
  <2>1. ASSUME NEW s \in SUBSET T, s # {}
        PROVE  h[s] = t[First(s)] + h[s \ {First(s)}]
    <3>1. h[s] = t[First(s)] + G(s \ {First(s)})[s \ {First(s)}]
      BY <2>1
    <3> HIDE DEF h
    <3>2. First(s) \in s
      BY <2>1 DEF First
    <3>3. s \ {First(s)} \in SUBSET T /\ s \ {First(s)} # T
      BY <3>2
    <3> QED
      BY <1>6, <3>1, <3>3
  <2>2. h[{}] = 0
    OBVIOUS
  <2>3. h = [s \in SUBSET T |-> h[s]]
    OBVIOUS
  <2> HIDE DEF h
  <2>4. \A s \in SUBSET T : h[s] = IF s = {} THEN 0 ELSE t[First(s)] + h[s \ {First(s)}]
    BY <2>1, <2>2
  <2> QED
    BY <2>3, <2>4
<1> HIDE DEF h
<1> QED
  BY <1>4, <1>7 DEF Sums

LEMMA TotalIs ==
  ASSUME NEW t, IsFiniteSet(Readings)
  PROVE  \E g : Sums(t, Readings, g) /\ Total(t) = g[Readings]
<1>1. Total(t) = (CHOOSE g : Sums(t, Readings, g))[Readings]
  BY DEF Total, MapThenSumSet, MapThenFoldSet, Sums, First
<1>2. Sums(t, Readings, CHOOSE g : Sums(t, Readings, g))
  BY SumsExist
<1> QED
  BY <1>1, <1>2

\* A sum of numbers is a number.
LEMMA SumsOfNumbers ==
  ASSUME NEW t, NEW S, IsFiniteSet(S), \A i \in S : t[i] \in Nat, NEW g, Sums(t, S, g)
  PROVE  g[S] \in Nat
<1> DEFINE Fits(s) == g[s] \in Nat
           Bad == {s \in SUBSET S : ~Fits(s)}
<1>2. SUFFICES ASSUME Bad # {} PROVE FALSE
  OBVIOUS
<1>3. Bad \subseteq SUBSET S
  OBVIOUS
<1>4. PICK s \in Bad : \A y \in Bad : y \subseteq s => y = s
  <2> HIDE DEF Bad
  <2> QED
    BY <1>2, <1>3, LeastSubset
<1>5. s \in SUBSET S /\ ~Fits(s)
  OBVIOUS
<1> DEFINE x == First(s)
           r == s \ {x}
<1>6. /\ g[s] = IF s = {} THEN 0 ELSE t[x] + g[r]
      /\ s # {} => x \in s /\ r \in SUBSET S /\ r # s
  <2> HIDE DEF Bad, Fits
  <2> QED
    BY <1>5, SumsAt
<1>7. s # {}
  BY <1>5, <1>6
<1>8. Fits(r)
  <2>1. r \notin Bad
    <3> HIDE DEF Bad, Fits
    <3> QED
      BY <1>4, <1>6, <1>7
  <2> QED
    BY <1>6, <1>7, <2>1
<1> HIDE DEF Bad, x
<1>9. t[x] \in Nat /\ g[r] \in Nat /\ g[s] = t[x] + g[r] /\ s = r \cup {x}
  BY <1>5, <1>6, <1>7, <1>8
<1>10. g[s] \in Nat
  BY <1>9
<1> QED
  BY <1>5, <1>10

\* Of two sums that are equal, term by term the one cannot be the smaller.
LEMMA EqualSums ==
  ASSUME NEW S, IsFiniteSet(S), NEW t, NEW u, \A i \in S : t[i] \in Nat /\ u[i] \in Nat /\ t[i] <= u[i],
         NEW g, Sums(t, S, g), NEW h, Sums(u, S, h), g[S] = h[S]
  PROVE  \A i \in S : t[i] = u[i]
<1> DEFINE Fits(s) == /\ g[s] \in Nat /\ h[s] \in Nat /\ g[s] <= h[s]
                      /\ g[s] = h[s] => \A i \in s : t[i] = u[i]
           Bad == {s \in SUBSET S : ~Fits(s)}
<1>1. SUFFICES ASSUME Bad # {} PROVE FALSE
  <2>1. S \in SUBSET S
    OBVIOUS
  <2> QED
    BY <2>1
<1>2. Bad \subseteq SUBSET S
  OBVIOUS
<1>3. PICK s \in Bad : \A y \in Bad : y \subseteq s => y = s
  <2> HIDE DEF Bad
  <2> QED
    BY <1>1, <1>2, LeastSubset
<1>4. s \in SUBSET S /\ ~Fits(s)
  OBVIOUS
<1> DEFINE x == First(s)
           r == s \ {x}
<1>5. /\ g[s] = IF s = {} THEN 0 ELSE t[x] + g[r]
      /\ s # {} => x \in s /\ r \in SUBSET S /\ r # s
  <2> HIDE DEF Bad, Fits
  <2> QED
    BY <1>4, SumsAt
<1>6. h[s] = IF s = {} THEN 0 ELSE u[x] + h[r]
  <2> HIDE DEF Bad, Fits
  <2> QED
    BY <1>4, SumsAt
<1>7. s # {}
  BY <1>4, <1>5, <1>6
<1>8. Fits(r)
  <2>1. r \notin Bad
    <3> HIDE DEF Bad, Fits
    <3> QED
      BY <1>3, <1>5, <1>7
  <2> QED
    BY <1>5, <1>7, <2>1
<1>9. x \in S /\ s = r \cup {x}
  <2> HIDE DEF Bad, Fits, x
  <2> QED
    BY <1>4, <1>5, <1>7
<1> HIDE DEF Bad, x, r
<1>10. /\ t[x] \in Nat /\ u[x] \in Nat /\ t[x] <= u[x]
       /\ g[s] = t[x] + g[r] /\ h[s] = u[x] + h[r]
  BY <1>5, <1>6, <1>7, <1>9
<1>11. /\ g[s] \in Nat /\ h[s] \in Nat /\ g[s] <= h[s]
       /\ g[s] = h[s] => t[x] = u[x] /\ g[r] = h[r]
  BY <1>8, <1>10
<1>12. g[s] = h[s] => \A i \in s : t[i] = u[i]
  BY <1>8, <1>9, <1>11
<1> QED
  BY <1>4, <1>11, <1>12

\* A good result of cmd/outagebench or cmd/loadgen: every reading that was sent
\* is in the topic.  In the outage benchmark, where only numbers are compared
\* (sentCount - len(got)), that needs that there was no resend and nothing was
\* left over in the spool file: then no reading can stand in for another one.
THEOREM GoodMeansLandedHolds ==
  ASSUME IsFiniteSet(Readings)
  PROVE  BenchSpec => []GoodMeansLanded
<1>1. VerdictInv => GoodMeansLanded
  <2>1. SUFFICES ASSUME VerdictInv, Good, bench # "outage" \/ (used["timeouts"] = 0 /\ ~leftover),
                        NEW r \in Readings, written[r] > 0
                 PROVE  topic[r] > 0
    <3>1. used["timeouts"] \in Nat \/ ~VerdictInv
      BY DEF VerdictInv, Types, Kinds
    <3> QED
      BY <3>1 DEF GoodMeansLanded
  <2>2. /\ \A q \in Readings : got[q] \in Nat /\ written[q] \in Nat /\ topic[q] \in Nat
        /\ got[r] <= topic[r]
    BY <2>1 DEF VerdictInv, Types, BenchTypes, SourceInv
  <2>3. CASE bench # "outage"
    BY <2>1, <2>2, <2>3 DEF Good, match
  <2>4. CASE bench = "outage"
    <3>1. \A q \in Readings : got[q] <= written[q]
      BY <2>1, <2>4, ReadBackBound
    <3>2. PICK g : Sums(got, Readings, g) /\ Total(got) = g[Readings]
      BY TotalIs
    <3>3. PICK h : Sums(written, Readings, h) /\ Total(written) = h[Readings]
      BY TotalIs
    <3>4. g[Readings] = h[Readings]
      <4>1. h[Readings] - g[Readings] = 0
        BY <2>1, <2>4, <3>2, <3>3 DEF Good, lost
      <4>2. g[Readings] \in Nat /\ h[Readings] \in Nat
        BY <2>2, <3>2, <3>3, SumsOfNumbers
      <4> QED
        BY <4>1, <4>2
    <3>5. \A q \in Readings : got[q] = written[q]
      BY <2>2, <3>1, <3>2, <3>3, <3>4, EqualSums
    <3> QED
      BY <2>1, <2>2, <3>5
  <2> QED
    BY <2>3, <2>4
<1> QED
  BY <1>1, BenchInitVerdictInv, VerdictInvKept, PTL DEF BenchSpec

=============================================================================
