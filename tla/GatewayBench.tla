----------------------------- MODULE GatewayBench ------------------------------
(***************************************************************************)
(* cmd/outagebench and cmd/loadgen: simulated devices, each with a         *)
(* connection of its own, send readings through the gateway; then the      *)
(* topic is read back and compared with what was sent.  outagebench        *)
(* refuses every produce until its outage is over, waits for an empty      *)
(* spool file and compares numbers; loadgen sends readings in any order    *)
(* and some again, sleeps, and compares the readings.                      *)
(*                                                                         *)
(* The disk is sound and the process lives.  A partition is the readings   *)
(* of a device; the read-back takes all of it.                             *)
(***************************************************************************)
EXTENDS Gateway, Integers, FiniteSetsExt

CONSTANTS
  DeviceOf,      \* the device behind a connection
  PerDevice,     \* readings of a device; the outage may stop it earlier
  MaxDuplicates  \* bound of the model: repetitions in a device's delivery

ASSUME BenchAssumption ==
  /\ DeviceOf \in [Conns -> Devices]
  /\ \A d \in Devices : \E c \in Conns : {x \in Conns : DeviceOf[x] = d} = {c}
  /\ PerDevice \in [Devices -> Nat] /\ \A d \in Devices : 1 .. PerDevice[d] \subseteq SeqNos
  /\ MaxDuplicates \in Nat

VARIABLES
  bench,       \* "outage" or "replay"
  main,        \* "send", "wait", "read", "done"
  toSend,      \* toSend[c]: what the device of c has not written yet
  wire,        \* wire[c]: frames written and not yet read by the handler
  written,     \* written[r]: how often r was written
  unread,      \* devices whose partition was not read back yet
  got,         \* got[r]: copies of r read back
  leftover     \* auxiliary: the spool file of an earlier run was not empty

benchVars == <<bench, main, toSend, wire, written, unread, got, leftover>>
allVars == <<vars, benchVars>>

\* The device's loop counts up until its time is over.
Counted(d) == {[i \in 1 .. n |-> i] : n \in 0 .. PerDevice[d]}

\* BuildReplayCorpus: every reading, some again, shuffled.
Shuffled(d) ==
  {s \in UNION {[1 .. n -> 1 .. PerDevice[d]] : n \in PerDevice[d] .. PerDevice[d] + MaxDuplicates} :
     {s[i] : i \in DOMAIN s} = 1 .. PerDevice[d]}

Deliveries(d) == IF bench = "outage" THEN Counted(d) ELSE Shuffled(d)

\* outageUntil is set before the first device starts, and Produce compares
\* only with that end.  The spool file is at a fixed path.
BenchInit ==
  /\ bench \in {"outage", "replay"}
  /\ seen = [d \in Devices |-> NewDeviceSeen]
  /\ conn = [c \in Conns |-> Waiting]
  /\ file \in {<< >>} \cup {<<r>> : r \in {x \in Readings : SeqNo(x) = 1}}
  /\ leftover = (file # << >>)
  /\ sticky = FALSE
  /\ batch = << >>
  /\ late = None
  /\ topic = None
  /\ brokerUp = (bench = "replay")
  /\ used = [k \in Kinds |-> 0]
  /\ admits = None
  /\ main = "send"
  /\ \E s \in [Conns -> UNION {Deliveries(d) : d \in Devices}] :
       /\ \A c \in Conns : s[c] \in Deliveries(DeviceOf[c])
       /\ toSend = s
  /\ wire = [c \in Conns |-> << >>]
  /\ written = None
  /\ unread = Devices
  /\ got = None

-----------------------------------------------------------------------------

FrameOf(c, s) == <<DeviceOf[c], s>>

\* WriteMessage returns once the frame is in the socket's buffer.
DeviceWrites(c) ==
  /\ main = "send"
  /\ toSend[c] # << >>
  /\ toSend' = [toSend EXCEPT ![c] = Tail(@)]
  /\ wire' = [wire EXCEPT ![c] = Append(@, Head(toSend[c]))]
  /\ written' = [written EXCEPT ![FrameOf(c, Head(toSend[c]))] = @ + 1]
  /\ UNCHANGED <<vars, bench, main, unread, got, leftover>>

HandlerReads(c) ==
  /\ wire[c] # << >>
  /\ Receive(c, FrameOf(c, Head(wire[c])))
  /\ wire' = [wire EXCEPT ![c] = Tail(@)]
  /\ UNCHANGED <<bench, main, toSend, written, unread, got, leftover>>

GatewayStep ==
  /\ \/ \E c \in Conns : ConnProduce(c) \/ ConnSpill(c)
     \/ DrainTake \/ DrainStep
     \/ \E r \in Readings : LateWrite(r) \/ LateDrop(r)
  /\ UNCHANGED benchVars

OutageEnds == BrokerReturns /\ UNCHANGED benchVars

\* wg.Wait; what is on the wire is not waited for.  outagebench's devices send
\* beyond the end of the outage.
AllSent ==
  /\ main = "send"
  /\ \A c \in Conns : toSend[c] = << >>
  /\ bench = "outage" => brokerUp
  /\ main' = IF bench = "outage" THEN "wait" ELSE "read"
  /\ UNCHANGED <<vars, bench, toSend, wire, written, unread, got, leftover>>

\* The spool file has no bytes, or it has some and the deadline is over.
WaitEnds ==
  /\ main = "wait"
  /\ main' = "read"
  /\ UNCHANGED <<vars, bench, toSend, wire, written, unread, got, leftover>>

readPartition(d) ==
  /\ main = "read"
  /\ d \in unread
  /\ got' = [r \in Readings |-> IF Dev(r) = d THEN topic[r] ELSE got[r]]
  /\ unread' = unread \ {d}
  /\ UNCHANGED <<vars, bench, main, toSend, wire, written, leftover>>

Compare ==
  /\ main = "read"
  /\ unread = {}
  /\ main' = "done"
  /\ UNCHANGED <<vars, bench, toSend, wire, written, unread, got, leftover>>

BenchNext ==
  \/ \E c \in Conns : DeviceWrites(c) \/ HandlerReads(c)
  \/ GatewayStep \/ OutageEnds
  \/ AllSent \/ WaitEnds
  \/ \E d \in Devices : readPartition(d)
  \/ Compare

BenchSpec == BenchInit /\ [][BenchNext]_allVars

-----------------------------------------------------------------------------

Total(count) == MapThenSumSet(LAMBDA r : count[r], Readings)

\* sentCount - len(got); a reading is sent once.
lost == Total(written) - Total(got)

\* FinalStateDigest of what came back and of ReferenceDedup(AllUnique).
match == \A r \in Readings : got[r] = (IF written[r] > 0 THEN 1 ELSE 0)

OnTheWire(r) ==
  \E c \in Conns : DeviceOf[c] = Dev(r) /\ \E i \in DOMAIN wire[c] : wire[c][i] = SeqNo(r)

Good == IF bench = "outage" THEN lost = 0 ELSE match

\* A good result means that every reading sent is in the topic.  outagebench
\* compares numbers, so that there a second copy could make up for a reading
\* that is missing: with a resend of the writer, or with what an earlier run
\* has left in the spool file.
GoodMeansLanded ==
  main = "done" /\ Good =>
    \/ \A r \in Readings : written[r] > 0 => topic[r] > 0
    \/ bench = "outage" /\ (used.timeouts > 0 \/ leftover)

\* What a bad result calls lost is not: the reading is on the wire, with its
\* handler, in the spool, with the drainer or with the writer, or it came to
\* the topic after its partition was read.  And what it counts too much is a
\* resend, or a reading of an earlier run.
LostIsOnItsWay ==
  main = "done" =>
    \A r \in Readings :
      /\ written[r] > 0 /\ got[r] = 0 => topic[r] > 0 \/ OnTheWire(r) \/ Held(r)
      /\ got[r] > (IF written[r] > 0 THEN 1 ELSE 0) => used.timeouts > 0 \/ leftover

=============================================================================
