------------------------------ MODULE EdgeReplay -------------------------------
(***************************************************************************)
(* cmd/deliverygen and cmd/eventgen: one sender hands a corpus with        *)
(* repetitions to the edge, then the topic is read back, partition after   *)
(* partition, and compared with an independent deduplication.              *)
(***************************************************************************)
EXTENDS Edge, SequencesExt

CONSTANT MaxRetries   \* bound of the model: repetitions in the corpus

\* The corpus is finite, and the loop that sends it waits for each answer.
ASSUME ReplayAssumption ==
  /\ MaxRetries \in Nat
  /\ IsFiniteSet(Ids)
  /\ \E s \in Senders : Senders = {s}

VARIABLES
  main,        \* "send", "read", "done", or "fatal"
  delivered,   \* the corpus in the order of delivery
  next,        \* index of the webhook that is sent next
  count,       \* webhooks accepted, rejected as duplicates, failed
  landed,      \* landed[i]: copies of i read back so far
  unread,      \* partitions not read back yet
  cut,         \* auxiliary: some partition was not read to its end
  match        \* the RESULT

replayVars == <<main, delivered, next, count, landed, unread, cut, match>>
vars == <<edgeVars, replayVars>>

\* Every id once and some again, shuffled.
WithRetries ==
  {d \in UNION {[1 .. n -> Ids] : n \in 0 .. Cardinality(Ids) + MaxRetries} : ToSet(d) = Ids}

ReferenceDedup(ds) ==
  FoldLeft(LAMBDA out, i : IF Contains(out, i) THEN out ELSE Append(out, i), << >>, ds)

Init ==
  /\ EdgeInit
  /\ main = "send"
  /\ delivered \in WithRetries
  /\ next = 1
  /\ count = [accepted |-> 0, rejected |-> 0, errors |-> 0]
  /\ landed = [i \in Ids |-> 0]
  /\ unread = Partitions
  /\ cut = FALSE
  /\ match = FALSE

-----------------------------------------------------------------------------

Counted(what) == count' = [count EXCEPT ![what] = @ + 1]

Ingest(s) ==
  /\ main = "send"
  /\ next <= Len(delivered)
  /\ \/ PostDuplicate(s, delivered[next]) /\ Counted("rejected")
     \/ PostNew(s, delivered[next]) /\ UNCHANGED count
  /\ next' = next + 1
  /\ UNCHANGED <<main, delivered, landed, unread, cut, match>>

\* Deviation: an error is counted and the loop does not continue.
IngestReturnsCountedTwice(s) ==
  /\ \/ ProduceAcked(s) /\ Counted("accepted")
     \/ /\ ProduceFails(s)
        /\ count' = [count EXCEPT !.errors = @ + 1, !.accepted = @ + 1]
  /\ UNCHANGED <<main, delivered, next, landed, unread, cut, match>>

IngestReturns(s) ==
  /\ \/ ProduceAcked(s) /\ Counted("accepted")
     \/ ProduceFails(s) /\ Counted("errors")
  /\ UNCHANGED <<main, delivered, next, landed, unread, cut, match>>

Writer == \E i \in Ids : (LateWrite(i) \/ LateDrop(i)) /\ UNCHANGED replayVars

\* The sleep of two seconds waits for nothing in particular.
SendEnds ==
  /\ main = "send"
  /\ next > Len(delivered)
  /\ \A s \in Senders : call[s] = {}
  /\ main' = "read"
  /\ UNCHANGED <<edgeVars, delivered, next, count, landed, unread, cut, match>>

\* One fetch from the first offset to the end of the partition; an error in
\* it, or a fetch that is not the whole partition, ends the loop like the end
\* of the partition does.
ReadPartition(p) ==
  /\ main = "read"
  /\ p \in unread
  /\ \E n \in 0 .. Len(part[p]) :
       /\ landed' = [i \in Ids |-> landed[i] + CountIn(SubSeq(part[p], 1, n), i)]
       /\ cut' = (cut \/ n < Len(part[p]))
  /\ unread' = unread \ {p}
  /\ UNCHANGED <<edgeVars, main, delivered, next, count, match>>

\* The broker or the leader of a partition cannot be reached.
ReadFails ==
  /\ main = "read"
  /\ unread # {}
  /\ main' = "fatal"
  /\ UNCHANGED <<edgeVars, delivered, next, count, landed, unread, cut, match>>

\* equalIDSets compares sorted lists, repetitions included.
Compare ==
  /\ main = "read"
  /\ unread = {}
  /\ match' = \A i \in Ids : landed[i] = CountIn(ReferenceDedup(delivered), i)
  /\ main' = "done"
  /\ UNCHANGED <<edgeVars, delivered, next, count, landed, unread, cut>>

Next ==
  \/ \E s \in Senders : Ingest(s) \/ IngestReturns(s)
  \/ Writer \/ SendEnds
  \/ \E p \in Partitions : ReadPartition(p)
  \/ ReadFails \/ Compare

Spec == Init /\ [][Next]_vars

-----------------------------------------------------------------------------

Sent == Len(delivered)
Unique == Len(ReferenceDedup(delivered))
Resent == used > Sent      \* each webhook sent and each resend used one
EdgeHoldsAll == Cardinality(Ids) <= MaxWebhookIDs

\* The numbers of the send phase are those of the reference, whatever the
\* broker does, as long as the corpus fits the edge's set.
EdgeAgreesWithReference ==
  main # "send" /\ EdgeHoldsAll =>
    /\ count.accepted + count.errors = Unique
    /\ count.rejected = Sent - Unique

\* The verdict can be relied on: "true" only if every id of the corpus is in
\* the topic; "false" only if the broker failed a produce, the writer sent a
\* message twice, or the read-back was cut, and never for an id the edge let
\* pass twice or held back.
VerdictIsFair ==
  main = "done" /\ EdgeHoldsAll =>
    IF match
    THEN \A i \in Ids : Landed(i)
    ELSE count.errors > 0 \/ cut \/ Resent

=============================================================================
