---------------------------- MODULE PipelineProofs -----------------------------
(***************************************************************************)
(* What the delivery service and the burst benchmark are made of: the edge *)
(* in front of the topic, and the readers and the collecting goroutine     *)
(* behind it.  For all ids, partitions, senders and caps, nothing          *)
(* disappears at the edge unless a sender of it was told, and between the  *)
(* topic and the table no message comes or goes.                           *)
(***************************************************************************)
EXTENDS Edge, Collector, FiniteSetTheorems, SequenceTheorems, TLAPS

-----------------------------------------------------------------------------
(* The edge.                                                               *)

Answers == {"accepted", "duplicate", "failed"}

CallTypes ==
  /\ call \in [Senders -> {{}} \cup {{i} : i \in Ids}]
  /\ answers \in [Ids -> SUBSET Answers]
  /\ part \in [Partitions -> Seq(Ids)]

\* i is in the topic or with the producer, or a sender of it was told.
Traceable(i) == Landed(i) \/ InCall(i) \/ "failed" \in answers[i]

\* Why a duplicate can be answered with success at all: the set holds no id
\* that has disappeared unnoticed.
SeenIsTraceable == \A i \in Ids : i \in seen.set => Traceable(i)

EdgeInv == CallTypes /\ SeenIsTraceable /\ NoSilentLoss

-----------------------------------------------------------------------------

\* The set of a record gains nothing but the id, evicting or not.
LEMMA RememberAddsOne ==
  ASSUME NEW ds, NEW i
  PROVE  Memory!Remember(ds, i).set \subseteq ds.set \cup {i}
BY DEF Memory!Remember, Memory!EvictOldest

LEMMA InitEdgeInv == EdgeInit => EdgeInv
<1> SUFFICES ASSUME EdgeInit PROVE EdgeInv
  OBVIOUS
<1>1. CallTypes
  BY DEF EdgeInit, NewPipeline, EnsureTopic, CallTypes
<1>2. SeenIsTraceable /\ NoSilentLoss
  BY DEF EdgeInit, NewPipeline, NoIds, Memory!NewDeviceSeen, SeenIsTraceable, NoSilentLoss
<1> QED
  BY <1>1, <1>2 DEF EdgeInv

\* A partition only grows, and its message is in it.
LEMMA StoredLands ==
  ASSUME CallTypes, NEW i \in Ids, Stored(i)
  PROVE  /\ part' \in [Partitions -> Seq(Ids)]
         /\ Landed(i)'
         /\ \A j \in Ids : Landed(j) => Landed(j)'
<1> DEFINE p == Home[i]
           new == part'[p]
<1>1. p \in Partitions /\ part[p] \in Seq(Ids)
  BY TopicAssumption DEF CallTypes
<1>2. /\ new \in Seq(Ids)
      /\ Len(new) > Len(part[p])
      /\ new[Len(new)] = i
      /\ \A n \in 1 .. Len(part[p]) : new[n] = part[p][n]
      /\ part' = [part EXCEPT ![p] = new]
  <2>1. CASE part' = [part EXCEPT ![p] = Append(part[p], i)]
    <3>1. new = Append(part[p], i)
      BY <1>1, <2>1 DEF CallTypes
    <3> HIDE DEF new
    <3> QED
      BY <1>1, <2>1, <3>1
  <2>2. CASE part' = [part EXCEPT ![p] = part[p] \o <<i, i>>]
    <3>1. new = part[p] \o <<i, i>>
      BY <1>1, <2>2 DEF CallTypes
    <3>2. <<i, i>> \in Seq(Ids) /\ Len(<<i, i>>) = 2
      OBVIOUS
    <3> HIDE DEF new
    <3> QED
      BY <1>1, <2>2, <3>1, <3>2
  <2> QED
    BY <2>1, <2>2 DEF Stored
<1> HIDE DEF new
<1>3. part' \in [Partitions -> Seq(Ids)] /\ part'[p] = new
  BY <1>1, <1>2 DEF CallTypes
<1>4. Landed(i)'
  BY <1>1, <1>2, <1>3 DEF Landed, CopiesOf
<1>5. ASSUME NEW j \in Ids, Landed(j) PROVE Landed(j)'
  <2>1. CASE Home[j] = p
    BY <1>1, <1>2, <1>3, <1>5, <2>1 DEF Landed, CopiesOf
  <2>2. CASE Home[j] # p
    <3>1. part'[Home[j]] = part[Home[j]]
      BY <1>2, <2>2, TopicAssumption DEF CallTypes
    <3> QED
      BY <1>5, <3>1 DEF Landed, CopiesOf
  <2> QED
    BY <2>1, <2>2
<1> QED
  BY <1>3, <1>4, <1>5

\* What a step may do to the ids: nothing lands back, what is traceable stays
\* so, and whoever is told success, or remembered, is traceable.
EdgeEffect ==
  /\ \A j \in Ids : Traceable(j) => Traceable(j)'
  /\ \A j \in Ids : j \in seen'.set /\ j \notin seen.set => Traceable(j)'
  /\ \A j \in Ids :
       LET good == {"accepted", "duplicate"} IN
       answers'[j] \cap good # {} /\ answers[j] \cap good = {} => Traceable(j)'

LEMMA EffectKeeps ==
  ASSUME EdgeInv, CallTypes', EdgeEffect
  PROVE  EdgeInv'
BY DEF EdgeInv, EdgeEffect, SeenIsTraceable, NoSilentLoss, Traceable

LEMMA PostDuplicateEffect ==
  ASSUME EdgeInv, NEW s \in Senders, NEW i \in Ids, PostDuplicate(s, i)
  PROVE  CallTypes' /\ EdgeEffect
<1>1. /\ i \in seen.set
      /\ answers' = [answers EXCEPT ![i] = @ \cup {"duplicate"}]
      /\ UNCHANGED <<seen, call, part>>
  BY DEF PostDuplicate, Told
<1>2. CallTypes'
  BY <1>1 DEF EdgeInv, CallTypes, Answers
<1>3. \A j \in Ids : /\ answers[j] \subseteq answers'[j]
                     /\ j # i => answers'[j] = answers[j]
  BY <1>1 DEF EdgeInv, CallTypes
<1>4. \A j \in Ids : Traceable(j) => Traceable(j)'
  BY <1>1, <1>3 DEF Traceable, Landed, CopiesOf, InCall
<1>5. Traceable(i)'
  BY <1>1, <1>4 DEF EdgeInv, SeenIsTraceable
<1> QED
  BY <1>1, <1>2, <1>3, <1>4, <1>5 DEF EdgeEffect

LEMMA PostNewEffect ==
  ASSUME EdgeInv, NEW s \in Senders, NEW i \in Ids, PostNew(s, i)
  PROVE  CallTypes' /\ EdgeEffect
<1>1. /\ call[s] = {}
      /\ seen' = Memory!Remember(seen, i)
      /\ call' = [call EXCEPT ![s] = {i}]
      /\ UNCHANGED <<answers, part>>
  BY DEF PostNew
<1>2. CallTypes'
  BY <1>1 DEF EdgeInv, CallTypes
<1>3. InCall(i)' /\ \A j \in Ids : InCall(j) => InCall(j)'
  BY <1>1 DEF EdgeInv, CallTypes, InCall
<1>4. \A j \in Ids : Traceable(j) => Traceable(j)'
  BY <1>1, <1>3 DEF Traceable, Landed, CopiesOf
<1>5. Traceable(i)'
  BY <1>3 DEF Traceable
<1>6. seen'.set \subseteq seen.set \cup {i}
  BY <1>1, RememberAddsOne
<1> QED
  BY <1>1, <1>2, <1>4, <1>5, <1>6 DEF EdgeEffect

\* The two ends of a call: the message is stored, or the sender is told.
LEMMA CallEnds ==
  ASSUME EdgeInv, NEW s \in Senders, NEW i \in call[s], NEW answer \in Answers,
         call' = [call EXCEPT ![s] = {}], Told(i, answer), UNCHANGED seen,
         part' \in [Partitions -> Seq(Ids)],
         \A j \in Ids : Landed(j) => Landed(j)',
         Landed(i)' \/ answer = "failed"
  PROVE  CallTypes' /\ EdgeEffect
<1>1. i \in Ids /\ call[s] = {i}
  BY DEF EdgeInv, CallTypes
<1>2. answers' = [answers EXCEPT ![i] = @ \cup {answer}]
  BY DEF Told
<1>3. CallTypes'
  BY <1>1, <1>2 DEF EdgeInv, CallTypes
<1>4. \A j \in Ids : j # i => (InCall(j) => InCall(j)') /\ answers'[j] = answers[j]
  BY <1>1, <1>2 DEF EdgeInv, CallTypes, InCall
<1>5. answer \in answers'[i]
  BY <1>1, <1>2 DEF EdgeInv, CallTypes
<1>6. Traceable(i)'
  BY <1>5 DEF Traceable
<1>7. \A j \in Ids : j # i /\ Traceable(j) => Traceable(j)'
  BY <1>4 DEF Traceable
<1> QED
  BY <1>3, <1>4, <1>6, <1>7 DEF EdgeEffect

LEMMA ProduceEffect ==
  ASSUME EdgeInv, NEW s \in Senders, ProduceAcked(s) \/ ProduceFails(s)
  PROVE  CallTypes' /\ EdgeEffect
<1>1. CASE ProduceAcked(s)
  <2>1. PICK i \in call[s] : /\ Stored(i) /\ Told(i, "accepted")
                             /\ call' = [call EXCEPT ![s] = {}] /\ UNCHANGED seen
    BY <1>1 DEF ProduceAcked
  <2>2. i \in Ids
    BY DEF EdgeInv, CallTypes
  <2>3. /\ part' \in [Partitions -> Seq(Ids)] /\ Landed(i)'
        /\ \A j \in Ids : Landed(j) => Landed(j)'
    BY <2>1, <2>2, StoredLands DEF EdgeInv
  <2> QED
    BY <2>1, <2>3, CallEnds DEF Answers
<1>2. CASE ProduceFails(s)
  <2>1. PICK i \in call[s] : /\ Told(i, "failed") /\ UNCHANGED <<seen, part>>
                             /\ call' = [call EXCEPT ![s] = {}]
    BY <1>2 DEF ProduceFails
  <2>2. part' \in [Partitions -> Seq(Ids)] /\ \A j \in Ids : Landed(j) => Landed(j)'
    BY <2>1 DEF EdgeInv, CallTypes, Landed, CopiesOf
  <2> QED
    BY <2>1, <2>2, CallEnds DEF Answers
<1> QED
  BY <1>1, <1>2

LEMMA LateEffect ==
  ASSUME EdgeInv, NEW i \in Ids, LateWrite(i) \/ LateDrop(i)
  PROVE  CallTypes' /\ EdgeEffect
<1>1. UNCHANGED <<seen, call, answers>>
  BY DEF LateWrite, LateDrop
<1>2. part' \in [Partitions -> Seq(Ids)] /\ \A j \in Ids : Landed(j) => Landed(j)'
  <2>1. CASE LateWrite(i)
    BY <2>1, StoredLands DEF LateWrite, EdgeInv
  <2>2. CASE LateDrop(i)
    BY <2>2 DEF LateDrop, EdgeInv, CallTypes, Landed, CopiesOf
  <2> QED
    BY <2>1, <2>2
<1>3. CallTypes'
  BY <1>1, <1>2 DEF EdgeInv, CallTypes
<1>4. \A j \in Ids : Traceable(j) => Traceable(j)'
  BY <1>1, <1>2 DEF Traceable, InCall
<1> QED
  BY <1>1, <1>3, <1>4 DEF EdgeEffect

\* After a restart the set is empty, and whoever waited has seen its connection
\* break.
LEMMA RestartEffect ==
  ASSUME EdgeInv, EdgeRestart
  PROVE  CallTypes' /\ EdgeEffect
<1>1. /\ seen'.set = {}
      /\ call' = [s \in Senders |-> {}]
      /\ UNCHANGED part
      /\ \A j \in Ids : answers'[j] = IF InCall(j) THEN answers[j] \cup {"failed"}
                                                   ELSE answers[j]
  BY DEF EdgeRestart, NoIds, Memory!NewDeviceSeen, InCall
<1>2. CallTypes'
  <2>1. answers' \in [Ids -> SUBSET Answers]
    BY DEF EdgeRestart, EdgeInv, CallTypes, Answers
  <2> QED
    BY <1>1, <2>1 DEF EdgeInv, CallTypes
<1>3. \A j \in Ids : Traceable(j) => Traceable(j)'
  BY <1>1 DEF Traceable, Landed, CopiesOf
<1> QED
  BY <1>1, <1>2, <1>3 DEF EdgeEffect

LEMMA EdgeKeepsInv ==
  ASSUME EdgeInv, EdgeNext \/ EdgeRestart \/ UNCHANGED edgeVars
  PROVE  EdgeInv'
<1>1. CASE EdgeNext
  <2>1. ASSUME NEW s \in Senders, NEW i \in Ids, PostDuplicate(s, i) \/ PostNew(s, i)
        PROVE  EdgeInv'
    BY <2>1, PostDuplicateEffect, PostNewEffect, EffectKeeps
  <2>2. ASSUME NEW s \in Senders, ProduceAcked(s) \/ ProduceFails(s)
        PROVE  EdgeInv'
    BY <2>2, ProduceEffect, EffectKeeps
  <2>3. ASSUME NEW i \in Ids, LateWrite(i) \/ LateDrop(i)
        PROVE  EdgeInv'
    BY <2>3, LateEffect, EffectKeeps
  <2> QED
    BY <1>1, <2>1, <2>2, <2>3 DEF EdgeNext
<1>2. CASE EdgeRestart
  BY <1>2, RestartEffect, EffectKeeps
<1>3. CASE UNCHANGED edgeVars
  BY <1>3 DEF edgeVars, EdgeInv, CallTypes, SeenIsTraceable, NoSilentLoss, Traceable,
              Landed, CopiesOf, InCall
<1> QED
  BY <1>1, <1>2, <1>3

-----------------------------------------------------------------------------
(* The set of remembered ids stays within its cap.                         *)

WebhookSeen == [set : SUBSET Ids, order : Seq(Ids)]

\* Every member of the set is still in the queue, so that the queue's length
\* bounds the set.
InQueue(ds) ==
  /\ ds.set \subseteq {ds.order[n] : n \in DOMAIN ds.order}
  /\ Len(ds.order) <= MaxWebhookIDs

EdgeMemory == seen \in WebhookSeen /\ InQueue(seen)

LEMMA InQueueBounds ==
  ASSUME EdgeMemory
  PROVE  Cardinality(seen.set) <= MaxWebhookIDs
<1> DEFINE q == seen.order
           n == Len(q)
           img == {q[k] : k \in 1 .. n}
<1>1. q \in Seq(Ids) /\ n \in Nat /\ n <= MaxWebhookIDs /\ DOMAIN q = 1 .. n
  BY DEF EdgeMemory, WebhookSeen, InQueue
<1>2. IsFiniteSet(1 .. n) /\ Cardinality(1 .. n) = n
  BY <1>1, FS_Interval
<1>3. IsFiniteSet(img) /\ Cardinality(img) <= Cardinality(1 .. n)
  <2> DEFINE f == [k \in 1 .. n |-> q[k]]
  <2>1. f \in Surjection(1 .. n, img)
    BY DEF Surjection
  <2> QED
    BY <1>2, <2>1, FS_Surjection
<1>4. seen.set \in SUBSET img
  BY <1>1 DEF EdgeMemory, InQueue
<1>5. IsFiniteSet(seen.set) /\ Cardinality(seen.set) <= Cardinality(img)
  BY <1>3, <1>4, FS_Subset
<1>6. Cardinality(img) \in Nat /\ Cardinality(seen.set) \in Nat
  BY <1>3, <1>5, FS_CardinalityType
<1> QED
  BY <1>1, <1>2, <1>3, <1>5, <1>6, EdgeAssumption

LEMMA RememberStaysInQueue ==
  ASSUME NEW ds \in WebhookSeen, InQueue(ds), NEW i \in Ids
  PROVE  Memory!Remember(ds, i) \in WebhookSeen /\ InQueue(Memory!Remember(ds, i))
<1> DEFINE q == ds.order
           o == Append(q, i)
           S == ds.set \cup {i}
<1>1. /\ q \in Seq(Ids) /\ Len(q) \in Nat /\ Len(q) <= MaxWebhookIDs
      /\ ds.set \in SUBSET Ids /\ \A x \in ds.set : \E n \in 1 .. Len(q) : q[n] = x
  BY DEF WebhookSeen, InQueue
<1>2. /\ o \in Seq(Ids) /\ Len(o) = Len(q) + 1 /\ S \in SUBSET Ids
      /\ \A n \in 1 .. Len(q) : o[n] = q[n]
      /\ o[Len(q) + 1] = i
  BY <1>1, AppendProperties
<1>3. \A x \in S : \E n \in 1 .. Len(o) : o[n] = x
  <2>1. \A n \in 1 .. Len(q) : n \in 1 .. Len(o)
    BY <1>1, <1>2
  <2>2. Len(q) + 1 \in 1 .. Len(o)
    BY <1>1, <1>2
  <2> QED
    BY <1>1, <1>2, <2>1, <2>2
<1>4. Memory!Remember(ds, i) = IF Len(o) > MaxWebhookIDs
                               THEN [set |-> S \ {Head(o)}, order |-> Tail(o)]
                               ELSE [set |-> S, order |-> o]
  BY DEF Memory!Remember, Memory!EvictOldest
<1> HIDE DEF o, S
<1>5. CASE Len(o) > MaxWebhookIDs
  <2>1. /\ Tail(o) \in Seq(Ids) /\ Len(Tail(o)) = Len(o) - 1 /\ Head(o) = o[1]
        /\ \A n \in 1 .. Len(o) - 1 : Tail(o)[n] = o[n + 1]
    BY <1>1, <1>2, HeadTailProperties
  <2>2. \A x \in S \ {Head(o)} : \E n \in 1 .. Len(Tail(o)) : Tail(o)[n] = x
    <3>1. SUFFICES ASSUME NEW x \in S, x # o[1]
                   PROVE  \E n \in 1 .. Len(o) - 1 : Tail(o)[n] = x
      BY <2>1
    <3>2. PICK n \in 1 .. Len(o) : o[n] = x
      BY <1>3
    <3>3. n - 1 \in 1 .. Len(o) - 1
      BY <1>1, <1>2, <3>1, <3>2
    <3> QED
      BY <2>1, <3>2, <3>3
  <2>3. Len(Tail(o)) <= MaxWebhookIDs
    BY <1>1, <1>2, <2>1, EdgeAssumption
  <2> DEFINE r == [set |-> S \ {Head(o)}, order |-> Tail(o)]
  <2>4. r.set = S \ {Head(o)} /\ r.order = Tail(o) /\ DOMAIN r.order = 1 .. Len(Tail(o))
    BY <2>1
  <2>5. r \in WebhookSeen
    BY <1>2, <2>1 DEF WebhookSeen
  <2>6. InQueue(r)
    BY <2>2, <2>3, <2>4 DEF InQueue
  <2> QED
    BY <1>4, <1>5, <2>5, <2>6
<1>6. CASE ~(Len(o) > MaxWebhookIDs)
  <2> DEFINE r == [set |-> S, order |-> o]
  <2>1. r.set = S /\ r.order = o /\ DOMAIN r.order = 1 .. Len(o)
    BY <1>2
  <2>2. r \in WebhookSeen
    BY <1>2 DEF WebhookSeen
  <2>3. Len(o) <= MaxWebhookIDs
    BY <1>1, <1>2, <1>6, EdgeAssumption
  <2>4. InQueue(r)
    BY <1>3, <2>1, <2>3 DEF InQueue
  <2> QED
    BY <1>4, <1>6, <2>2, <2>4
<1> QED
  BY <1>5, <1>6

\* The rest of what an edge keeps: the inductive form of EdgeTypes.
EdgeData ==
  /\ EdgeMemory
  /\ late \in [Ids -> Nat]
  /\ used \in Nat

LEMMA EdgeDataTypes ==
  ASSUME EdgeInv, EdgeData
  PROVE  EdgeTypes
BY InQueueBounds DEF EdgeTypes, EdgeInv, CallTypes, Answers, EdgeData, EdgeMemory, WebhookSeen

LEMMA EmptyMemory ==
  NoIds \in WebhookSeen /\ InQueue(NoIds)
<1>1. NoIds.set = {} /\ NoIds.order = << >> /\ NoIds \in WebhookSeen
  BY DEF NoIds, Memory!NewDeviceSeen, WebhookSeen
<1> QED
  BY <1>1, EdgeAssumption DEF InQueue

LEMMA InitEdgeData == EdgeInit => EdgeData
BY EmptyMemory DEF EdgeInit, NewPipeline, EdgeData, EdgeMemory

LEMMA EdgeKeepsData ==
  ASSUME EdgeInv, EdgeData, EdgeNext \/ EdgeRestart \/ UNCHANGED edgeVars
  PROVE  EdgeData'
<1>1. EdgeSpend \/ UNCHANGED used => used' \in Nat
  BY DEF EdgeSpend, EdgeData
<1>2. ASSUME NEW i \in Ids, Stored(i) PROVE used' \in Nat
  BY <1>1, <1>2 DEF Stored
<1>3. CASE EdgeNext
  <2>1. ASSUME NEW s \in Senders, NEW i \in Ids, PostDuplicate(s, i) PROVE EdgeData'
    BY <1>1, <2>1 DEF PostDuplicate, EdgeData, EdgeMemory
  <2>2. ASSUME NEW s \in Senders, NEW i \in Ids, PostNew(s, i) PROVE EdgeData'
    <3>1. seen' = Memory!Remember(seen, i) /\ late' = late /\ EdgeSpend
      BY <2>2 DEF PostNew
    <3>2. seen' \in WebhookSeen /\ InQueue(seen')
      BY <3>1, RememberStaysInQueue DEF EdgeData, EdgeMemory
    <3>3. EdgeMemory'
      BY <3>2 DEF EdgeMemory, InQueue
    <3> QED
      BY <1>1, <3>1, <3>3 DEF EdgeData
  <2>3. ASSUME NEW s \in Senders, ProduceAcked(s) PROVE EdgeData'
    <3>1. PICK i \in call[s] : Stored(i) /\ UNCHANGED <<seen, late>>
      BY <2>3 DEF ProduceAcked
    <3>2. i \in Ids
      BY DEF EdgeInv, CallTypes
    <3> QED
      BY <1>2, <3>1, <3>2 DEF EdgeData, EdgeMemory
  <2>4. ASSUME NEW s \in Senders, ProduceFails(s) PROVE EdgeData'
    <3>1. PICK i \in call[s] : late' \in {late, [late EXCEPT ![i] = @ + 1]}
                               /\ UNCHANGED <<seen, used>>
      BY <2>4 DEF ProduceFails
    <3>2. i \in Ids
      BY DEF EdgeInv, CallTypes
    <3>3. late' \in [Ids -> Nat]
      BY <3>1, <3>2 DEF EdgeData
    <3> QED
      BY <3>1, <3>3 DEF EdgeData, EdgeMemory
  <2>5. ASSUME NEW i \in Ids, LateWrite(i) \/ LateDrop(i) PROVE EdgeData'
    <3>1. late[i] > 0 /\ late' = [late EXCEPT ![i] = @ - 1] /\ UNCHANGED seen
      BY <2>5 DEF LateWrite, LateDrop
    <3>2. late' \in [Ids -> Nat]
      BY <3>1 DEF EdgeData
    <3>3. used' \in Nat
      BY <1>1, <1>2, <2>5 DEF LateWrite, LateDrop
    <3> QED
      BY <3>1, <3>2, <3>3 DEF EdgeData, EdgeMemory
  <2> QED
    BY <1>3, <2>1, <2>2, <2>3, <2>4, <2>5 DEF EdgeNext
<1>4. CASE EdgeRestart
  BY <1>4, EmptyMemory DEF EdgeRestart, EdgeData, EdgeMemory, InQueue
<1>5. CASE UNCHANGED edgeVars
  BY <1>5 DEF edgeVars, EdgeData, EdgeMemory
<1> QED
  BY <1>3, <1>4, <1>5

-----------------------------------------------------------------------------
(* Counting in a sequence, from an offset on.                              *)

PositionsAfter(q, o, i) == {n \in DOMAIN q : n > o /\ q[n] = i}
CountAfter(q, o, i) == Cardinality(PositionsAfter(q, o, i))

One(b) == IF b THEN 1 ELSE 0

LEMMA PositionsFinite ==
  ASSUME NEW S, NEW q \in Seq(S), NEW o, NEW i
  PROVE  /\ IsFiniteSet(PositionsAfter(q, o, i))
         /\ CountAfter(q, o, i) \in Nat
<1>1. IsFiniteSet(1 .. Len(q))
  BY FS_Interval
<1>2. PositionsAfter(q, o, i) \in SUBSET (1 .. Len(q))
  BY DEF PositionsAfter
<1> QED
  BY <1>1, <1>2, FS_Subset, FS_CardinalityType DEF CountAfter

\* Counting the whole of a sequence is counting behind offset 0.
LEMMA CountInIsCountAfter ==
  ASSUME NEW S, NEW q \in Seq(S), NEW i
  PROVE  CountIn(q, i) = CountAfter(q, 0, i) /\ CountIn(q, i) \in Nat
<1>1. PositionsAfter(q, 0, i) = {n \in DOMAIN q : q[n] = i}
  BY DEF PositionsAfter
<1> QED
  BY <1>1, PositionsFinite DEF CountIn, CountAfter

LEMMA CountEmpty ==
  ASSUME NEW i
  PROVE  CountIn(<< >>, i) = 0
<1>1. {n \in DOMAIN << >> : << >>[n] = i} = {}
  OBVIOUS
<1> QED
  BY <1>1, FS_EmptySet DEF CountIn

LEMMA CountAppendAfter ==
  ASSUME NEW S, NEW q \in Seq(S), NEW x \in S, NEW o \in 0 .. Len(q), NEW i
  PROVE  CountAfter(Append(q, x), o, i) = CountAfter(q, o, i) + One(x = i)
<1> DEFINE P == PositionsAfter(q, o, i)
           n == Len(q) + 1
<1>1. IsFiniteSet(P) /\ Cardinality(P) \in Nat /\ n \notin P
  <2>1. IsFiniteSet(P) /\ Cardinality(P) \in Nat
    BY PositionsFinite DEF CountAfter
  <2>2. n \notin P
    BY DEF PositionsAfter
  <2> QED
    BY <2>1, <2>2
<1>2. /\ DOMAIN Append(q, x) = DOMAIN q \cup {n}
      /\ Append(q, x)[n] = x /\ \A k \in DOMAIN q : Append(q, x)[k] = q[k]
  BY AppendProperties
<1>3. CASE x = i
  <2>1. PositionsAfter(Append(q, x), o, i) = P \cup {n}
    BY <1>2, <1>3 DEF PositionsAfter
  <2>2. Cardinality(P \cup {n}) = Cardinality(P) + 1
    BY <1>1, FS_AddElement
  <2> QED
    BY <1>1, <1>3, <2>1, <2>2 DEF CountAfter, One
<1>4. CASE x # i
  <2>1. PositionsAfter(Append(q, x), o, i) = P
    BY <1>2, <1>4 DEF PositionsAfter
  <2> QED
    BY <1>1, <1>4, <2>1 DEF CountAfter, One
<1> QED
  BY <1>3, <1>4

LEMMA CountAppend ==
  ASSUME NEW S, NEW q \in Seq(S), NEW x \in S, NEW i
  PROVE  CountIn(Append(q, x), i) = CountIn(q, i) + One(x = i)
<1>1. Append(q, x) \in Seq(S)
  BY AppendProperties
<1>2. /\ CountIn(Append(q, x), i) = CountAfter(Append(q, x), 0, i)
      /\ CountIn(q, i) = CountAfter(q, 0, i)
  BY <1>1, CountInIsCountAfter
<1>3. 0 \in 0 .. Len(q)
  OBVIOUS
<1>4. CountAfter(Append(q, x), 0, i) = CountAfter(q, 0, i) + One(x = i)
  BY <1>3, CountAppendAfter
<1> QED
  BY <1>2, <1>4

\* A message is taken off: the offset moves past it.
LEMMA CountMoveOffset ==
  ASSUME NEW S, NEW q \in Seq(S), NEW o \in 0 .. Len(q) - 1, NEW i
  PROVE  CountAfter(q, o, i) = CountAfter(q, o + 1, i) + One(q[o + 1] = i)
<1> DEFINE P == PositionsAfter(q, o + 1, i)
<1>1. IsFiniteSet(P) /\ Cardinality(P) \in Nat /\ o + 1 \notin P
  <2>1. IsFiniteSet(P) /\ Cardinality(P) \in Nat
    BY PositionsFinite DEF CountAfter
  <2>2. o + 1 \notin P
    BY DEF PositionsAfter
  <2> QED
    BY <2>1, <2>2
<1>2. CASE q[o + 1] = i
  <2>1. PositionsAfter(q, o, i) = P \cup {o + 1}
    BY <1>2 DEF PositionsAfter
  <2>2. Cardinality(P \cup {o + 1}) = Cardinality(P) + 1
    BY <1>1, FS_AddElement
  <2> QED
    BY <1>1, <1>2, <2>1, <2>2 DEF CountAfter, One
<1>3. CASE q[o + 1] # i
  <2>1. PositionsAfter(q, o, i) = P
    BY <1>3 DEF PositionsAfter
  <2> QED
    BY <1>1, <1>3, <2>1 DEF CountAfter, One
<1> QED
  BY <1>2, <1>3

\* The tail of a sequence is what lies behind its first element.
LEMMA CountTail ==
  ASSUME NEW S, NEW q \in Seq(S), q # << >>, NEW i
  PROVE  CountIn(q, i) = CountIn(Tail(q), i) + One(Head(q) = i)
<1> DEFINE P == PositionsAfter(q, 1, i)
           T == PositionsAfter(Tail(q), 0, i)
           f == [n \in T |-> n + 1]
<1>1. /\ Len(q) \in Nat \ {0} /\ Tail(q) \in Seq(S) /\ Len(Tail(q)) = Len(q) - 1
      /\ \A n \in 1 .. Len(q) - 1 : Tail(q)[n] = q[n + 1]
      /\ Head(q) = q[1]
  BY HeadTailProperties
<1>2. f \in [T -> P]
  BY <1>1 DEF PositionsAfter
<1>3. \A m, n \in T : f[m] = f[n] => m = n
  BY <1>1 DEF PositionsAfter
<1>4. \A k \in P : k - 1 \in T /\ f[k - 1] = k
  BY <1>1 DEF PositionsAfter
<1>5. ExistsBijection(T, P)
  <2>1. f \in Bijection(T, P)
    BY <1>2, <1>3, <1>4, Zenon DEF Bijection, Injection, Surjection, IsInjective
  <2> QED
    BY <2>1 DEF ExistsBijection
<1>6. IsFiniteSet(T)
  BY <1>1, PositionsFinite
<1>7. Cardinality(P) = Cardinality(T)
  BY <1>5, <1>6, FS_Bijection
<1>8. CountAfter(q, 0, i) = CountAfter(q, 0 + 1, i) + One(q[0 + 1] = i)
  BY <1>1, CountMoveOffset
<1>9. CountIn(q, i) = CountAfter(q, 0, i) /\ CountIn(Tail(q), i) = CountAfter(Tail(q), 0, i)
  BY <1>1, CountInIsCountAfter
<1> QED
  BY <1>1, <1>7, <1>8, <1>9 DEF CountAfter

-----------------------------------------------------------------------------
(* The copies of an id on their way from the topic to the table.           *)

Ledger(i) == rows[i] + InFlight(i) + Unread(i)

\* A message is in the partition its key says, and so is its reader.
Placed ==
  \A p \in Partitions :
    /\ \A n \in DOMAIN part[p] : Home[part[p][n]] = p
    /\ hand[p] # << >> => Home[Head(hand[p])] = p

ConsumerInv ==
  /\ CollectorTypes
  /\ part \in [Partitions -> Seq(Ids)]
  /\ offset \in [Partitions -> Nat]
  /\ Placed

LEMMA UnreadIs ==
  ASSUME NEW i
  PROVE  /\ Unread(i) = CountAfter(part[Home[i]], offset[Home[i]], i)
         /\ InTopic(i) = CountIn(part[Home[i]], i)
<1>1. {n \in CopiesOf(i) : n > offset[Home[i]]} = PositionsAfter(part[Home[i]], offset[Home[i]], i)
  BY DEF CopiesOf, PositionsAfter
<1> QED
  BY <1>1 DEF Unread, CountAfter, InTopic, CopiesOf, CountIn

\* All that is counted are numbers.
LEMMA Countable ==
  ASSUME ConsumerInv, NEW i \in Ids
  PROVE  /\ Home[i] \in Partitions
         /\ rows[i] \in Nat /\ Unread(i) \in Nat /\ InTopic(i) \in Nat
         /\ CountIn(hand[Home[i]], i) \in Nat /\ CountIn(chan, i) \in Nat
         /\ CountIn(chBatch, i) \in Nat /\ CountIn(inserting, i) \in Nat
         /\ InFlight(i) \in Nat /\ Ledger(i) \in Nat
<1>1. Home[i] \in Partitions
  BY TopicAssumption
<1>2. part[Home[i]] \in Seq(Ids) /\ hand[Home[i]] \in Seq(Ids)
  <2>1. << >> \in Seq(Ids) /\ \A x \in Ids : <<x>> \in Seq(Ids)
    OBVIOUS
  <2>2. hand[Home[i]] \in {<< >>} \cup {<<x>> : x \in Ids}
    BY <1>1 DEF ConsumerInv, CollectorTypes, StreamTypes
  <2> QED
    BY <1>1, <2>1, <2>2 DEF ConsumerInv
<1>3. Unread(i) \in Nat /\ InTopic(i) \in Nat
  BY <1>2, UnreadIs, PositionsFinite, CountInIsCountAfter
<1>4. /\ CountIn(hand[Home[i]], i) \in Nat /\ CountIn(chan, i) \in Nat
      /\ CountIn(chBatch, i) \in Nat /\ CountIn(inserting, i) \in Nat
  BY <1>2, CountInIsCountAfter DEF ConsumerInv, CollectorTypes, StreamTypes
<1>5. rows[i] \in Nat
  BY DEF ConsumerInv, CollectorTypes
<1>6. InFlight(i) \in Nat
  BY <1>4 DEF InFlight
<1> QED
  BY <1>1, <1>3, <1>4, <1>5, <1>6 DEF Ledger

\* A step that passes messages on: none comes, none goes.
Balanced == \A i \in Ids : Ledger(i)' = Ledger(i) /\ InTopic(i)' = InTopic(i)

\* A step that may drop some.
Drops ==
  \A i \in Ids :
    Ledger(i)' <= Ledger(i) /\ Ledger(i)' \in Nat /\ InTopic(i)' = InTopic(i)

LEMMA SingleCount ==
  ASSUME NEW x, NEW i
  PROVE  CountIn(<<x>>, i) = One(x = i)
<1>1. CASE x = i
  <2>1. {n \in DOMAIN <<x>> : <<x>>[n] = i} = {1}
    BY <1>1
  <2> QED
    BY <1>1, <2>1, FS_Singleton DEF CountIn, One
<1>2. CASE x # i
  <2>1. {n \in DOMAIN <<x>> : <<x>>[n] = i} = {}
    BY <1>2
  <2> QED
    BY <1>2, <2>1, FS_EmptySet DEF CountIn, One
<1> QED
  BY <1>1, <1>2

LEMMA ReadMessageBalanced ==
  ASSUME ConsumerInv, NEW p \in Partitions, ReadMessage(p),
         UNCHANGED <<part, chBatch, inserting, rows>>
  PROVE  ConsumerInv' /\ Balanced
<1> DEFINE o == offset[p]
           x == part[p][o + 1]
<1>1. /\ hand[p] = << >> /\ part[p] \in Seq(Ids) /\ o \in 0 .. Len(part[p]) - 1
      /\ x \in Ids /\ Home[x] = p
      /\ hand' = [hand EXCEPT ![p] = <<x>>] /\ offset' = [offset EXCEPT ![p] = o + 1]
      /\ UNCHANGED <<alive, chan, part, chBatch, inserting, rows>>
  BY DEF ReadMessage, ConsumerInv, CollectorTypes, StreamTypes, Placed
<1>2. hand' \in [Partitions -> {<< >>} \cup {<<i>> : i \in Ids}]
  BY <1>1 DEF ConsumerInv, CollectorTypes, StreamTypes
<1>3. /\ offset' \in [Partitions -> Nat]
      /\ \A q \in Partitions : offset'[q] \in 0 .. Len(part[q])
  BY <1>1 DEF ConsumerInv, CollectorTypes, StreamTypes
<1>4. hand'[p] = <<x>> /\ \A q \in Partitions : q # p => hand'[q] = hand[q]
  BY <1>1 DEF ConsumerInv, CollectorTypes, StreamTypes
<1> HIDE DEF x, o
<1>5. Placed'
  BY <1>1, <1>4 DEF ConsumerInv, Placed
<1>6. ConsumerInv'
  BY <1>1, <1>2, <1>3, <1>5 DEF ConsumerInv, CollectorTypes, StreamTypes
<1>7. ASSUME NEW i \in Ids PROVE Ledger(i)' = Ledger(i) /\ InTopic(i)' = InTopic(i)
  <2>1. InTopic(i)' = InTopic(i)
    BY <1>1 DEF InTopic, CopiesOf
  <2>2. CASE Home[i] = p
    <3>1. CountAfter(part[p], o, i) = CountAfter(part[p], o + 1, i) + One(x = i)
      BY <1>1, CountMoveOffset DEF x
    <3>2. Unread(i) = CountAfter(part[p], o, i) /\ Unread(i)' = CountAfter(part[p], o + 1, i)
      <4>1. offset'[p] = o + 1 /\ part' = part
        BY <1>1 DEF ConsumerInv
      <4> QED
        BY <2>2, <4>1, UnreadIs DEF o, Unread, CopiesOf, CountAfter, PositionsAfter
    <3>3. CountIn(hand[p], i) = 0 /\ CountIn(hand'[p], i) = One(x = i)
      BY <1>1, <1>4, CountEmpty, SingleCount
    <3>4. /\ InFlight(i) = 0 + CountIn(chan, i) + CountIn(chBatch, i) + CountIn(inserting, i)
          /\ InFlight(i)' = One(x = i) + CountIn(chan, i) + CountIn(chBatch, i) + CountIn(inserting, i)
      BY <1>1, <2>2, <3>3 DEF InFlight
    <3>5. rows[i]' = rows[i]
      BY <1>1
    <3>6. /\ rows[i] \in Nat /\ CountIn(chan, i) \in Nat
          /\ CountIn(chBatch, i) \in Nat /\ CountIn(inserting, i) \in Nat
          /\ CountAfter(part[p], o + 1, i) \in Nat
      BY <1>1, Countable, PositionsFinite
    <3>7. Ledger(i)' = rows[i]' + InFlight(i)' + Unread(i)'
      BY DEF Ledger
    <3>8. Ledger(i) = rows[i] + InFlight(i) + Unread(i)
      BY DEF Ledger
    <3>9. One(x = i) \in Nat
      BY DEF One
    <3> QED
      BY <2>1, <3>1, <3>2, <3>4, <3>5, <3>6, <3>7, <3>8, <3>9
  <2>3. CASE Home[i] # p
    <3>1. offset'[Home[i]] = offset[Home[i]] /\ hand'[Home[i]] = hand[Home[i]]
      BY <1>1, <1>4, <2>3, TopicAssumption DEF ConsumerInv
    <3> QED
      BY <1>1, <2>1, <3>1 DEF Ledger, InFlight, Unread, CopiesOf
  <2> QED
    BY <2>2, <2>3
<1> QED
  BY <1>6, <1>7 DEF Balanced

\* What a step says of the topic that touches neither it nor an offset.
LEMMA TopicUntouched ==
  ASSUME UNCHANGED <<part, offset>>, NEW i
  PROVE  Unread(i)' = Unread(i) /\ InTopic(i)' = InTopic(i)
BY DEF Unread, InTopic, CopiesOf

LEMMA SendBalanced ==
  ASSUME ConsumerInv, NEW p \in Partitions, Send(p),
         UNCHANGED <<part, chBatch, inserting, rows>>
  PROVE  ConsumerInv' /\ Balanced
<1>1. PICK x \in Ids : hand[p] = <<x>>
  BY DEF Send, ConsumerInv, CollectorTypes, StreamTypes
<1>2. Home[x] = p
  <2>1. <<x>> # << >> /\ Head(<<x>>) = x
    OBVIOUS
  <2> QED
    BY <1>1, <2>1 DEF ConsumerInv, Placed
<1>3. chan \in Seq(Ids) /\ chan \o <<x>> = Append(chan, x)
  BY DEF ConsumerInv, CollectorTypes, StreamTypes
<1>4. /\ chan' = Append(chan, x) /\ Len(chan) < ChanCap
      /\ hand' = [hand EXCEPT ![p] = << >>]
      /\ UNCHANGED <<offset, alive, part, chBatch, inserting, rows>>
  BY <1>1, <1>3 DEF Send
<1>5. chan' \in Seq(Ids) /\ Len(chan') <= ChanCap
  BY <1>3, <1>4, StreamAssumption
<1>6. hand' \in [Partitions -> {<< >>} \cup {<<i>> : i \in Ids}]
  BY <1>4 DEF ConsumerInv, CollectorTypes, StreamTypes
<1>7. hand'[p] = << >> /\ \A q \in Partitions : q # p => hand'[q] = hand[q]
  BY <1>4 DEF ConsumerInv, CollectorTypes, StreamTypes
<1>8. Placed'
  BY <1>4, <1>7 DEF ConsumerInv, Placed
<1>9. ConsumerInv'
  BY <1>4, <1>5, <1>6, <1>8 DEF ConsumerInv, CollectorTypes, StreamTypes
<1>10. ASSUME NEW i \in Ids PROVE Ledger(i)' = Ledger(i) /\ InTopic(i)' = InTopic(i)
  <2>1. Unread(i)' = Unread(i) /\ InTopic(i)' = InTopic(i)
    BY <1>4, TopicUntouched
  <2>2. CountIn(chan', i) = CountIn(chan, i) + One(x = i)
    BY <1>3, <1>4, CountAppend
  <2>3. CountIn(hand[Home[i]], i) = CountIn(hand'[Home[i]], i) + One(x = i)
    <3>1. CASE Home[i] = p
      <4>1. CountIn(<< >>, i) = 0 /\ CountIn(<<x>>, i) = One(x = i) /\ One(x = i) \in Nat
        BY SingleCount, CountEmpty DEF One
      <4>2. hand[Home[i]] = <<x>> /\ hand'[Home[i]] = << >>
        BY <1>1, <1>7, <3>1
      <4> QED
        BY <4>1, <4>2
    <3>2. CASE Home[i] # p
      <4>1. x # i /\ hand'[Home[i]] = hand[Home[i]]
        BY <1>2, <1>7, <3>2, TopicAssumption
      <4> QED
        BY <4>1, Countable DEF One
    <3> QED
      BY <3>1, <3>2
  <2>4. CountIn(hand'[Home[i]], i) \in Nat
    <3>1. CASE Home[i] = p
      BY <1>7, <3>1, CountEmpty
    <3>2. CASE Home[i] # p
      BY <1>7, <3>2, Countable
    <3> QED
      BY <3>1, <3>2
  <2>5. /\ CountIn(chan, i) \in Nat /\ CountIn(chBatch, i) \in Nat
        /\ CountIn(inserting, i) \in Nat /\ One(x = i) \in Nat
    BY Countable DEF One
  <2>6. InFlight(i)' = InFlight(i)
    BY <1>4, <2>2, <2>3, <2>4, <2>5 DEF InFlight
  <2> QED
    BY <1>4, <2>1, <2>6 DEF Ledger
<1> QED
  BY <1>9, <1>10 DEF Balanced

\* The two outcomes of a message, or a tick, at the collecting goroutine: the
\* batch grows, or it goes to the insert.
LEMMA BatchBalanced ==
  ASSUME ConsumerInv, Waiting, UNCHANGED <<part, readerVars, rows>>,
         chBatch # << >>, Flush(chBatch)
  PROVE  ConsumerInv' /\ Balanced
<1>1. /\ inserting = << >> /\ inserting' = chBatch /\ chBatch' = << >>
      /\ UNCHANGED <<part, offset, hand, alive, chan, rows>>
  BY DEF Waiting, Flush, readerVars
<1>2. chBatch' \in Seq(Ids) /\ Len(chBatch') < BatchSize
  BY <1>1, CollectorAssumption
<1>3. inserting' \in Seq(Ids) /\ Len(inserting') <= BatchSize
  BY <1>1, CollectorAssumption DEF ConsumerInv, CollectorTypes
<1>4. ConsumerInv'
  BY <1>1, <1>2, <1>3 DEF ConsumerInv, CollectorTypes, StreamTypes, Placed
<1>5. ASSUME NEW i \in Ids PROVE Ledger(i)' = Ledger(i) /\ InTopic(i)' = InTopic(i)
  <2>1. Unread(i)' = Unread(i) /\ InTopic(i)' = InTopic(i)
    BY <1>1, TopicUntouched
  <2>2. CountIn(inserting, i) = 0 /\ CountIn(chBatch', i) = 0
    BY <1>1, CountEmpty
  <2>3. /\ CountIn(chan, i) \in Nat /\ CountIn(chBatch, i) \in Nat
        /\ CountIn(hand[Home[i]], i) \in Nat
    BY Countable
  <2>4. InFlight(i)' = InFlight(i)
    BY <1>1, <2>2, <2>3 DEF InFlight
  <2> QED
    BY <1>1, <2>1, <2>4 DEF Ledger
<1> QED
  BY <1>4, <1>5 DEF Balanced

LEMMA ReceiveBalanced ==
  ASSUME ConsumerInv, Receive, UNCHANGED part
  PROVE  ConsumerInv' /\ Balanced
<1> DEFINE x == Head(chan)
           batch == Append(chBatch, x)
<1>1. /\ inserting = << >> /\ chan # << >> /\ chan' = Tail(chan)
      /\ UNCHANGED <<part, offset, hand, alive, rows>>
  BY DEF Receive, Waiting
<1>2. /\ chan \in Seq(Ids) /\ Len(chan) <= ChanCap /\ chBatch \in Seq(Ids)
      /\ Len(chBatch) < BatchSize
  BY DEF ConsumerInv, CollectorTypes, StreamTypes
<1>3. x \in Ids /\ chan' \in Seq(Ids) /\ Len(chan') <= ChanCap
  BY <1>1, <1>2, StreamAssumption, HeadTailProperties
<1>4. batch \in Seq(Ids) /\ Len(batch) = Len(chBatch) + 1
  BY <1>2, <1>3
<1>5. IF Len(batch) >= BatchSize
      THEN inserting' = batch /\ chBatch' = << >>
      ELSE chBatch' = batch /\ inserting' = inserting
  BY DEF Receive, Flush
<1> HIDE DEF batch, x
<1>6. /\ chBatch' \in Seq(Ids) /\ Len(chBatch') < BatchSize
      /\ inserting' \in Seq(Ids) /\ Len(inserting') <= BatchSize
  <2>1. CASE Len(batch) >= BatchSize
    <3>1. Len(batch) <= BatchSize
      BY <1>2, <1>4, CollectorAssumption
    <3>2. inserting' = batch /\ chBatch' = << >>
      BY <1>5, <2>1
    <3> QED
      BY <1>4, <3>1, <3>2, CollectorAssumption
  <2>2. CASE ~(Len(batch) >= BatchSize)
    <3>1. chBatch' = batch /\ inserting' = << >>
      BY <1>1, <1>5, <2>2
    <3>2. Len(batch) < BatchSize
      BY <1>4, <2>2, CollectorAssumption
    <3> QED
      BY <1>4, <3>1, <3>2, CollectorAssumption
  <2> QED
    BY <2>1, <2>2
<1>7. ConsumerInv'
  BY <1>1, <1>3, <1>6 DEF ConsumerInv, CollectorTypes, StreamTypes, Placed
<1>8. ASSUME NEW i \in Ids PROVE Ledger(i)' = Ledger(i) /\ InTopic(i)' = InTopic(i)
  <2>1. Unread(i)' = Unread(i) /\ InTopic(i)' = InTopic(i)
    BY <1>1, TopicUntouched
  <2>2. CountIn(chan, i) = CountIn(chan', i) + One(x = i)
    BY <1>1, <1>2, CountTail DEF x
  <2>3. CountIn(batch, i) = CountIn(chBatch, i) + One(x = i)
    BY <1>2, <1>3, CountAppend DEF batch
  <2>4. CountIn(inserting, i) = 0
    BY <1>1, CountEmpty
  <2>5. CountIn(chBatch', i) + CountIn(inserting', i) = CountIn(batch, i)
    <3>1. CountIn(batch, i) \in Nat
      BY <1>4, CountInIsCountAfter
    <3>2. CountIn(<< >>, i) = 0
      BY CountEmpty
    <3> QED
      BY <1>1, <1>5, <2>4, <3>1, <3>2
  <2>6. /\ CountIn(chan', i) \in Nat /\ CountIn(chBatch', i) \in Nat
        /\ CountIn(inserting', i) \in Nat
    BY <1>3, <1>6, CountInIsCountAfter
  <2>7. /\ CountIn(chBatch, i) \in Nat /\ CountIn(hand[Home[i]], i) \in Nat
        /\ One(x = i) \in Nat
    BY Countable DEF One
  <2>8. InFlight(i)' = InFlight(i)
    <3>1. InFlight(i)' = CountIn(hand[Home[i]], i) + CountIn(chan', i)
                           + CountIn(chBatch', i) + CountIn(inserting', i)
      BY <1>1 DEF InFlight
    <3>2. InFlight(i) = CountIn(hand[Home[i]], i) + CountIn(chan, i)
                          + CountIn(chBatch, i) + CountIn(inserting, i)
      BY DEF InFlight
    <3> QED
      BY <2>2, <2>3, <2>4, <2>5, <2>6, <2>7, <3>1, <3>2
  <2> QED
    BY <1>1, <2>1, <2>8 DEF Ledger
<1> QED
  BY <1>7, <1>8 DEF Balanced

\* The end of an insert, as far as the process is concerned.
LEMMA InsertLeaves ==
  ASSUME ConsumerInv, inserting' = << >>, UNCHANGED <<part, readerVars, chBatch>>,
         rows' = rows \/ rows' = Plus(rows, inserting), NEW i \in Ids
  PROVE  /\ ConsumerInv' /\ InTopic(i)' = InTopic(i)
         /\ Ledger(i)' = Ledger(i) - CountIn(inserting, i) + (rows'[i] - rows[i])
         /\ rows'[i] = rows[i] \/ rows'[i] = rows[i] + CountIn(inserting, i)
         /\ Ledger(i)' \in Nat
<1>1. UNCHANGED <<offset, hand, alive, chan, part, chBatch>>
  BY DEF readerVars
<1>2. \A j \in Ids : CountIn(inserting, j) \in Nat /\ rows[j] \in Nat
  BY Countable
<1>3. rows' \in [Ids -> Nat]
  BY <1>2 DEF Plus, ConsumerInv, CollectorTypes
<1>4. inserting' \in Seq(Ids) /\ Len(inserting') <= BatchSize
  BY CollectorAssumption
<1>5. ConsumerInv'
  BY <1>1, <1>3, <1>4 DEF ConsumerInv, CollectorTypes, StreamTypes, Placed
<1>6. rows'[i] = rows[i] \/ rows'[i] = rows[i] + CountIn(inserting, i)
  BY DEF Plus
<1>7. Unread(i)' = Unread(i) /\ InTopic(i)' = InTopic(i)
  BY <1>1, TopicUntouched
<1>8. CountIn(inserting', i) = 0
  BY CountEmpty
<1>9. /\ CountIn(chan, i) \in Nat /\ CountIn(chBatch, i) \in Nat
      /\ CountIn(hand[Home[i]], i) \in Nat /\ CountIn(inserting, i) \in Nat
      /\ Unread(i) \in Nat /\ rows[i] \in Nat /\ rows'[i] \in Nat
  BY <1>3, Countable
<1>10. InFlight(i)' = InFlight(i) - CountIn(inserting, i) /\ InFlight(i) \in Nat
  BY <1>1, <1>8, <1>9 DEF InFlight
<1>11. Ledger(i)' = rows'[i] + InFlight(i)' + Unread(i)'
  BY DEF Ledger
<1>12. Ledger(i)' = Ledger(i) - CountIn(inserting, i) + (rows'[i] - rows[i])
  BY <1>7, <1>9, <1>10, <1>11 DEF Ledger
<1>13. InFlight(i)' \in Nat
  BY <1>1, <1>8, <1>9 DEF InFlight
<1>14. Ledger(i)' \in Nat
  BY <1>7, <1>9, <1>11, <1>13
<1> QED
  BY <1>5, <1>6, <1>7, <1>12, <1>14

-----------------------------------------------------------------------------
(* The producer writes: what reaches the topic is unread at first.         *)

\* The topic gets copies, and all of them are still unread.
Grows ==
  \A j \in Ids : \E k \in Nat :
    Ledger(j)' = Ledger(j) + k /\ InTopic(j)' = InTopic(j) + k

LEMMA BalancedGrows ==
  ASSUME ConsumerInv, Balanced
  PROVE  Grows
<1> SUFFICES ASSUME NEW j \in Ids
             PROVE  Ledger(j)' = Ledger(j) + 0 /\ InTopic(j)' = InTopic(j) + 0
  BY DEF Grows
<1> QED
  BY Countable DEF Balanced

\* One more message at the end of a partition, for a reader that is not past
\* the old end.
LEMMA AppendCounts ==
  ASSUME NEW q \in Seq(Ids), NEW o \in 0 .. Len(q), NEW i \in Ids, NEW j
  PROVE  /\ Append(q, i) \in Seq(Ids) /\ Len(Append(q, i)) = Len(q) + 1
         /\ CountAfter(Append(q, i), o, j) = CountAfter(q, o, j) + One(i = j)
         /\ CountIn(Append(q, i), j) = CountIn(q, j) + One(i = j)
BY AppendProperties, CountAppendAfter, CountAppend

LEMMA AppendTwice ==
  ASSUME NEW q \in Seq(Ids), NEW i \in Ids
  PROVE  q \o <<i, i>> = Append(Append(q, i), i)
OBVIOUS

\* The partition's own view of a message that is stored, once or twice.
StoredIn(q, i, new) == new = Append(q, i) \/ new = q \o <<i, i>>

LEMMA StoredSeq ==
  ASSUME NEW q \in Seq(Ids), NEW i \in Ids, NEW new, StoredIn(q, i, new)
  PROVE  /\ new \in Seq(Ids) /\ Len(new) >= Len(q)
         /\ \A n \in DOMAIN new : (n \in DOMAIN q /\ new[n] = q[n]) \/ new[n] = i
<1> DEFINE a == Append(q, i)
<1>1. a \in Seq(Ids) /\ Len(a) = Len(q) + 1
  BY AppendProperties
<1>2. \A n \in DOMAIN a : (n \in DOMAIN q /\ a[n] = q[n]) \/ a[n] = i
  BY AppendProperties
<1>3. CASE new = a
  BY <1>1, <1>2, <1>3
<1>4. CASE new = q \o <<i, i>>
  <2>1. new = Append(a, i)
    BY <1>4, AppendTwice
  <2> HIDE DEF a
  <2>2. new \in Seq(Ids) /\ Len(new) = Len(a) + 1
    BY <1>1, <2>1, AppendProperties
  <2>3. \A n \in DOMAIN new : (n \in DOMAIN q /\ new[n] = q[n]) \/ new[n] = i
    BY <1>1, <1>2, <2>1, AppendProperties
  <2> QED
    BY <1>1, <2>2, <2>3
<1> QED
  BY <1>3, <1>4 DEF StoredIn

\* It holds k copies more of j, all of them behind the offset.
LEMMA StoredCounts ==
  ASSUME NEW q \in Seq(Ids), NEW o \in 0 .. Len(q), NEW i \in Ids, NEW j,
         NEW new, StoredIn(q, i, new)
  PROVE  \E k \in Nat : /\ CountAfter(new, o, j) = CountAfter(q, o, j) + k
                        /\ CountIn(new, j) = CountIn(q, j) + k
<1>1. CountAfter(q, o, j) \in Nat /\ CountIn(q, j) \in Nat /\ One(i = j) \in Nat
  BY PositionsFinite, CountInIsCountAfter DEF One
<1> DEFINE a == Append(q, i)
<1>2. /\ a \in Seq(Ids) /\ Len(a) = Len(q) + 1
      /\ CountAfter(a, o, j) = CountAfter(q, o, j) + One(i = j)
      /\ CountIn(a, j) = CountIn(q, j) + One(i = j)
  BY AppendCounts
<1>3. CASE new = a
  BY <1>1, <1>2, <1>3
<1>4. CASE new = q \o <<i, i>>
  <2>1. new = Append(a, i)
    BY <1>4, AppendTwice
  <2> HIDE DEF a
  <2>2. o \in 0 .. Len(a)
    BY <1>2
  <2>3. /\ CountAfter(new, o, j) = CountAfter(a, o, j) + One(i = j)
        /\ CountIn(new, j) = CountIn(a, j) + One(i = j)
    BY <1>2, <2>1, <2>2, AppendCounts
  <2>4. /\ CountAfter(new, o, j) = CountAfter(q, o, j) + (One(i = j) + One(i = j))
        /\ CountIn(new, j) = CountIn(q, j) + (One(i = j) + One(i = j))
        /\ One(i = j) + One(i = j) \in Nat
    BY <1>1, <1>2, <2>3
  <2> QED
    BY <2>4
<1> QED
  BY <1>3, <1>4 DEF StoredIn

LEMMA StoredGrows ==
  ASSUME ConsumerInv, NEW i \in Ids, Stored(i), UNCHANGED consumerVars
  PROVE  ConsumerInv' /\ Grows
<1> DEFINE p == Home[i]
           q == part[p]
           new == part'[p]
<1>1. p \in Partitions /\ q \in Seq(Ids) /\ offset[p] \in 0 .. Len(q)
  BY TopicAssumption DEF ConsumerInv, CollectorTypes, StreamTypes
<1>2. StoredIn(q, i, new) /\ part' = [part EXCEPT ![p] = new]
  BY <1>1 DEF Stored, StoredIn, ConsumerInv
<1>3. UNCHANGED <<offset, hand, alive, chan, chBatch, inserting, rows>>
  BY DEF consumerVars, readerVars
<1> HIDE DEF p, q, new
<1>4. /\ new \in Seq(Ids) /\ Len(new) >= Len(q)
      /\ \A n \in DOMAIN new : (n \in DOMAIN q /\ new[n] = q[n]) \/ new[n] = i
  BY <1>1, <1>2, StoredSeq
<1>5. /\ part' \in [Partitions -> Seq(Ids)]
      /\ part'[p] = new /\ \A r \in Partitions : r # p => part'[r] = part[r]
  BY <1>1, <1>2, <1>4 DEF ConsumerInv
<1>6. Placed'
  <2> SUFFICES ASSUME NEW r \in Partitions
               PROVE  /\ \A n \in DOMAIN part'[r] : Home[part'[r][n]] = r
                      /\ hand'[r] # << >> => Home[Head(hand'[r])] = r
    BY DEF Placed
  <2>1. CASE r = p
    <3>1. \A n \in DOMAIN q : Home[q[n]] = p
      BY <1>1 DEF ConsumerInv, Placed, q
    <3>2. \A n \in DOMAIN new : Home[new[n]] = p
      BY <1>4, <3>1 DEF p
    <3>3. hand[p] # << >> => Home[Head(hand[p])] = p
      BY <1>1 DEF ConsumerInv, Placed
    <3> QED
      BY <1>3, <1>5, <2>1, <3>2, <3>3
  <2>2. CASE r # p
    BY <1>3, <1>5, <2>2 DEF ConsumerInv, Placed
  <2> QED
    BY <2>1, <2>2
<1>7. \A r \in Partitions : offset'[r] \in 0 .. Len(part'[r])
  <2> SUFFICES ASSUME NEW r \in Partitions PROVE offset[r] \in 0 .. Len(part'[r])
    BY <1>3
  <2>1. CASE r = p
    BY <1>1, <1>4, <1>5, <2>1
  <2>2. CASE r # p
    BY <1>5, <2>2 DEF ConsumerInv, CollectorTypes, StreamTypes
  <2> QED
    BY <2>1, <2>2
<1>8. ConsumerInv'
  BY <1>3, <1>5, <1>6, <1>7 DEF ConsumerInv, CollectorTypes, StreamTypes
<1>9. ASSUME NEW j \in Ids
      PROVE  \E k \in Nat : Ledger(j)' = Ledger(j) + k /\ InTopic(j)' = InTopic(j) + k
  <2>1. /\ Unread(j) = CountAfter(part[Home[j]], offset[Home[j]], j)
        /\ InTopic(j) = CountIn(part[Home[j]], j)
    BY UnreadIs
  <2>2. /\ Unread(j)' = CountAfter(part'[Home[j]], offset[Home[j]], j)
        /\ InTopic(j)' = CountIn(part'[Home[j]], j)
    <3>1. {n \in DOMAIN part'[Home[j]] : part'[Home[j]][n] = j /\ n > offset'[Home[j]]}
            = PositionsAfter(part'[Home[j]], offset'[Home[j]], j)
      BY DEF PositionsAfter
    <3>2. {n \in CopiesOf(j)' : n > offset'[Home[j]]}
            = PositionsAfter(part'[Home[j]], offset'[Home[j]], j)
      BY DEF PositionsAfter, CopiesOf
    <3> QED
      BY <1>3, <3>2 DEF Unread, InTopic, CopiesOf, CountIn, CountAfter
  <2>3. PICK k \in Nat : /\ Unread(j)' = Unread(j) + k
                         /\ InTopic(j)' = InTopic(j) + k
    <3>1. CASE Home[j] = p
      <4>1. \E k \in Nat : /\ CountAfter(new, offset[p], j) = CountAfter(q, offset[p], j) + k
                           /\ CountIn(new, j) = CountIn(q, j) + k
        BY <1>1, <1>2, StoredCounts
      <4> QED
        BY <1>5, <2>1, <2>2, <3>1, <4>1 DEF q
    <3>2. CASE Home[j] # p
      <4>1. part'[Home[j]] = part[Home[j]]
        BY <1>5, <3>2, TopicAssumption
      <4>2. Unread(j)' = Unread(j) + 0 /\ InTopic(j)' = InTopic(j) + 0
        BY <2>1, <2>2, <4>1, Countable
      <4> QED
        BY <4>2
    <3> QED
      BY <3>1, <3>2
  <2>4. rows[j] \in Nat /\ InFlight(j) \in Nat /\ Unread(j) \in Nat
    BY Countable
  <2>5. InFlight(j)' = InFlight(j) /\ rows'[j] = rows[j]
    BY <1>3 DEF InFlight
  <2>6. Ledger(j)' = Ledger(j) + k
    BY <2>3, <2>4, <2>5 DEF Ledger
  <2> QED
    BY <2>3, <2>6
<1> QED
  BY <1>8, <1>9 DEF Grows

LEMMA QuietStep ==
  ASSUME ConsumerInv, UNCHANGED <<part, offset, hand, chan, chBatch, inserting, rows>>,
         alive' \in [Partitions -> BOOLEAN]
  PROVE  ConsumerInv' /\ Grows
<1>1. ConsumerInv'
  BY DEF ConsumerInv, CollectorTypes, StreamTypes, Placed
<1>2. Balanced
  BY DEF Balanced, Ledger, InFlight, Unread, InTopic, CopiesOf
<1> QED
  BY <1>1, <1>2, BalancedGrows

=============================================================================
