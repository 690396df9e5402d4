----------------------------- MODULE SegmentProofs -----------------------------
(***************************************************************************)
(* The segment engine over any corpus, segments and failures: what of its  *)
(* Redis state is an invariant, that the two sets of a membership are torn *)
(* apart by errors only, that the final sweep brings each profile up to    *)
(* date, and that the membership is then the recompute's, family by family.*)
(***************************************************************************)
EXTENDS SegmentBench, FiniteSetTheorems, SequenceTheorems, TLAPS

-----------------------------------------------------------------------------
(* What applying an event does to a profile's state.                       *)

StatFields == {"total", "purchases", "last", "lastCart", "lastPurchase", "views", "purch"}

StatsOK(s) ==
  /\ DOMAIN s = StatFields
  /\ s.total \in Nat /\ s.purchases \in Nat
  /\ IsFiniteSet(s.purch) /\ Cardinality(s.purch) <= s.purchases

LEMMA NoStatsOK == StatsOK(NoStats)
<1>1. DOMAIN NoStats = StatFields
  BY DEF NoStats, StatFields
<1>2. NoStats.total = 0 /\ NoStats.purchases = 0 /\ NoStats.purch = {}
  BY DEF NoStats
<1> QED
  BY <1>1, <1>2, FS_EmptySet DEF StatsOK

\* A purchase adds one member at most, whatever the trim takes away.
LEMMA PurchaseAddsOne ==
  ASSUME NEW purch, IsFiniteSet(purch), NEW e
  PROVE  /\ IsFiniteSet(WithPurchase(purch, e))
         /\ Cardinality(WithPurchase(purch, e)) <= Cardinality(purch) + 1
<1> DEFINE m == Member(e)
           more == purch \cup {m}
<1>1. IsFiniteSet(more) /\ Cardinality(more) <= Cardinality(purch) + 1
  <2>1. Cardinality(purch) \in Nat
    BY FS_CardinalityType
  <2>2. /\ IsFiniteSet(more)
        /\ Cardinality(more) = IF m \in purch THEN Cardinality(purch) ELSE Cardinality(purch) + 1
    BY FS_AddElement
  <2> QED
    BY <2>1, <2>2
<1>2. WithPurchase(purch, e) \in SUBSET more
  BY DEF WithPurchase, Trimmed
<1>3. /\ IsFiniteSet(WithPurchase(purch, e))
      /\ Cardinality(WithPurchase(purch, e)) <= Cardinality(more)
  BY <1>1, <1>2, FS_Subset
<1>4. /\ Cardinality(purch) \in Nat /\ Cardinality(more) \in Nat
      /\ Cardinality(WithPurchase(purch, e)) \in Nat
  BY <1>1, <1>3, FS_CardinalityType
<1> QED
  BY <1>1, <1>3, <1>4

LEMMA AppliedOK ==
  ASSUME NEW s, StatsOK(s), NEW e
  PROVE  StatsOK(Applied(s, e)) /\ Applied(s, e).total = s.total + 1
<1> DEFINE t == [s EXCEPT !.total = @ + 1, !.last = e.ts]
           a == Applied(s, e)
<1>1. /\ DOMAIN t = StatFields /\ t.total = s.total + 1
      /\ t.purchases = s.purchases /\ t.purch = s.purch
  BY DEF StatsOK, StatFields
<1>2. /\ s.total \in Nat /\ s.purchases \in Nat
      /\ IsFiniteSet(s.purch) /\ Cardinality(s.purch) <= s.purchases
      /\ Cardinality(s.purch) \in Nat
  BY FS_CardinalityType DEF StatsOK
<1> HIDE DEF t
<1>3. CASE a = [t EXCEPT !.purchases = @ + 1, !.lastPurchase = e.ts, !.purch = WithPurchase(@, e)]
  <2>1. /\ DOMAIN a = StatFields /\ a.total = t.total
        /\ a.purchases = t.purchases + 1 /\ a.purch = WithPurchase(t.purch, e)
    BY <1>1, <1>3 DEF StatFields
  <2>2. IsFiniteSet(a.purch) /\ Cardinality(a.purch) <= Cardinality(s.purch) + 1
    BY <1>1, <1>2, <2>1, PurchaseAddsOne
  <2>3. Cardinality(a.purch) \in Nat
    BY <2>2, FS_CardinalityType
  <2> QED
    BY <1>1, <1>2, <2>1, <2>2, <2>3 DEF StatsOK
<1>4. CASE a = [t EXCEPT !.lastCart = e.ts]
  BY <1>1, <1>2, <1>4 DEF StatsOK, StatFields
<1>5. CASE a = [t EXCEPT !.views[e.category] = @ + 1]
  BY <1>1, <1>2, <1>5 DEF StatsOK, StatFields
<1>6. CASE a = t
  BY <1>1, <1>2, <1>6 DEF StatsOK
<1> QED
  BY <1>3, <1>4, <1>5, <1>6 DEF Applied, t

-----------------------------------------------------------------------------
(* What a delta is, and what writing it does.                              *)

DeltaOK(d) ==
  /\ d \in [profile : {{}} \cup {{p} : p \in Profiles}, add : SUBSET IDs, remove : SUBSET IDs]
  /\ d.add \cap d.remove = {}

RedisInv ==
  /\ DOMAIN stats = Profiles /\ \A p \in Profiles : StatsOK(stats[p])
  /\ segs \in [Profiles -> SUBSET IDs]
  /\ members \in [IDs -> SUBSET Profiles]

LEMMA DeltaIsOK ==
  ASSUME segs \in [Profiles -> SUBSET IDs], NEW p \in Profiles, NEW now
  PROVE  /\ DeltaOK(Delta(p, now)) /\ Delta(p, now).profile = {p}
         /\ Delta(p, now) # NoDelta
<1> DEFINE want == EvaluateProfile(stats[p], now)
<1>1. want \in SUBSET IDs
  BY DEF EvaluateProfile
<1>2. Delta(p, now) = [profile |-> {p}, add |-> want \ segs[p], remove |-> segs[p] \ want]
  BY DEF Delta
<1> HIDE DEF want
<1>3. Delta(p, now).profile = {p} /\ NoDelta.profile = {}
  BY <1>2 DEF NoDelta
<1> QED
  BY <1>1, <1>2, <1>3 DEF DeltaOK

LEMMA NoDeltaOK == DeltaOK(NoDelta)
BY DEF NoDelta, DeltaOK

\* Whatever part of a delta is written, the sets keep their types.
LEMMA WriteTypes ==
  ASSUME segs \in [Profiles -> SUBSET IDs], members \in [IDs -> SUBSET Profiles],
         NEW d, DeltaOK(d), NEW inSegs, NEW inMembers, Write(d, inSegs, inMembers)
  PROVE  segs' \in [Profiles -> SUBSET IDs] /\ members' \in [IDs -> SUBSET Profiles]
<1>1. d.profile \in SUBSET Profiles /\ d.add \in SUBSET IDs
  BY DEF DeltaOK
<1>2. segs' \in [Profiles -> SUBSET IDs]
  BY <1>1 DEF Write
<1>3. \A s \in IDs : members'[s] = members[s] \cup d.profile \/ members'[s] = members[s] \ d.profile
                     \/ members'[s] = members[s]
  BY DEF Write
<1>4. members' = [s \in IDs |-> members'[s]]
  BY DEF Write
<1> QED
  BY <1>1, <1>2, <1>3, <1>4

\* A pair on which the two sets differ.
TornAt(p, s) == (s \in segs[p]) # (p \in members[s])

\* A command that reaches both sets mends the pair; one that reaches neither
\* leaves it as it was.
LEMMA WriteAt ==
  ASSUME segs \in [Profiles -> SUBSET IDs], members \in [IDs -> SUBSET Profiles],
         NEW d, DeltaOK(d), NEW inSegs, NEW inMembers, Write(d, inSegs, inMembers),
         NEW p \in Profiles, NEW s \in IDs, s \in inSegs <=> s \in inMembers, TornAt(p, s)'
  PROVE  TornAt(p, s)
<1>1. d.add \cap d.remove = {}
  BY DEF DeltaOK
<1>2. CASE p \notin d.profile
  <2>1. segs'[p] = segs[p]
    BY <1>2 DEF Write
  <2>2. p \in members'[s] <=> p \in members[s]
    BY <1>2 DEF Write
  <2> QED
    BY <2>1, <2>2 DEF TornAt
<1>3. CASE p \in d.profile
  <2>1. segs'[p] = (segs[p] \cup (d.add \cap inSegs)) \ (d.remove \cap inSegs)
    BY <1>3 DEF Write
  <2>2. members'[s] = CASE s \in d.add \cap inMembers -> members[s] \cup d.profile
                        [] s \in d.remove \cap inMembers -> members[s] \ d.profile
                        [] OTHER -> members[s]
    BY DEF Write
  <2>3. CASE s \in d.add \cap inMembers
    <3>1. members'[s] = members[s] \cup d.profile
      BY <1>1, <2>2, <2>3
    <3> QED
      BY <1>1, <1>3, <2>1, <2>3, <3>1 DEF TornAt
  <2>4. CASE s \in d.remove \cap inMembers
    <3>1. members'[s] = members[s] \ d.profile
      BY <1>1, <2>2, <2>4
    <3> QED
      BY <1>1, <1>3, <2>1, <2>4, <3>1 DEF TornAt
  <2>5. CASE s \notin d.add \cap inMembers /\ s \notin d.remove \cap inMembers
    <3>1. members'[s] = members[s]
      BY <2>2, <2>5
    <3> QED
      BY <1>3, <2>1, <2>5, <3>1 DEF TornAt
  <2> QED
    BY <2>3, <2>4, <2>5
<1> QED
  BY <1>2, <1>3

-----------------------------------------------------------------------------
(* The inductive invariant, a part for each group of variables.            *)

FeedInv ==
  /\ corpus \in Corpora
  /\ sent \in 0 .. Len(corpus) /\ (main = "send" => sent < Len(corpus))
  /\ topic \in Seq(Events)

\* An event is in the consumer's hand from its receipt until it is counted.
ConsumerInv ==
  /\ taken \in 0 .. Len(topic)
  /\ cons \in [at : {"select", "inserting", "stats", "reevaluate", "writing", "dead"},
               hand : {<< >>} \cup {<<e>> : e \in Events}]
  /\ cons.at = "select" => cons.hand = << >>
  /\ cons.at \in {"stats", "reevaluate", "writing"} => cons.hand # << >>
  /\ consumed = IF cons.hand = << >> THEN taken ELSE taken - 1

StoreInv ==
  /\ chBatch \in Seq(Events) /\ Len(chBatch) < BatchSize
  /\ inserting \in [Goroutines -> Seq(Events)]
  /\ \A g \in Goroutines : Len(inserting[g]) <= BatchSize
  /\ rows \in Seq(Events)

DeltaInv ==
  /\ DOMAIN delta = Goroutines /\ \A g \in Goroutines : DeltaOK(delta[g])
  /\ delta["consumer"] # NoDelta <=> cons.at = "writing"

MainInv ==
  /\ main \in {"send", "wait", "inserting", "touched", "sweep", "writing", "compared", "dead"}
  /\ todo \in SUBSET Profiles /\ settled \in BOOLEAN /\ exact \in SUBSET IDs
  /\ spent \in [Kinds -> Nat]

TypeInv == FeedInv /\ ConsumerInv /\ StoreInv /\ RedisInv /\ DeltaInv /\ MainInv

LEMMA SpendFacts ==
  ASSUME spent \in [Kinds -> Nat], NEW kind \in Kinds, Spend(kind)
  PROVE  /\ spent' \in [Kinds -> Nat]
         /\ spent'[kind] = spent[kind] + 1
         /\ \A k \in Kinds : k # kind => spent'[k] = spent[k]
BY DEF Spend

LEMMA InitTypeInv == Init => TypeInv
<1> SUFFICES ASSUME Init PROVE TypeInv
  OBVIOUS
<1>1. FeedInv
  <2>1. corpus \in [1 .. CorpusSize -> Events] /\ CorpusSize \in Nat \ {0}
    BY BenchAssumption DEF Init, Corpora
  <2>2. Len(corpus) = CorpusSize
    BY <2>1
  <2> QED
    BY <2>1, <2>2 DEF Init, FeedInv
<1>2. ConsumerInv
  BY DEF Init, ConsumerInv
<1>3. StoreInv
  BY BenchAssumption DEF Init, StoreInv
<1>4. RedisInv
  BY NoStatsOK DEF Init, RedisInv
<1>5. DeltaInv
  BY NoDeltaOK DEF Init, DeltaInv, Goroutines
<1>6. MainInv
  BY DEF Init, MainInv
<1> QED
  BY <1>1, <1>2, <1>3, <1>4, <1>5, <1>6 DEF TypeInv

LEMMA SendKeeps ==
  ASSUME TypeInv, Send
  PROVE  TypeInv' /\ UNCHANGED <<redisVars, delta>>
<1>1. /\ main = "send" /\ sent' = sent + 1 /\ Produce(corpus[sent + 1])
      /\ main' = IF sent' = Len(corpus) THEN "wait" ELSE "send"
      /\ UNCHANGED <<corpus, taken, consumed, cons, chBatch, inserting, rows, stats, segs,
                     members, delta, todo, settled, exact>>
  BY DEF Send, consumerVars, storeVars, redisVars
<1>2. Len(corpus) \in Nat /\ sent \in Nat /\ sent < Len(corpus) /\ corpus[sent + 1] \in Events
  <2>1. corpus \in [1 .. CorpusSize -> Events] /\ CorpusSize \in Nat
    BY BenchAssumption DEF TypeInv, FeedInv, Corpora
  <2>2. Len(corpus) = CorpusSize
    BY <2>1
  <2>3. sent \in 0 .. Len(corpus) /\ sent < Len(corpus)
    BY <1>1 DEF TypeInv, FeedInv
  <2> QED
    BY <2>1, <2>2, <2>3
<1> DEFINE e == corpus[sent + 1]
<1>3. topic \in Seq(Events) /\ spent \in [Kinds -> Nat] /\ {"resends", "produces"} \subseteq Kinds
  BY DEF TypeInv, FeedInv, MainInv, Kinds
<1>4. topic' = topic \/ topic' = Append(topic, e) \/ topic' = topic \o <<e, e>>
  BY <1>1 DEF Produce
<1> HIDE DEF e
<1>5. topic' \in Seq(Events) /\ Len(topic') >= Len(topic)
  <2>1. e \in Events
    BY <1>2 DEF e
  <2>2. <<e, e>> \in Seq(Events) /\ Len(<<e, e>>) = 2
    BY <2>1
  <2>3. topic \o <<e, e>> \in Seq(Events) /\ Len(topic \o <<e, e>>) = Len(topic) + 2
    BY <1>3, <2>2, ConcatProperties
  <2>4. Append(topic, e) \in Seq(Events) /\ Len(Append(topic, e)) = Len(topic) + 1
    BY <1>3, <2>1, AppendProperties
  <2> DEFINE n == Len(topic)
  <2>5. n \in Nat
    BY <1>3
  <2>6. topic' \in Seq(Events)
    BY <1>3, <1>4, <2>3, <2>4
  <2>7. Len(topic') = n \/ Len(topic') = n + 1 \/ Len(topic') = n + 2
    BY <1>4, <2>3, <2>4
  <2> HIDE DEF n
  <2>8. Len(topic') >= n
    BY <2>5, <2>7
  <2> QED
    BY <2>6, <2>8 DEF n
<1>6. spent' \in [Kinds -> Nat]
  BY <1>1, <1>3, SpendFacts DEF Produce
<1>7. FeedInv'
  BY <1>1, <1>2, <1>5 DEF TypeInv, FeedInv
<1>8. ConsumerInv'
  BY <1>1, <1>3, <1>5 DEF TypeInv, ConsumerInv
<1>9. StoreInv' /\ RedisInv' /\ DeltaInv'
  BY <1>1 DEF TypeInv, StoreInv, RedisInv, DeltaInv
<1>10. MainInv'
  BY <1>1, <1>6 DEF TypeInv, MainInv
<1> QED
  BY <1>1, <1>7, <1>8, <1>9, <1>10 DEF TypeInv, redisVars

LEMMA InsertedKeeps ==
  ASSUME StoreInv, MainInv, NEW g \in Goroutines, Inserted(g)
  PROVE  /\ StoreInv' /\ spent' \in [Kinds -> Nat] /\ spent'["redis"] = spent["redis"]
         /\ \A h \in Goroutines : h # g => inserting'[h] = inserting[h]
<1>1. /\ rows' = rows \o inserting[g] \/ rows' = rows
      /\ inserting' = [inserting EXCEPT ![g] = << >>] /\ chBatch' = chBatch
      /\ UNCHANGED spent \/ Spend("store")
  BY DEF Inserted
<1>2. rows' \in Seq(Events)
  <2>1. rows \in Seq(Events) /\ inserting[g] \in Seq(Events)
    BY DEF StoreInv
  <2>2. rows \o inserting[g] \in Seq(Events)
    BY <2>1, ConcatProperties
  <2> QED
    BY <1>1, <2>1, <2>2
<1>3. StoreInv'
  BY <1>1, <1>2, BenchAssumption DEF StoreInv
<1>4. spent' \in [Kinds -> Nat] /\ spent'["redis"] = spent["redis"]
  BY <1>1, SpendFacts DEF MainInv, Kinds
<1> QED
  BY <1>1, <1>3, <1>4 DEF StoreInv

LEMMA FlushKeeps ==
  ASSUME StoreInv, NEW g \in Goroutines, NEW batch \in Seq(Events), Len(batch) <= BatchSize,
         Flush(g, batch), UNCHANGED rows
  PROVE  StoreInv'
<1>1. inserting' = [inserting EXCEPT ![g] = batch] /\ chBatch' = << >>
  BY DEF Flush
<1>2. chBatch' \in Seq(Events) /\ Len(chBatch') < BatchSize
  BY <1>1, BenchAssumption
<1> QED
  BY <1>1, <1>2 DEF StoreInv

\* Steps of the consumer that leave Redis alone.
LEMMA StoreStepKeeps ==
  ASSUME TypeInv, Receive \/ FlushTick \/ ConsumerInserted
  PROVE  TypeInv' /\ UNCHANGED <<feedVars, redisVars, delta, mainVars>> /\ spent'["redis"] = spent["redis"]
<1>1. /\ UNCHANGED <<corpus, sent, topic, stats, segs, members, delta, main, todo, settled, exact>>
      /\ UNCHANGED <<feedVars, redisVars, delta, mainVars>>
  BY DEF Receive, FlushTick, ConsumerInserted, feedVars, redisVars, mainVars
<1>2. "consumer" \in Goroutines /\ topic \in Seq(Events)
  BY DEF Goroutines, TypeInv, FeedInv
<1>3. cons.at # "writing" /\ cons'.at # "writing" => DeltaInv'
  BY <1>1 DEF TypeInv, DeltaInv
<1>4. FeedInv' /\ RedisInv'
  BY <1>1 DEF TypeInv, FeedInv, RedisInv
<1>5. ASSUME UNCHANGED spent PROVE MainInv' /\ spent'["redis"] = spent["redis"]
  BY <1>1, <1>5 DEF TypeInv, MainInv
<1>6. CASE Receive
  <2> DEFINE e == topic[taken + 1]
             batch == Append(chBatch, e)
  <2>1. /\ cons.at = "select" /\ taken < Len(topic) /\ taken' = taken + 1 /\ consumed' = consumed
        /\ UNCHANGED <<rows, spent>>
        /\ IF Len(batch) >= BatchSize
           THEN Flush("consumer", batch) /\ cons' = [at |-> "inserting", hand |-> <<e>>]
           ELSE chBatch' = batch /\ cons' = [at |-> "stats", hand |-> <<e>>] /\ inserting' = inserting
    BY <1>6 DEF Receive
  <2>2. /\ e \in Events /\ taken \in Nat /\ cons.hand = << >> /\ consumed = taken
        /\ Len(topic) \in Nat
    BY <1>2, <2>1 DEF TypeInv, ConsumerInv
  <2>3. /\ chBatch \in Seq(Events) /\ Len(chBatch) < BatchSize /\ batch \in Seq(Events)
        /\ Len(batch) = Len(chBatch) + 1
    BY <2>2 DEF TypeInv, StoreInv
  <2> HIDE DEF e, batch
  <2>4. Len(batch) <= BatchSize
    BY <2>3, BenchAssumption
  <2>5. StoreInv'
    <3>1. CASE Len(batch) >= BatchSize
      BY <1>2, <2>1, <2>3, <2>4, <3>1, FlushKeeps DEF TypeInv
    <3>2. CASE ~(Len(batch) >= BatchSize)
      <4>1. chBatch' = batch /\ inserting' = inserting /\ rows' = rows
        BY <2>1, <3>2
      <4>2. Len(batch) < BatchSize
        BY <2>3, <3>2, BenchAssumption
      <4> QED
        BY <2>3, <4>1, <4>2 DEF TypeInv, StoreInv
    <3> QED
      BY <3>1, <3>2
  <2>6. /\ cons'.at \in {"inserting", "stats"} /\ cons'.hand = <<e>>
        /\ cons' \in [at : {"inserting", "stats"}, hand : {<<e>>}]
    BY <2>1
  <2>7. <<e>> # << >>
    OBVIOUS
  <2>8. ConsumerInv'
    BY <1>1, <2>1, <2>2, <2>6, <2>7 DEF ConsumerInv
  <2>9. DeltaInv'
    BY <1>3, <2>1, <2>6
  <2> QED
    BY <1>1, <1>4, <1>5, <2>1, <2>5, <2>8, <2>9 DEF TypeInv
<1>7. CASE FlushTick
  <2>1. /\ cons.at = "select" /\ Flush("consumer", chBatch) /\ cons' = [cons EXCEPT !.at = "inserting"]
        /\ UNCHANGED <<taken, consumed, rows, spent>>
    BY <1>7 DEF FlushTick
  <2>2. StoreInv'
    <3>1. chBatch \in Seq(Events) /\ Len(chBatch) <= BatchSize
      BY BenchAssumption DEF TypeInv, StoreInv
    <3> QED
      BY <1>2, <2>1, <3>1, FlushKeeps DEF TypeInv
  <2>3. cons'.at = "inserting" /\ cons'.hand = cons.hand /\ cons' = [at |-> "inserting", hand |-> cons.hand]
    BY <2>1 DEF TypeInv, ConsumerInv
  <2>4. ConsumerInv'
    BY <1>1, <2>1, <2>3 DEF TypeInv, ConsumerInv
  <2> QED
    BY <1>1, <1>3, <1>4, <1>5, <2>1, <2>2, <2>3, <2>4 DEF TypeInv
<1>8. CASE ConsumerInserted
  <2>1. /\ cons.at = "inserting" /\ Inserted("consumer")
        /\ cons' = [cons EXCEPT !.at = IF cons.hand = << >> THEN "select" ELSE "stats"]
        /\ UNCHANGED <<taken, consumed>>
    BY <1>8 DEF ConsumerInserted
  <2>2. StoreInv' /\ spent' \in [Kinds -> Nat] /\ spent'["redis"] = spent["redis"]
    BY <1>2, <2>1, InsertedKeeps DEF TypeInv
  <2>3. /\ cons'.hand = cons.hand /\ cons'.at = IF cons.hand = << >> THEN "select" ELSE "stats"
        /\ cons' = [at |-> cons'.at, hand |-> cons.hand]
    BY <2>1 DEF TypeInv, ConsumerInv
  <2>4. ConsumerInv'
    BY <1>1, <2>1, <2>3 DEF TypeInv, ConsumerInv
  <2>5. MainInv'
    BY <1>1, <2>2 DEF TypeInv, MainInv
  <2> QED
    BY <1>1, <1>3, <1>4, <2>1, <2>2, <2>3, <2>4, <2>5 DEF TypeInv
<1> QED
  BY <1>6, <1>7, <1>8

-----------------------------------------------------------------------------
(* How far a step of an event in Redis, or of the sweep, tears the two     *)
(* sets apart.                                                             *)

\* Nothing is torn by the step but one pair at most.
TearsOne == \E pair : Torn' \subseteq Torn \cup {pair}
TearsNone == Torn' \subseteq Torn

LEMMA SetsUntouched ==
  ASSUME UNCHANGED <<segs, members>>
  PROVE  TearsNone
BY DEF TearsNone, Torn

LEMMA WholeWriteTearsNone ==
  ASSUME RedisInv, NEW d, DeltaOK(d), DeltaWritten(d)
  PROVE  TearsNone
<1> DEFINE all == d.add \cup d.remove
<1>1. Write(d, all, all)
  BY DEF DeltaWritten
<1>2. segs \in [Profiles -> SUBSET IDs] /\ members \in [IDs -> SUBSET Profiles]
  BY DEF RedisInv
<1> HIDE DEF all
<1>3. ASSUME NEW p \in Profiles, NEW s \in IDs, TornAt(p, s)' PROVE TornAt(p, s)
  BY <1>1, <1>2, <1>3, WriteAt
<1> QED
  BY <1>3 DEF TearsNone, Torn, TornAt

\* The one segment whose commands broke off between its two sets.
LEMMA CutTearsOne ==
  ASSUME RedisInv, NEW d, DeltaOK(d), DeltaCut(d)
  PROVE  TearsOne
<1>1. PICK whole \in SUBSET (d.add \cup d.remove) :
        \E half \in SUBSET ((d.add \cup d.remove) \ whole) :
          Cardinality(half) <= 1 /\ Write(d, whole \cup half, whole)
  BY DEF DeltaCut
<1>2. PICK half \in SUBSET ((d.add \cup d.remove) \ whole) :
        Cardinality(half) <= 1 /\ Write(d, whole \cup half, whole)
  BY <1>1
<1>3. segs \in [Profiles -> SUBSET IDs] /\ members \in [IDs -> SUBSET Profiles]
  BY DEF RedisInv
<1>4. half \in SUBSET IDs /\ d.profile \in {{}} \cup {{p} : p \in Profiles}
  BY DEF DeltaOK
<1>5. half = {} \/ \E x : half = {x}
  <2>1. IsFiniteSet(half)
    BY <1>4, SegmentsAssumption, FS_Subset DEF IDs
  <2>2. Cardinality(half) \in Nat
    BY <2>1, FS_CardinalityType
  <2>3. Cardinality(half) = 0 \/ Cardinality(half) = 1
    BY <1>2, <2>2
  <2> QED
    BY <2>1, <2>3, FS_EmptySet, FS_Singleton
<1>6. PICK x : half \subseteq {x}
  BY <1>5
<1>7. PICK q : d.profile \subseteq {q}
  BY <1>4
<1>8. ASSUME NEW p \in Profiles, NEW s \in IDs, TornAt(p, s)' PROVE TornAt(p, s) \/ (p = q /\ s = x)
  <2>1. CASE s \notin half
    <3>1. s \in whole \cup half <=> s \in whole
      BY <2>1
    <3> QED
      BY <1>2, <1>3, <1>8, <3>1, WriteAt
  <2>2. CASE p \notin d.profile
    <3>1. segs'[p] = segs[p] /\ (p \in members'[s] <=> p \in members[s])
      BY <1>2, <2>2 DEF Write
    <3> QED
      BY <1>8, <3>1 DEF TornAt
  <2>3. CASE s \in half /\ p \in d.profile
    BY <1>6, <1>7, <2>3
  <2> QED
    BY <2>1, <2>2, <2>3
<1>9. Torn' \subseteq Torn \cup {<<q, x>>}
  <2> SUFFICES ASSUME NEW pair \in Profiles \X IDs, TornAt(pair[1], pair[2])'
               PROVE  TornAt(pair[1], pair[2]) \/ pair = <<q, x>>
    BY DEF Torn, TornAt
  <2>1. pair[1] \in Profiles /\ pair[2] \in IDs /\ pair = <<pair[1], pair[2]>>
    OBVIOUS
  <2> QED
    BY <1>8, <2>1
<1> QED
  BY <1>9 DEF TearsOne

\* At most as many pairs are torn as errors of Redis were met.
TornInv == IsFiniteSet(Torn) /\ Cardinality(Torn) <= spent["redis"]

LEMMA TearsNoneKeeps ==
  ASSUME TornInv, TearsNone, spent["redis"] \in Nat, spent'["redis"] \in Nat,
         spent'["redis"] >= spent["redis"]
  PROVE  TornInv'
<1>1. IsFiniteSet(Torn') /\ Cardinality(Torn') <= Cardinality(Torn)
  BY FS_Subset DEF TornInv, TearsNone
<1>2. Cardinality(Torn') \in Nat /\ Cardinality(Torn) \in Nat
  BY <1>1, FS_CardinalityType DEF TornInv
<1> QED
  BY <1>1, <1>2 DEF TornInv

LEMMA TearsOneKeeps ==
  ASSUME TornInv, TearsOne, spent["redis"] \in Nat, spent'["redis"] = spent["redis"] + 1
  PROVE  TornInv'
<1>1. PICK pair : Torn' \subseteq Torn \cup {pair}
  BY DEF TearsOne
<1> DEFINE more == Torn \cup {pair}
<1>2. Cardinality(Torn) \in Nat
  BY FS_CardinalityType DEF TornInv
<1>3. /\ IsFiniteSet(more)
      /\ Cardinality(more) = IF pair \in Torn THEN Cardinality(Torn) ELSE Cardinality(Torn) + 1
  BY FS_AddElement DEF TornInv
<1>4. IsFiniteSet(Torn') /\ Cardinality(Torn') <= Cardinality(more)
  BY <1>1, <1>3, FS_Subset
<1>5. Cardinality(Torn') \in Nat /\ Cardinality(more) \in Nat
  BY <1>3, <1>4, FS_CardinalityType
<1> QED
  BY <1>2, <1>3, <1>4, <1>5 DEF TornInv

-----------------------------------------------------------------------------
(* Each step keeps the types, and tears no more than its error accounts    *)
(* for.                                                                    *)

Tears ==
  \/ TearsNone /\ spent'["redis"] \in {spent["redis"], spent["redis"] + 1}
  \/ TearsOne /\ spent'["redis"] = spent["redis"] + 1

\* The state around the event in the consumer's hand.
LEMMA EventFacts ==
  ASSUME TypeInv, cons.at \in {"stats", "reevaluate", "writing"}
  PROVE  /\ Event \in Events /\ Event.profile \in Profiles /\ cons.hand # << >>
         /\ consumed = taken - 1 /\ taken \in 0 .. Len(topic)
         /\ "consumer" \in Goroutines /\ spent["redis"] \in Nat
<1>1. PICK e \in Events : cons.hand = <<e>>
  BY DEF TypeInv, ConsumerInv
<1>2. Event = e
  BY <1>1 DEF Event
<1> QED
  BY <1>1, <1>2, BenchAssumption DEF TypeInv, ConsumerInv, Goroutines, MainInv, Kinds

LEMMA DoneKeeps ==
  ASSUME TypeInv, cons.at \in {"stats", "reevaluate", "writing"}, Done,
         UNCHANGED <<taken, topic>>
  PROVE  ConsumerInv' /\ DeltaInv'
<1>1. /\ cons' = [at |-> "select", hand |-> << >>] /\ consumed' = consumed + 1
      /\ delta' = [delta EXCEPT !["consumer"] = NoDelta]
  BY DEF Done
<1>2. consumed = taken - 1 /\ taken \in 0 .. Len(topic) /\ "consumer" \in Goroutines
  BY EventFacts
<1>3. ConsumerInv'
  BY <1>1, <1>2 DEF ConsumerInv
<1>4. DeltaInv'
  BY <1>1, <1>2, NoDeltaOK DEF TypeInv, DeltaInv
<1> QED
  BY <1>3, <1>4

LEMMA ApplyKeeps ==
  ASSUME TypeInv, ApplyStats \/ ApplyStatsFails
  PROVE  /\ TypeInv' /\ Tears
         /\ UNCHANGED <<feedVars, storeVars, segs, members, mainVars>> /\ cons.at = "stats"
         /\ \A p \in Profiles : stats'[p].total >= stats[p].total
<1> DEFINE p == Event.profile
           once == Applied(stats[p], Event)
<1>1. /\ cons.at = "stats" /\ UNCHANGED <<feedVars, storeVars, segs, members, mainVars, taken>>
      /\ stats' \in {stats, [stats EXCEPT ![p] = once], [stats EXCEPT ![p] = Applied(once, Event)]}
      /\ UNCHANGED spent \/ Spend("redis")
      /\ \/ cons' = [cons EXCEPT !.at = "reevaluate"] /\ UNCHANGED <<consumed, delta>>
         \/ Done
  BY DEF ApplyStats, ApplyStatsFails
<1>2. /\ UNCHANGED <<corpus, sent, topic, chBatch, inserting, rows, segs, members>>
      /\ UNCHANGED <<main, todo, settled, exact>>
  BY <1>1 DEF feedVars, storeVars, mainVars
<1>3. /\ p \in Profiles /\ cons.hand # << >> /\ consumed = taken - 1 /\ spent["redis"] \in Nat
      /\ taken \in 0 .. Len(topic)
  BY <1>1, EventFacts
<1>4. \A q \in Profiles : StatsOK(stats[q])
  BY DEF TypeInv, RedisInv
<1>5. StatsOK(once) /\ once.total = stats[p].total + 1
  BY <1>3, <1>4, AppliedOK
<1>6. StatsOK(Applied(once, Event)) /\ Applied(once, Event).total = once.total + 1
  BY <1>5, AppliedOK
<1> HIDE DEF once, p
<1>7. /\ DOMAIN stats' = Profiles
      /\ \A q \in Profiles : StatsOK(stats'[q]) /\ stats'[q].total >= stats[q].total
  <2>1. \A q \in Profiles : stats[q].total \in Nat
    BY <1>4 DEF StatsOK
  <2>2. DOMAIN stats = Profiles
    BY DEF TypeInv, RedisInv
  <2>3. CASE stats' = stats
    BY <1>4, <2>1, <2>2, <2>3
  <2>4. CASE stats' = [stats EXCEPT ![p] = once]
    BY <1>3, <1>4, <1>5, <2>1, <2>2, <2>4
  <2>5. CASE stats' = [stats EXCEPT ![p] = Applied(once, Event)]
    BY <1>3, <1>4, <1>5, <1>6, <2>1, <2>2, <2>5
  <2> QED
    BY <1>1, <2>3, <2>4, <2>5
<1>8. RedisInv'
  BY <1>2, <1>7 DEF TypeInv, RedisInv
<1>9. ConsumerInv' /\ DeltaInv'
  <2>1. CASE cons' = [cons EXCEPT !.at = "reevaluate"] /\ UNCHANGED <<consumed, delta>>
    <3>1. cons' = [at |-> "reevaluate", hand |-> cons.hand] /\ cons'.at = "reevaluate" /\ cons'.hand = cons.hand
      BY <2>1 DEF TypeInv, ConsumerInv
    <3>2. ConsumerInv'
      BY <1>1, <1>2, <1>3, <2>1, <3>1 DEF TypeInv, ConsumerInv
    <3>3. DeltaInv'
      BY <1>1, <2>1, <3>1 DEF TypeInv, DeltaInv
    <3> QED
      BY <3>2, <3>3
  <2>2. CASE Done
    BY <1>1, <1>2, <2>2, DoneKeeps
  <2> QED
    BY <1>1, <2>1, <2>2
<1>10. spent' \in [Kinds -> Nat] /\ spent'["redis"] \in {spent["redis"], spent["redis"] + 1}
  BY <1>1, SpendFacts DEF TypeInv, MainInv, Kinds
<1>11. FeedInv' /\ StoreInv' /\ MainInv'
  BY <1>2, <1>10 DEF TypeInv, FeedInv, StoreInv, MainInv
<1>12. TearsNone
  BY <1>2, SetsUntouched
<1> QED
  BY <1>1, <1>7, <1>8, <1>9, <1>10, <1>11, <1>12 DEF TypeInv, Tears

LEMMA ReevaluateKeeps ==
  ASSUME TypeInv, Reevaluate \/ ReevaluateFails
  PROVE  /\ TypeInv' /\ Tears
         /\ UNCHANGED <<feedVars, storeVars, redisVars, mainVars>> /\ cons.at = "reevaluate"
         /\ \/ delta' = [delta EXCEPT !["consumer"] = Delta(Event.profile, Event.ts)]
            \/ delta' = [delta EXCEPT !["consumer"] = NoDelta]
<1> DEFINE d == Delta(Event.profile, Event.ts)
<1>1. /\ cons.at = "reevaluate" /\ UNCHANGED <<feedVars, storeVars, redisVars, mainVars, taken>>
      /\ UNCHANGED spent \/ Spend("redis")
      /\ \/ /\ delta' = [delta EXCEPT !["consumer"] = d] /\ consumed' = consumed
            /\ cons' = [cons EXCEPT !.at = "writing"]
         \/ Done
  BY DEF Reevaluate, ReevaluateFails
<1>2. /\ UNCHANGED <<corpus, sent, topic, chBatch, inserting, rows, stats, segs, members>>
      /\ UNCHANGED <<main, todo, settled, exact>>
  BY <1>1 DEF feedVars, storeVars, redisVars, mainVars
<1>3. /\ Event.profile \in Profiles /\ cons.hand # << >> /\ consumed = taken - 1
      /\ taken \in 0 .. Len(topic) /\ "consumer" \in Goroutines
  BY <1>1, EventFacts
<1>4. DeltaOK(d) /\ d # NoDelta
  BY <1>3, DeltaIsOK DEF TypeInv, RedisInv
<1> HIDE DEF d
<1>5. ConsumerInv' /\ DeltaInv'
  <2>1. CASE /\ delta' = [delta EXCEPT !["consumer"] = d] /\ consumed' = consumed
             /\ cons' = [cons EXCEPT !.at = "writing"]
    <3>1. cons' = [at |-> "writing", hand |-> cons.hand] /\ cons'.at = "writing" /\ cons'.hand = cons.hand
      BY <2>1 DEF TypeInv, ConsumerInv
    <3>2. ConsumerInv'
      BY <1>1, <1>2, <1>3, <2>1, <3>1 DEF TypeInv, ConsumerInv
    <3>3. DeltaInv'
      BY <1>3, <1>4, <2>1, <3>1 DEF TypeInv, DeltaInv
    <3> QED
      BY <3>2, <3>3
  <2>2. CASE Done
    BY <1>1, <1>2, <2>2, DoneKeeps
  <2> QED
    BY <1>1, <2>1, <2>2
<1>6. spent' \in [Kinds -> Nat] /\ spent'["redis"] \in {spent["redis"], spent["redis"] + 1}
  BY <1>1, SpendFacts DEF TypeInv, MainInv, Kinds
<1>7. FeedInv' /\ StoreInv' /\ RedisInv' /\ MainInv'
  BY <1>2, <1>6 DEF TypeInv, FeedInv, StoreInv, RedisInv, MainInv
<1>8. TearsNone
  BY <1>2, SetsUntouched
<1> QED
  BY <1>1, <1>5, <1>6, <1>7, <1>8 DEF TypeInv, Tears, Done, d

LEMMA WriteDeltaKeeps ==
  ASSUME TypeInv, WriteDelta
  PROVE  /\ TypeInv' /\ Tears /\ UNCHANGED <<feedVars, storeVars, stats, mainVars>>
         /\ cons.at = "writing" /\ delta' = [delta EXCEPT !["consumer"] = NoDelta]
         /\ \E inSegs, inMembers : Write(delta["consumer"], inSegs, inMembers)
<1> DEFINE d == delta["consumer"]
<1>1. /\ cons.at = "writing" /\ Done /\ UNCHANGED <<feedVars, storeVars, stats, mainVars, taken>>
      /\ \/ DeltaWritten(d) /\ UNCHANGED spent
         \/ DeltaCut(d) /\ Spend("redis")
  BY DEF WriteDelta
<1>2. /\ UNCHANGED <<corpus, sent, topic, chBatch, inserting, rows, stats>>
      /\ UNCHANGED <<main, todo, settled, exact>>
  BY <1>1 DEF feedVars, storeVars, mainVars
<1>3. DeltaOK(d) /\ RedisInv /\ spent \in [Kinds -> Nat] /\ "redis" \in Kinds
  BY DEF TypeInv, DeltaInv, Goroutines, MainInv, Kinds
<1>4. \E inSegs, inMembers : Write(d, inSegs, inMembers)
  BY <1>1 DEF DeltaWritten, DeltaCut
<1> HIDE DEF d
<1>5. segs' \in [Profiles -> SUBSET IDs] /\ members' \in [IDs -> SUBSET Profiles]
  BY <1>3, <1>4, WriteTypes DEF RedisInv
<1>6. RedisInv'
  BY <1>2, <1>3, <1>5 DEF RedisInv
<1>7. ConsumerInv' /\ DeltaInv'
  BY <1>1, <1>2, DoneKeeps
<1>8. Tears /\ spent' \in [Kinds -> Nat]
  <2>1. CASE DeltaWritten(d) /\ UNCHANGED spent
    BY <1>3, <2>1, WholeWriteTearsNone DEF Tears
  <2>2. CASE DeltaCut(d) /\ Spend("redis")
    BY <1>3, <2>2, CutTearsOne, SpendFacts DEF Tears
  <2> QED
    BY <1>1, <2>1, <2>2
<1>9. FeedInv' /\ StoreInv' /\ MainInv'
  BY <1>2, <1>8 DEF TypeInv, FeedInv, StoreInv, MainInv
<1> QED
  BY <1>1, <1>4, <1>6, <1>7, <1>8, <1>9 DEF TypeInv, Done, d

LEMMA StopWaitingKeeps ==
  ASSUME TypeInv, StopWaiting \/ MainInserted
  PROVE  /\ TypeInv' /\ Tears /\ UNCHANGED <<feedVars, consumerVars, redisVars, delta, todo, exact>>
         /\ main' \in {"inserting", "touched"}
         /\ settled' = settled \/ settled' = (consumed = Len(topic))
<1>1. /\ UNCHANGED <<feedVars, consumerVars, redisVars, delta, todo, exact>>
      /\ UNCHANGED <<corpus, sent, topic, taken, consumed, cons, stats, segs, members>>
      /\ main' \in {"inserting", "touched"} /\ main \in {"wait", "inserting"}
      /\ settled' = settled \/ settled' = (consumed = Len(topic))
  BY DEF StopWaiting, MainInserted, feedVars, consumerVars, redisVars
<1>2. settled' \in BOOLEAN
  BY <1>1 DEF TypeInv, MainInv
<1>3. StoreInv' /\ spent' \in [Kinds -> Nat] /\ spent'["redis"] = spent["redis"]
  <2>1. CASE StopWaiting
    <3>1. chBatch \in Seq(Events) /\ Len(chBatch) <= BatchSize /\ "main" \in Goroutines
      BY BenchAssumption DEF TypeInv, StoreInv, Goroutines
    <3>2. Flush("main", chBatch) /\ UNCHANGED <<rows, spent>>
      BY <2>1 DEF StopWaiting
    <3> QED
      BY <3>1, <3>2, FlushKeeps DEF TypeInv, MainInv
  <2>2. CASE MainInserted
    BY <2>2, InsertedKeeps DEF MainInserted, TypeInv, Goroutines
  <2> QED
    BY <2>1, <2>2
<1>4. FeedInv' /\ ConsumerInv' /\ RedisInv' /\ DeltaInv'
  BY <1>1 DEF TypeInv, FeedInv, ConsumerInv, RedisInv, DeltaInv
<1>5. MainInv'
  BY <1>1, <1>2, <1>3 DEF TypeInv, MainInv
<1>6. Tears
  BY <1>1, <1>3, SetsUntouched DEF Tears
<1> QED
  BY <1>1, <1>3, <1>4, <1>5, <1>6 DEF TypeInv

LEMMA SweepKeeps ==
  ASSUME TypeInv, NEW p \in Profiles, Sweep(p)
  PROVE  TypeInv' /\ Tears
<1> DEFINE d == Delta(p, SimNow)
<1>1. /\ UNCHANGED <<feedVars, consumerVars, storeVars, redisVars, settled, exact, spent>>
      /\ UNCHANGED <<corpus, sent, topic, taken, consumed, cons, chBatch, inserting, rows>>
      /\ UNCHANGED <<stats, segs, members>>
      /\ main = "sweep" /\ todo' = todo \ {p}
      /\ \/ delta' = [delta EXCEPT !["main"] = d] /\ main' = "writing"
         \/ UNCHANGED <<delta, main>>
  BY DEF Sweep, feedVars, consumerVars, storeVars, redisVars
<1>2. DeltaOK(d) /\ "main" \in Goroutines /\ "main" # "consumer"
  BY DeltaIsOK DEF TypeInv, RedisInv, Goroutines
<1> HIDE DEF d
<1>3. DeltaInv'
  <2>1. CASE delta' = [delta EXCEPT !["main"] = d]
    <3>1. DOMAIN delta' = Goroutines /\ delta'["consumer"] = delta["consumer"]
      BY <1>2, <2>1 DEF TypeInv, DeltaInv
    <3>2. \A g \in Goroutines : DeltaOK(delta'[g])
      BY <1>2, <2>1 DEF TypeInv, DeltaInv
    <3> QED
      BY <1>1, <3>1, <3>2 DEF TypeInv, DeltaInv
  <2>2. CASE UNCHANGED delta
    BY <1>1, <2>2 DEF TypeInv, DeltaInv
  <2> QED
    BY <1>1, <2>1, <2>2
<1>4. MainInv' /\ spent'["redis"] = spent["redis"]
  BY <1>1 DEF TypeInv, MainInv
<1>5. FeedInv' /\ ConsumerInv' /\ StoreInv' /\ RedisInv'
  BY <1>1 DEF TypeInv, FeedInv, ConsumerInv, StoreInv, RedisInv
<1>6. Tears
  BY <1>1, <1>4, SetsUntouched DEF Tears
<1> QED
  BY <1>3, <1>4, <1>5, <1>6 DEF TypeInv

LEMMA SweepWritesKeeps ==
  ASSUME TypeInv, SweepWrites
  PROVE  TypeInv' /\ Tears
<1> DEFINE d == delta["main"]
<1>1. /\ UNCHANGED <<corpus, sent, topic, taken, consumed, cons, chBatch, inserting, rows>>
      /\ UNCHANGED <<stats, todo, settled, exact, spent>>
      /\ main = "writing" /\ main' = "sweep" /\ DeltaWritten(d)
      /\ delta' = [delta EXCEPT !["main"] = NoDelta]
  BY DEF SweepWrites, feedVars, consumerVars, storeVars
<1>2. DeltaOK(d) /\ RedisInv
  BY DEF TypeInv, DeltaInv, Goroutines
<1> HIDE DEF d
<1>3. RedisInv'
  BY <1>1, <1>2, WriteTypes DEF RedisInv, DeltaWritten
<1>4. DeltaInv'
  BY <1>1, NoDeltaOK DEF TypeInv, DeltaInv, Goroutines
<1>5. FeedInv' /\ ConsumerInv' /\ StoreInv' /\ MainInv' /\ spent' = spent
  BY <1>1 DEF TypeInv, FeedInv, ConsumerInv, StoreInv, MainInv
<1>6. Tears
  BY <1>2, <1>1, WholeWriteTearsNone DEF Tears
<1> QED
  BY <1>3, <1>4, <1>5, <1>6 DEF TypeInv

LEMMA QuietMainKeeps ==
  ASSUME TypeInv, Touched \/ Compare
  PROVE  TypeInv' /\ Tears
<1>1. /\ UNCHANGED <<corpus, sent, topic, taken, consumed, cons, chBatch, inserting, rows>>
      /\ UNCHANGED <<stats, segs, members, delta, settled, spent>>
      /\ main' \in {"sweep", "compared"} /\ main \in {"touched", "sweep"}
      /\ todo' \in SUBSET Profiles \/ todo' = todo
      /\ exact' \in SUBSET IDs \/ exact' = exact
  BY DEF Touched, Compare, feedVars, consumerVars, storeVars, redisVars
<1>2. MainInv' /\ spent'["redis"] = spent["redis"]
  BY <1>1 DEF TypeInv, MainInv
<1>3. FeedInv' /\ ConsumerInv' /\ StoreInv' /\ RedisInv' /\ DeltaInv'
  BY <1>1 DEF TypeInv, FeedInv, ConsumerInv, StoreInv, RedisInv, DeltaInv
<1>4. Tears
  BY <1>1, <1>2, SetsUntouched DEF Tears
<1> QED
  BY <1>2, <1>3, <1>4 DEF TypeInv

LEMMA MainDiesKeeps ==
  ASSUME TypeInv, MainDies
  PROVE  TypeInv' /\ Tears
<1>1. /\ UNCHANGED <<corpus, sent, topic, taken, consumed, chBatch, inserting, rows>>
      /\ UNCHANGED <<stats, todo, settled, exact>>
      /\ main' = "dead" /\ cons' = [cons EXCEPT !.at = "dead"] /\ Spend("redis")
      /\ delta' = [g \in Goroutines |-> NoDelta]
      /\ UNCHANGED <<segs, members>> \/ DeltaCut(delta["main"])
  BY DEF MainDies, feedVars, storeVars
<1>2. /\ DeltaOK(delta["main"]) /\ RedisInv /\ "consumer" \in Goroutines
      /\ spent \in [Kinds -> Nat] /\ "redis" \in Kinds
  BY DEF TypeInv, DeltaInv, MainInv, Goroutines, Kinds
<1>3. spent' \in [Kinds -> Nat] /\ spent'["redis"] = spent["redis"] + 1
  BY <1>1, <1>2, SpendFacts
<1>4. segs' \in [Profiles -> SUBSET IDs] /\ members' \in [IDs -> SUBSET Profiles]
  <2>1. CASE UNCHANGED <<segs, members>>
    BY <1>2, <2>1 DEF RedisInv
  <2>2. CASE DeltaCut(delta["main"])
    <3>1. \E inSegs, inMembers : Write(delta["main"], inSegs, inMembers)
      BY <2>2 DEF DeltaCut
    <3> QED
      BY <1>2, <3>1, WriteTypes DEF RedisInv
  <2> QED
    BY <1>1, <2>1, <2>2
<1>5. cons' = [at |-> "dead", hand |-> cons.hand] /\ cons'.at = "dead" /\ cons'.hand = cons.hand
  BY <1>1 DEF TypeInv, ConsumerInv
<1>6. ConsumerInv'
  BY <1>1, <1>5 DEF TypeInv, ConsumerInv
<1>7. DeltaInv'
  BY <1>1, <1>2, <1>5, NoDeltaOK DEF DeltaInv
<1>8. FeedInv' /\ StoreInv' /\ MainInv' /\ RedisInv'
  BY <1>1, <1>2, <1>3, <1>4 DEF TypeInv, FeedInv, StoreInv, MainInv, RedisInv
<1>9. Tears
  BY <1>1, <1>2, <1>3, SetsUntouched, CutTearsOne DEF Tears
<1> QED
  BY <1>6, <1>7, <1>8, <1>9 DEF TypeInv

LEMMA NextKeeps ==
  ASSUME TypeInv, [Next]_vars
  PROVE  TypeInv' /\ Tears
<1>1. ASSUME UNCHANGED <<redisVars, delta>>, spent'["redis"] = spent["redis"] PROVE Tears
  BY <1>1, SetsUntouched DEF Tears, redisVars
<1>2. CASE Consume
  BY <1>1, <1>2, StoreStepKeeps, ApplyKeeps, ReevaluateKeeps, WriteDeltaKeeps DEF Consume
<1>3. CASE Send
  <2>1. spent'["redis"] = spent["redis"]
    BY <1>3, SpendFacts DEF Send, Produce, TypeInv, MainInv, Kinds
  <2> QED
    BY <1>1, <1>3, <2>1, SendKeeps
<1>4. CASE MainStep /\ ~Send
  BY <1>4, StopWaitingKeeps, QuietMainKeeps, SweepKeeps, SweepWritesKeeps DEF MainStep
<1>5. CASE MainDies
  BY <1>5, MainDiesKeeps
<1>6. CASE UNCHANGED vars
  <2>1. UNCHANGED <<corpus, sent, topic, taken, consumed, cons, chBatch, inserting, rows, stats,
                    segs, members, delta, main, todo, settled, exact, spent>>
    BY <1>6 DEF vars, feedVars, consumerVars, storeVars, redisVars, mainVars
  <2>2. TypeInv'
    BY <2>1 DEF TypeInv, FeedInv, ConsumerInv, StoreInv, RedisInv, DeltaInv, MainInv
  <2> QED
    BY <1>1, <2>1, <2>2 DEF redisVars
<1> QED
  BY <1>2, <1>3, <1>4, <1>5, <1>6 DEF Next, MainStep

\* The state is well-formed at any moment of a run: no batch outgrows its size,
\* an event stays in the consumer's hand until it is counted, and a profile
\* holds no more purchases than it made (main's two goroutines, ApplyEvent).
THEOREM TypesHold == Spec => []TypeOK
<1>1. TypeInv => TypeOK
  <2> SUFFICES ASSUME TypeInv PROVE TypeOK
    OBVIOUS
  <2>1. consumed \in {taken, taken - 1} /\ (consumed = taken <=> cons.hand = << >>)
    BY DEF TypeInv, ConsumerInv
  <2> QED
    BY <2>1 DEF TypeInv, FeedInv, ConsumerInv, StoreInv, RedisInv, StatsOK, DeltaInv, MainInv, TypeOK
<1> QED
  BY <1>1, InitTypeInv, NextKeeps, PTL DEF Spec

LEMMA TornKeeps ==
  ASSUME TypeInv, TornInv, [Next]_vars
  PROVE  TornInv'
<1>1. Tears /\ spent["redis"] \in Nat
  BY NextKeeps DEF TypeInv, MainInv, Kinds
<1>2. CASE TearsNone /\ spent'["redis"] \in {spent["redis"], spent["redis"] + 1}
  BY <1>1, <1>2, TearsNoneKeeps
<1>3. CASE TearsOne /\ spent'["redis"] = spent["redis"] + 1
  BY <1>1, <1>3, TearsOneKeeps
<1> QED
  BY <1>1, <1>2, <1>3 DEF Tears

\* Each error of Redis tears at most one pair of the two membership sets, and
\* nothing else does: not the other goroutine, not a delta that was computed
\* before the other one's was written (reevaluate, ApplyEvent, Finalize).
THEOREM SetsAgreeHolds == Spec => []SetsAgree
<1> DEFINE Inv == TypeInv /\ TornInv
<1>1. Init => Inv
  <2> SUFFICES ASSUME Init PROVE TornInv
    BY InitTypeInv
  <2>1. Torn = {}
    BY DEF Init, Torn
  <2>2. spent["redis"] = 0
    BY DEF Init, Kinds
  <2> QED
    BY <2>1, <2>2, FS_EmptySet DEF TornInv
<1>2. Inv /\ [Next]_vars => Inv'
  BY NextKeeps, TornKeeps
<1>3. Inv => SetsAgree
  BY DEF TornInv, SetsAgree
<1> QED
  BY <1>1, <1>2, <1>3, PTL DEF Spec

-----------------------------------------------------------------------------
(* What the comparison starts from.                                        *)

UpToDate(p) == segs[p] = EvaluateProfile(stats[p], SimNow)

\* Only a profile with an event in Redis, which the sweep will therefore
\* visit, has a membership or is about to get one.
TouchedInv ==
  /\ \A p \in Profiles : segs[p] # {} => stats[p].total > 0
  /\ \A g \in Goroutines : delta[g].add # {} => \A p \in delta[g].profile : stats[p].total > 0

\* Once all of the topic has been applied, the consumer has nothing in hand.
SettledInv == settled => main \notin {"send", "wait"} /\ consumed = Len(topic)

\* The sweep is done with all but the profiles of todo, and the one that main
\* has a delta for.
SweptInv ==
  /\ settled /\ main = "sweep" => \A p \in Profiles \ todo : UpToDate(p)
  /\ settled /\ main = "writing" =>
       \E q \in Profiles : /\ delta["main"] = Delta(q, SimNow)
                           /\ \A p \in Profiles \ todo : p = q \/ UpToDate(p)

LEMMA EvaluatedIsTouched ==
  ASSUME RedisInv, NEW p \in Profiles, NEW now, EvaluateProfile(stats[p], now) # {}
  PROVE  stats[p].total > 0
BY DEF RedisInv, StatsOK, EvaluateProfile

\* What a step may do to the state of profiles, their sets and the deltas.
Moves ==
  /\ \A p \in Profiles : stats'[p].total >= stats[p].total
  /\ \/ UNCHANGED segs
     \/ \E g \in Goroutines : \E inSegs, inMembers : Write(delta[g], inSegs, inMembers)
  /\ \A g \in Goroutines :
       delta'[g] \in {delta[g], NoDelta} \/ \E p \in Profiles : \E now : delta'[g] = Delta(p, now)

LEMMA TotalsStay ==
  ASSUME TypeInv, UNCHANGED stats
  PROVE  \A p \in Profiles : stats'[p].total >= stats[p].total
BY DEF TypeInv, RedisInv, StatsOK

LEMMA StepMoves ==
  ASSUME TypeInv, [Next]_vars
  PROVE  Moves
<1>1. DOMAIN delta = Goroutines /\ "main" \in Goroutines /\ "consumer" \in Goroutines
  BY DEF TypeInv, DeltaInv, Goroutines
<1>2. ASSUME UNCHANGED <<redisVars, delta>> PROVE Moves
  BY <1>2, TotalsStay DEF Moves, redisVars
<1>3. CASE Receive \/ FlushTick \/ ConsumerInserted \/ Send \/ StopWaiting \/ MainInserted
           \/ Touched \/ Compare
  BY <1>2, <1>3, StoreStepKeeps, SendKeeps, StopWaitingKeeps DEF Touched, Compare
<1>4. CASE ApplyStats \/ ApplyStatsFails
  <2>1. UNCHANGED segs /\ \A p \in Profiles : stats'[p].total >= stats[p].total
    BY <1>4, ApplyKeeps
  <2>2. UNCHANGED delta \/ delta' = [delta EXCEPT !["consumer"] = NoDelta]
    BY <1>4 DEF ApplyStats, ApplyStatsFails, Done
  <2> QED
    BY <1>1, <2>1, <2>2 DEF Moves
<1>5. CASE Reevaluate \/ ReevaluateFails
  <2>1. UNCHANGED <<stats, segs>> /\ cons.at = "reevaluate"
    BY <1>5, ReevaluateKeeps DEF redisVars
  <2>2. Event.profile \in Profiles
    BY <2>1, EventFacts
  <2>3. \/ delta' = [delta EXCEPT !["consumer"] = Delta(Event.profile, Event.ts)]
        \/ delta' = [delta EXCEPT !["consumer"] = NoDelta]
    BY <1>5, ReevaluateKeeps
  <2>4. \A g \in Goroutines :
          delta'[g] \in {delta[g], NoDelta} \/ delta'[g] = Delta(Event.profile, Event.ts)
    BY <1>1, <2>3
  <2> QED
    BY <2>1, <2>2, <2>4, TotalsStay DEF Moves
<1>6. CASE WriteDelta
  <2>1. UNCHANGED stats /\ delta' = [delta EXCEPT !["consumer"] = NoDelta]
    BY <1>6, WriteDeltaKeeps
  <2> QED
    BY <1>1, <1>6, <2>1, WriteDeltaKeeps, TotalsStay DEF Moves
<1>7. ASSUME NEW p \in Profiles, Sweep(p) PROVE Moves
  <2>1. UNCHANGED <<stats, segs>>
    BY <1>7 DEF Sweep, redisVars
  <2>2. UNCHANGED delta \/ delta' = [delta EXCEPT !["main"] = Delta(p, SimNow)]
    BY <1>7 DEF Sweep
  <2>3. \A g \in Goroutines : delta'[g] = delta[g] \/ delta'[g] = Delta(p, SimNow)
    BY <1>1, <2>2
  <2> QED
    BY <2>1, <2>3, TotalsStay DEF Moves
<1>8. CASE SweepWrites
  <2>1. UNCHANGED stats /\ delta' = [delta EXCEPT !["main"] = NoDelta] /\ DeltaWritten(delta["main"])
    BY <1>8 DEF SweepWrites
  <2> QED
    BY <1>1, <2>1, TotalsStay DEF Moves, DeltaWritten
<1>9. CASE MainDies
  <2>1. /\ UNCHANGED stats /\ delta' = [g \in Goroutines |-> NoDelta]
        /\ UNCHANGED segs \/ DeltaCut(delta["main"])
    BY <1>9 DEF MainDies
  <2> QED
    BY <1>1, <2>1, TotalsStay DEF Moves, DeltaCut
<1>10. CASE UNCHANGED vars
  BY <1>2, <1>10 DEF vars
<1> QED
  BY <1>3, <1>4, <1>5, <1>6, <1>7, <1>8, <1>9, <1>10 DEF Next, Consume, MainStep

LEMMA TouchedKeeps ==
  ASSUME TypeInv, TouchedInv, RedisInv', Moves
  PROVE  TouchedInv'
<1>1. \A p \in Profiles : stats[p].total \in Nat /\ stats'[p].total \in Nat
  BY DEF TypeInv, RedisInv, StatsOK
<1>2. \A p \in Profiles : stats[p].total > 0 => stats'[p].total > 0
  BY <1>1 DEF Moves
<1>3. ASSUME NEW p \in Profiles, segs'[p] # {} PROVE stats'[p].total > 0
  <2>1. CASE UNCHANGED segs
    BY <1>2, <1>3, <2>1 DEF TouchedInv
  <2>2. CASE \E g \in Goroutines : \E inSegs, inMembers : Write(delta[g], inSegs, inMembers)
    <3>1. PICK g \in Goroutines : \E inSegs, inMembers : Write(delta[g], inSegs, inMembers)
      BY <2>2
    <3>2. segs[p] # {} \/ (p \in delta[g].profile /\ delta[g].add # {})
      BY <1>3, <3>1 DEF Write
    <3> QED
      BY <1>2, <3>1, <3>2 DEF TouchedInv
  <2> QED
    BY <2>1, <2>2 DEF Moves
<1>4. ASSUME NEW g \in Goroutines, delta'[g].add # {}, NEW p \in delta'[g].profile
      PROVE  stats'[p].total > 0
  <2>1. CASE delta'[g] \in {delta[g], NoDelta}
    <3>1. delta'[g] = delta[g]
      BY <1>4, <2>1 DEF NoDelta
    <3>2. stats[p].total > 0 /\ p \in Profiles
      BY <1>4, <3>1 DEF TouchedInv, TypeInv, DeltaInv, DeltaOK
    <3> QED
      BY <1>2, <3>2
  <2>2. CASE \E q \in Profiles : \E now : delta'[g] = Delta(q, now)
    <3>1. PICK q \in Profiles : \E now : delta'[g] = Delta(q, now)
      BY <2>2
    <3>2. PICK now : delta'[g] = Delta(q, now)
      BY <3>1
    <3>3. p = q /\ EvaluateProfile(stats[q], now) # {}
      BY <1>4, <3>2 DEF Delta
    <3>4. stats[p].total > 0
      BY <3>1, <3>3, EvaluatedIsTouched DEF TypeInv
    <3> QED
      BY <1>2, <3>1, <3>3, <3>4
  <2> QED
    BY <2>1, <2>2 DEF Moves
<1> QED
  BY <1>3, <1>4 DEF TouchedInv

\* A settled run leaves the consumer nothing but its last insert.
LEMMA SettledSteps ==
  ASSUME TypeInv, SettledInv, settled, [Next]_vars
  PROVE  \/ UNCHANGED <<corpus, topic, consumed, redisVars, delta, mainVars>>
         \/ StopWaiting \/ MainInserted \/ Touched \/ SweepWrites \/ Compare \/ MainDies
         \/ \E p \in Profiles : Sweep(p)
<1>1. taken = Len(topic) /\ cons.at \notin {"stats", "reevaluate", "writing"}
  BY DEF TypeInv, FeedInv, ConsumerInv, SettledInv
<1>2. CASE Consume
  <2>1. FlushTick \/ ConsumerInserted
    BY <1>1, <1>2 DEF Consume, Receive, ApplyStats, ApplyStatsFails, Reevaluate, ReevaluateFails,
                      WriteDelta, TypeInv, FeedInv
  <2> QED
    BY <2>1 DEF FlushTick, ConsumerInserted, feedVars
<1>3. CASE UNCHANGED vars
  BY <1>3 DEF vars, feedVars, consumerVars
<1>4. ~Send
  BY DEF SettledInv, Send
<1> QED
  BY <1>2, <1>3, <1>4 DEF Next, MainStep

LEMMA SettledKeeps ==
  ASSUME TypeInv, SettledInv, [Next]_vars
  PROVE  SettledInv'
<1>1. CASE settled
  <2>1. CASE UNCHANGED <<corpus, topic, consumed, redisVars, delta, mainVars>>
    BY <1>1, <2>1 DEF SettledInv, mainVars
  <2>2. CASE StopWaiting
    BY <1>1, <2>2 DEF StopWaiting, SettledInv
  <2>3. CASE MainInserted \/ Touched \/ SweepWrites \/ Compare \/ MainDies \/ \E p \in Profiles : Sweep(p)
    <3>1. UNCHANGED <<topic, consumed>>
      BY <2>3 DEF MainInserted, Touched, SweepWrites, Compare, MainDies, Sweep, feedVars, consumerVars
    <3>2. main' \notin {"send", "wait"}
      BY <2>3 DEF MainInserted, Touched, SweepWrites, Compare, MainDies, Sweep
    <3> QED
      BY <1>1, <3>1, <3>2 DEF SettledInv
  <2> QED
    BY <1>1, <2>1, <2>2, <2>3, SettledSteps
<1>2. CASE ~settled
  <2>1. CASE StopWaiting
    BY <2>1 DEF StopWaiting, SettledInv, feedVars, consumerVars
  <2>2. CASE ~StopWaiting
    <3>1. settled' = settled
      BY <2>2 DEF Next, vars, mainVars, Consume, Receive, FlushTick, ConsumerInserted, ApplyStats,
                  ApplyStatsFails, Reevaluate, ReevaluateFails, WriteDelta, MainStep, Send,
                  MainInserted, Touched, Sweep, SweepWrites, Compare, MainDies
    <3> QED
      BY <1>2, <3>1 DEF SettledInv
  <2> QED
    BY <2>1, <2>2
<1> QED
  BY <1>1, <1>2

LEMMA StaysUpToDate ==
  ASSUME UNCHANGED <<corpus, stats>>, NEW p \in Profiles, UpToDate(p), segs'[p] = segs[p]
  PROVE  UpToDate(p)'
BY DEF UpToDate, SimNow

\* Main's delta was computed from the state it is written to.
LEMMA SweepWritesBringsUpToDate ==
  ASSUME RedisInv, SweepWrites, NEW q \in Profiles, delta["main"] = Delta(q, SimNow)
  PROVE  UpToDate(q)' /\ \A p \in Profiles : p # q => segs'[p] = segs[p]
<1> DEFINE want == EvaluateProfile(stats[q], SimNow)
           d == delta["main"]
<1>1. UNCHANGED <<corpus, stats>> /\ Write(d, d.add \cup d.remove, d.add \cup d.remove)
  BY DEF SweepWrites, DeltaWritten, feedVars
<1>2. d.profile = {q} /\ d.add = want \ segs[q] /\ d.remove = segs[q] \ want
  BY DEF Delta
<1>3. want' = want
  BY <1>1 DEF SimNow
<1> HIDE DEF d, want
<1>4. segs'[q] = want
  BY <1>1, <1>2 DEF Write
<1>5. \A p \in Profiles : p # q => segs'[p] = segs[p]
  BY <1>1, <1>2 DEF Write
<1> QED
  BY <1>3, <1>4, <1>5 DEF UpToDate, want

LEMMA SweptKeeps ==
  ASSUME TypeInv, TouchedInv, SettledInv, SweptInv, [Next]_vars
  PROVE  SweptInv'
<1>1. SUFFICES ASSUME settled', main' \in {"sweep", "writing"} PROVE SweptInv'
  BY DEF SweptInv
<1>2. settled
  <2>1. CASE StopWaiting
    BY <1>1, <2>1 DEF StopWaiting
  <2>2. CASE ~StopWaiting
    BY <1>1, <2>2 DEF Next, vars, mainVars, Consume, Receive, FlushTick, ConsumerInserted, ApplyStats,
                      ApplyStatsFails, Reevaluate, ReevaluateFails, WriteDelta, MainStep, Send,
                      MainInserted, Touched, Sweep, SweepWrites, Compare, MainDies
  <2> QED
    BY <2>1, <2>2
<1>3. ASSUME UNCHANGED <<corpus, stats, segs>>, NEW p \in Profiles, UpToDate(p)
      PROVE  UpToDate(p)'
  BY <1>3, StaysUpToDate
<1>4. CASE UNCHANGED <<corpus, topic, consumed, redisVars, delta, mainVars>>
  <2>1. UNCHANGED <<corpus, stats, segs, delta, main, todo, settled>>
    BY <1>4 DEF redisVars, mainVars
  <2>2. \A q : Delta(q, SimNow)' = Delta(q, SimNow)
    BY <2>1 DEF Delta, SimNow
  <2> QED
    BY <1>3, <2>1, <2>2 DEF SweptInv
<1>5. CASE Touched
  <2>1. /\ UNCHANGED <<corpus, stats, segs>> /\ main' = "sweep"
        /\ todo' = {p \in Profiles : stats[p].total > 0}
    BY <1>5 DEF Touched, feedVars, redisVars
  <2>2. ASSUME NEW p \in Profiles \ todo' PROVE UpToDate(p)'
    <3>1. segs[p] = {} /\ EvaluateProfile(stats[p], SimNow) = {}
      BY <2>1, EvaluatedIsTouched DEF TouchedInv, TypeInv
    <3> QED
      BY <1>3, <2>1, <3>1 DEF UpToDate
  <2> QED
    BY <2>1, <2>2 DEF SweptInv
<1>6. ASSUME NEW q \in Profiles, Sweep(q) PROVE SweptInv'
  <2>1. /\ UNCHANGED <<corpus, stats, segs>> /\ main = "sweep" /\ todo' = todo \ {q}
        /\ IF Changed(Delta(q, SimNow))
           THEN delta' = [delta EXCEPT !["main"] = Delta(q, SimNow)] /\ main' = "writing"
           ELSE UNCHANGED <<delta, main>>
    BY <1>6 DEF Sweep, feedVars, redisVars
  <2>2. \A p \in Profiles \ todo' : p = q \/ UpToDate(p)'
    BY <1>2, <1>3, <2>1 DEF SweptInv
  <2>3. CASE Changed(Delta(q, SimNow))
    <3>1. delta'["main"] = Delta(q, SimNow) /\ main' = "writing"
      BY <2>1, <2>3 DEF TypeInv, DeltaInv, Goroutines
    <3>2. Delta(q, SimNow)' = Delta(q, SimNow)
      BY <2>1 DEF Delta, SimNow
    <3> QED
      BY <2>2, <3>1, <3>2 DEF SweptInv
  <2>4. CASE ~Changed(Delta(q, SimNow))
    <3>1. segs[q] \ EvaluateProfile(stats[q], SimNow) = {} /\ EvaluateProfile(stats[q], SimNow) \ segs[q] = {}
      BY <2>4 DEF Changed, Delta
    <3>2. UpToDate(q)
      BY <3>1 DEF UpToDate, TypeInv, RedisInv
    <3> QED
      BY <1>3, <2>1, <2>2, <2>4, <3>2 DEF SweptInv
  <2> QED
    BY <2>3, <2>4
<1>7. CASE SweepWrites
  <2>1. main = "writing" /\ main' = "sweep" /\ UNCHANGED <<corpus, stats, todo>>
    BY <1>7 DEF SweepWrites, feedVars
  <2>2. PICK q \in Profiles : /\ delta["main"] = Delta(q, SimNow)
                              /\ \A p \in Profiles \ todo : p = q \/ UpToDate(p)
    BY <1>2, <2>1 DEF SweptInv
  <2>3. UpToDate(q)' /\ \A p \in Profiles : p # q => segs'[p] = segs[p]
    BY <1>7, <2>2, SweepWritesBringsUpToDate DEF TypeInv
  <2>4. \A p \in Profiles \ todo : UpToDate(p)'
    BY <2>1, <2>2, <2>3, StaysUpToDate
  <2> QED
    BY <2>1, <2>4 DEF SweptInv
<1>8. ~StopWaiting /\ ~MainInserted /\ ~Compare /\ ~MainDies
  BY <1>1 DEF StopWaiting, MainInserted, Compare, MainDies
<1> QED
  BY <1>2, <1>4, <1>5, <1>6, <1>7, <1>8, SettledSteps

\* "Finalize is what actually resolves every time-elapsed transition": for any
\* corpus and segments, and whatever pipelines broke or were carried out twice
\* before it, the comparison finds every profile's set as its state demands
\* (Finalize, reevaluate, main's wait for the consumer).
THEOREM FinalizeResolvesHolds == Spec => FinalizeResolves
<1> DEFINE Inv == TypeInv /\ TouchedInv /\ SettledInv /\ SweptInv
           Resolved == \A p \in Profiles : segs[p] = EvaluateProfile(stats[p], SimNow)
<1>1. Init => Inv
  <2> SUFFICES ASSUME Init PROVE TouchedInv /\ SettledInv /\ SweptInv
    BY InitTypeInv
  <2>1. TouchedInv
    BY DEF Init, TouchedInv, NoDelta
  <2> QED
    BY <2>1 DEF Init, SettledInv, SweptInv
<1>2. Inv /\ [Next]_vars => Inv'
  <2> SUFFICES ASSUME Inv, [Next]_vars PROVE Inv'
    OBVIOUS
  <2>1. TypeInv' /\ SettledInv' /\ SweptInv'
    BY NextKeeps, SettledKeeps, SweptKeeps
  <2> QED
    BY <2>1, StepMoves, TouchedKeeps DEF TypeInv
<1>3. Inv => [Compare /\ settled => Resolved]_vars
  <2> SUFFICES ASSUME Inv, Compare, settled PROVE Resolved
    OBVIOUS
  <2>1. main = "sweep" /\ todo = {}
    BY DEF Compare
  <2> QED
    BY <2>1 DEF SweptInv, UpToDate
<1> QED
  BY <1>1, <1>2, <1>3, PTL DEF Spec, FinalizeResolves

-----------------------------------------------------------------------------
(* What Redis has counted of a profile is what the messages applied so far *)
(* hold of it.                                                             *)

\* Messages that Redis has the effect of.
AppliedTo == IF cons.at \in {"reevaluate", "writing"} THEN taken ELSE consumed

AppliedOf(p) == {n \in 1 .. AppliedTo : topic[n].profile = p}

ViewsOf(q, group, c) == {n \in OfType(q, group, "page_view") : q[n].category = c}

Counts(s, q, group) ==
  /\ s.total = Cardinality(group)
  /\ s.purchases = Cardinality(OfType(q, group, "purchase"))
  /\ DOMAIN s.views = Categories
  /\ \A c \in Categories : s.views[c] = Cardinality(ViewsOf(q, group, c))

LEMMA NothingCounted ==
  ASSUME NEW q
  PROVE  Counts(NoStats, q, {})
<1>1. OfType(q, {}, "purchase") = {} /\ \A c \in Categories : ViewsOf(q, {}, c) = {}
  BY DEF OfType, ViewsOf
<1>2. /\ NoStats.total = 0 /\ NoStats.purchases = 0 /\ DOMAIN NoStats.views = Categories
      /\ \A c \in Categories : NoStats.views[c] = 0
  BY DEF NoStats
<1> QED
  BY <1>1, <1>2, FS_EmptySet DEF Counts

LEMMA OneMore ==
  ASSUME NEW S, IsFiniteSet(S), NEW n, n \notin S
  PROVE  IsFiniteSet(S \cup {n}) /\ Cardinality(S \cup {n}) = Cardinality(S) + 1
BY FS_AddElement

\* Applying an event counts it, once, in the counters it belongs to.
LEMMA AppliedCounts ==
  ASSUME NEW s, StatsOK(s), NEW q, NEW group, IsFiniteSet(group), Counts(s, q, group),
         NEW n, n \notin group, NEW e \in Events, q[n] = e
  PROVE  Counts(Applied(s, e), q, group \cup {n})
<1> DEFINE t == [s EXCEPT !.total = @ + 1, !.last = e.ts]
           a == Applied(s, e)
           more == group \cup {n}
           bought == OfType(q, group, "purchase")
<1>1. /\ DOMAIN t = StatFields /\ t.total = s.total + 1 /\ t.purchases = s.purchases
      /\ t.views = s.views
  BY DEF StatsOK, StatFields
<1>2. Cardinality(more) = Cardinality(group) + 1
  BY OneMore
<1>3. \A type : /\ IsFiniteSet(OfType(q, group, type))
                /\ n \notin OfType(q, group, type)
                /\ OfType(q, more, type) = IF e.type = type THEN OfType(q, group, type) \cup {n}
                                           ELSE OfType(q, group, type)
  <2> SUFFICES ASSUME NEW type
               PROVE  /\ IsFiniteSet(OfType(q, group, type))
                      /\ n \notin OfType(q, group, type)
                      /\ OfType(q, more, type) = IF e.type = type THEN OfType(q, group, type) \cup {n}
                                                 ELSE OfType(q, group, type)
    OBVIOUS
  <2>1. OfType(q, group, type) \in SUBSET group
    BY DEF OfType
  <2>2. IsFiniteSet(OfType(q, group, type))
    BY <2>1, FS_Subset
  <2>3. OfType(q, more, type) = IF e.type = type THEN OfType(q, group, type) \cup {n}
                                ELSE OfType(q, group, type)
    BY DEF OfType
  <2> QED
    BY <2>1, <2>2, <2>3
<1>4. Cardinality(OfType(q, more, "purchase")) =
        IF e.type = "purchase" THEN Cardinality(bought) + 1 ELSE Cardinality(bought)
  BY <1>3, OneMore
<1>5. ASSUME NEW c \in Categories
      PROVE  Cardinality(ViewsOf(q, more, c)) =
               IF e.type = "page_view" /\ e.category = c THEN Cardinality(ViewsOf(q, group, c)) + 1
               ELSE Cardinality(ViewsOf(q, group, c))
  <2>1. ViewsOf(q, group, c) \in SUBSET OfType(q, group, "page_view")
    BY DEF ViewsOf
  <2>2. IsFiniteSet(ViewsOf(q, group, c)) /\ n \notin ViewsOf(q, group, c)
    BY <1>3, <2>1, FS_Subset
  <2>3. ViewsOf(q, more, c) =
          IF e.type = "page_view" /\ e.category = c THEN ViewsOf(q, group, c) \cup {n}
          ELSE ViewsOf(q, group, c)
    <3> PICK old : old = OfType(q, group, "page_view")
      OBVIOUS
    <3> PICK new : new = OfType(q, more, "page_view")
      OBVIOUS
    <3>1. new = IF e.type = "page_view" THEN old \cup {n} ELSE old
      BY <1>3
    <3>2. {k \in new : q[k].category = c} =
            IF e.type = "page_view" /\ e.category = c THEN {k \in old : q[k].category = c} \cup {n}
            ELSE {k \in old : q[k].category = c}
      BY <3>1
    <3> QED
      BY <3>2 DEF ViewsOf
  <2> QED
    BY <2>2, <2>3, OneMore
<1>6. s.total = Cardinality(group) /\ s.purchases = Cardinality(bought)
      /\ DOMAIN s.views = Categories
      /\ \A c \in Categories : s.views[c] = Cardinality(ViewsOf(q, group, c))
  BY DEF Counts
<1>7. e.category \in Categories \cup {NoCategory} /\ NoCategory \notin Categories
  BY BenchAssumption, SegmentsAssumption
<1> HIDE DEF t, more, bought
<1>8. CASE e.type = "purchase"
  <2>1. a = [t EXCEPT !.purchases = @ + 1, !.lastPurchase = e.ts, !.purch = WithPurchase(@, e)]
    BY <1>8 DEF Applied, t
  <2>2. a.total = t.total /\ a.purchases = t.purchases + 1 /\ a.views = t.views
    BY <1>1, <2>1 DEF StatFields
  <2> QED
    BY <1>1, <1>2, <1>4, <1>5, <1>6, <1>8, <2>2 DEF Counts, more
<1>9. CASE e.type # "purchase" /\ ~(e.type = "page_view" /\ e.category # NoCategory)
  <2>1. a = t \/ a = [t EXCEPT !.lastCart = e.ts]
    BY <1>9 DEF Applied, t
  <2>2. a.total = t.total /\ a.purchases = t.purchases /\ a.views = t.views
    BY <1>1, <2>1 DEF StatFields
  <2>3. \A c \in Categories : Cardinality(ViewsOf(q, more, c)) = Cardinality(ViewsOf(q, group, c))
    BY <1>5, <1>7, <1>9
  <2> QED
    BY <1>1, <1>2, <1>4, <1>6, <1>9, <2>2, <2>3 DEF Counts, more
<1>10. CASE e.type = "page_view" /\ e.category # NoCategory
  <2>1. a = [t EXCEPT !.views[e.category] = @ + 1]
    BY <1>10 DEF Applied, t
  <2>2. a.total = t.total /\ a.purchases = t.purchases /\ a.views = [t.views EXCEPT ![e.category] = @ + 1]
    BY <1>1, <2>1 DEF StatFields
  <2>3. DOMAIN a.views = Categories
        /\ \A c \in Categories : a.views[c] = IF e.category = c THEN s.views[c] + 1 ELSE s.views[c]
    BY <1>1, <1>6, <2>2
  <2>4. \A c \in Categories : a.views[c] = Cardinality(ViewsOf(q, more, c))
    BY <1>5, <1>6, <1>10, <2>3
  <2> QED
    BY <1>1, <1>2, <1>4, <1>6, <1>10, <2>2, <2>3, <2>4 DEF Counts, more
<1> QED
  BY <1>8, <1>9, <1>10

-----------------------------------------------------------------------------
(* Without a time in them, both answers to a segment read the same counts. *)

\* Induction on finite sets, by a least counterexample.
LEMMA LeastSet ==
  ASSUME NEW S, IsFiniteSet(S), NEW T, T \subseteq SUBSET S, T # {}
  PROVE  \E x \in T : \A y \in T : y \subseteq x => y = x
<1>1. IsWellFoundedOn(StrictSubsetOrdering(S), SUBSET S)
  BY FS_StrictSubsetOrderingWellFounded, FS_FiniteSubsetsOfFinite
<1>2. PICK x \in T : \A y \in T : ~(<<y, x>> \in StrictSubsetOrdering(S))
  BY <1>1, WFMin
<1> QED
  BY <1>2 DEF StrictSubsetOrdering

IsLatest(q, group, m) == \A n \in group : q[n].ts <= q[m].ts

LEMMA HasLatest ==
  ASSUME NEW q, NEW group, IsFiniteSet(group), group # {}, \A n \in group : q[n].ts \in Int
  PROVE  \E m \in group : IsLatest(q, group, m)
<1> DEFINE Bad == {s \in SUBSET group : s # {} /\ \A m \in s : ~IsLatest(q, s, m)}
<1>1. SUFFICES ASSUME Bad # {} PROVE FALSE
  OBVIOUS
<1>2. PICK s \in Bad : \A y \in Bad : y \subseteq s => y = s
  <2>1. Bad \subseteq SUBSET group
    OBVIOUS
  <2> HIDE DEF Bad
  <2> QED
    BY <1>1, <2>1, LeastSet
<1>3. s \in SUBSET group /\ \A m \in s : ~IsLatest(q, s, m)
  OBVIOUS
<1>4. PICK x \in s : TRUE
  OBVIOUS
<1> DEFINE r == s \ {x}
<1>5. r \notin Bad /\ r \in SUBSET group
  BY <1>2, <1>3, <1>4
<1>6. r # {}
  <2>1. SUFFICES ASSUME r = {} PROVE FALSE
    OBVIOUS
  <2>2. s = {x} /\ q[x].ts \in Int
    BY <1>3, <1>4, <2>1
  <2>3. IsLatest(q, s, x)
    BY <2>2 DEF IsLatest
  <2> QED
    BY <1>3, <1>4, <2>3
<1>7. PICK m \in r : IsLatest(q, r, m)
  BY <1>5, <1>6
<1>8. q[m].ts \in Int /\ q[x].ts \in Int /\ \A n \in s : (n = x \/ n \in r) /\ q[n].ts \in Int
  BY <1>3, <1>4
<1>9. IsLatest(q, s, m) \/ IsLatest(q, s, x)
  BY <1>7, <1>8 DEF IsLatest
<1> QED
  BY <1>3, <1>4, <1>7, <1>9

LEMMA LatestBounds ==
  ASSUME NEW q, NEW group, IsFiniteSet(group), \A n \in group : q[n].ts \in Int
  PROVE  IsFiniteSet(group) /\ \A n \in group : q[n].ts <= Latest(q, group)
<1> DEFINE ts == {q[n].ts : n \in group}
<1>1. SUFFICES ASSUME group # {} PROVE \A n \in group : q[n].ts <= Latest(q, group)
  OBVIOUS
<1>2. PICK m \in group : IsLatest(q, group, m)
  BY <1>1, HasLatest
<1>3. ts # {} /\ \A t \in ts : t \in Int
  BY <1>1
<1>4. \E x \in ts : \A y \in ts : x >= y
  BY <1>2, <1>3 DEF IsLatest
<1>5. Latest(q, group) = Max(ts)
  BY <1>3 DEF Latest
<1> HIDE DEF ts
<1>6. Max(ts) \in ts /\ \A y \in ts : Max(ts) >= y
  BY <1>4 DEF Max
<1>7. \A y \in ts : y <= Latest(q, group)
  BY <1>3, <1>5, <1>6
<1> QED
  BY <1>7 DEF ts

UntimedIDs == {s \in IDs : Segments[s].family \in Untimed}

\* The time of evaluation does not matter to these segments.
LEMMA AnyTime ==
  ASSUME NEW s, NEW now, NEW later
  PROVE  EvaluateProfile(s, now) \cap UntimedIDs = EvaluateProfile(s, later) \cap UntimedIDs
<1>1. ASSUME NEW id \in UntimedIDs
      PROVE  Matches(s, Segments[id], now) = Matches(s, Segments[id], later)
  <2>1. Segments[id].family \in Untimed
    BY DEF UntimedIDs
  <2>2. CASE Segments[id].family = "category_view_min"
    BY <2>2 DEF Matches
  <2>3. CASE Segments[id].family = "never_purchased"
    BY <2>3 DEF Matches
  <2>4. CASE Segments[id].family = "multi_category_shopper_min"
    BY <2>4 DEF Matches
  <2> QED
    BY <2>1, <2>2, <2>3, <2>4 DEF Untimed
<1> QED
  BY <1>1 DEF EvaluateProfile

LEMMA UntimedAgree ==
  ASSUME NEW s, NEW q, NEW group, IsFiniteSet(group), Counts(s, q, group),
         \A n \in group : q[n].category \in Categories \cup {NoCategory},
         NEW id \in UntimedIDs, Comparable(Segments[id].family, q, group), NEW now, NEW asOf
  PROVE  id \in EvaluateProfile(s, now) <=> Having(q, group, Segments[id], asOf)
<1> DEFINE seg == Segments[id]
           bought == OfType(q, group, "purchase")
           views == OfType(q, group, "page_view")
<1>1. /\ s.total = Cardinality(group) /\ s.purchases = Cardinality(bought)
      /\ \A c \in Categories : s.views[c] = Cardinality(ViewsOf(q, group, c))
  BY DEF Counts
<1>2. /\ bought \in SUBSET group /\ views \in SUBSET group
      /\ \A c \in Categories : ViewsOf(q, group, c) \in SUBSET views
  BY DEF OfType, ViewsOf
<1>3. /\ IsFiniteSet(bought) /\ IsFiniteSet(views)
      /\ \A c \in Categories : IsFiniteSet(ViewsOf(q, group, c))
  BY <1>2, FS_Subset
<1>4. /\ Cardinality(group) \in Nat /\ Cardinality(bought) \in Nat
      /\ \A c \in Categories : Cardinality(ViewsOf(q, group, c)) \in Nat
  BY <1>3, FS_CardinalityType
<1>5. /\ Cardinality(group) = 0 <=> group = {}
      /\ Cardinality(bought) = 0 <=> bought = {}
      /\ \A c \in Categories : Cardinality(ViewsOf(q, group, c)) = 0 <=> ViewsOf(q, group, c) = {}
  BY <1>3, FS_EmptySet
<1>6. id \in IDs /\ seg.family \in Untimed
  BY DEF UntimedIDs
<1>7. id \in EvaluateProfile(s, now) <=> s.total > 0 /\ Matches(s, seg, now)
  <2>1. s.total = 0 <=> ~(s.total > 0)
    BY <1>1, <1>4
  <2> QED
    BY <1>6, <2>1 DEF EvaluateProfile
<1>8. CASE seg.family = "category_view_min"
  <2>1. seg.Category \in Categories /\ seg.MinCount \in Nat \ {0}
    BY <1>6, <1>8, SegmentsAssumption DEF IDs, Parameters
  <2>2. Matches(s, seg, now) <=> Cardinality(ViewsOf(q, group, seg.Category)) >= seg.MinCount
    BY <1>1, <1>8, <2>1 DEF Matches
  <2>3. Having(q, group, seg, asOf) <=> Cardinality(ViewsOf(q, group, seg.Category)) >= seg.MinCount
    BY <1>8 DEF Having, ViewsOf
  <2>4. Cardinality(ViewsOf(q, group, seg.Category)) >= seg.MinCount => s.total > 0
    BY <1>1, <1>2, <1>4, <1>5, <2>1
  <2> QED
    BY <1>7, <2>2, <2>3, <2>4
<1>9. CASE seg.family = "never_purchased"
  <2>1. Matches(s, seg, now) <=> s.total > 0 /\ s.purchases = 0
    BY <1>9 DEF Matches
  <2>2. Having(q, group, seg, asOf) <=> group # {} /\ bought = {}
    BY <1>9 DEF Having
  <2>3. s.total > 0 <=> group # {}
    BY <1>1, <1>4, <1>5
  <2> QED
    BY <1>1, <1>5, <1>7, <2>1, <2>2, <2>3
<1>10. CASE seg.family = "multi_category_shopper_min"
  <2>1. seg.MinDistinct \in Nat \ {0}
    BY <1>6, <1>10, SegmentsAssumption DEF IDs, Parameters
  <2>2. \A n \in views : q[n].category # NoCategory
    BY <1>10 DEF Comparable, Categorized
  <2>3. Viewed(s) = {q[n].category : n \in views}
    <3>1. \A c \in Categories : s.views[c] > 0 <=> ViewsOf(q, group, c) # {}
      BY <1>1, <1>4, <1>5
    <3>2. \A n \in views : q[n].category \in Categories /\ n \in ViewsOf(q, group, q[n].category)
      BY <1>2, <2>2 DEF ViewsOf
    <3>3. \A c \in Categories : \A n \in ViewsOf(q, group, c) : n \in views /\ q[n].category = c
      BY DEF ViewsOf
    <3> HIDE DEF views
    <3> QED
      BY <3>1, <3>2, <3>3 DEF Viewed
  <2>4. Matches(s, seg, now) <=> Cardinality(Viewed(s)) >= seg.MinDistinct
    BY <1>10 DEF Matches
  <2>5. Having(q, group, seg, asOf) <=> Cardinality(Viewed(s)) >= seg.MinDistinct
    BY <1>10, <2>3 DEF Having
  <2>6. Cardinality(Viewed(s)) >= seg.MinDistinct => s.total > 0
    <3>1. CASE views = {}
      <4>1. Cardinality(Viewed(s)) = 0
        BY <2>3, <3>1, FS_EmptySet
      <4> QED
        BY <2>1, <4>1
    <3>2. CASE views # {}
      BY <1>1, <1>2, <1>4, <1>5, <3>2
    <3> QED
      BY <3>1, <3>2
  <2> QED
    BY <1>7, <2>4, <2>5, <2>6
<1> QED
  BY <1>6, <1>8, <1>9, <1>10 DEF Untimed

-----------------------------------------------------------------------------
(* What each step does to the topic, the event in hand and the counts,     *)
(* while Redis works.                                                      *)

LEMMA TopicGrows ==
  ASSUME TypeInv, [Next]_vars
  PROVE  /\ corpus' = corpus /\ Len(topic) \in Nat /\ Len(topic') \in Nat /\ Len(topic') >= Len(topic)
         /\ \A n \in 1 .. Len(topic) : topic'[n] = topic[n]
         /\ \A n \in 1 .. Len(topic') :
              n \in 1 .. Len(topic) \/ \E m \in DOMAIN corpus : topic'[n] = corpus[m]
<1>1. topic \in Seq(Events) /\ Len(topic) \in Nat
  BY DEF TypeInv, FeedInv
<1>2. CASE Send
  <2> PICK e : e = corpus[sent + 1]
    OBVIOUS
  <2>1. corpus' = corpus /\ main = "send" /\ Produce(e)
    BY <1>2 DEF Send
  <2>2. sent + 1 \in DOMAIN corpus /\ e \in Events
    <3>1. corpus \in [1 .. CorpusSize -> Events] /\ CorpusSize \in Nat
      BY BenchAssumption DEF TypeInv, FeedInv, Corpora
    <3>2. Len(corpus) = CorpusSize
      BY <3>1
    <3>3. sent \in 0 .. CorpusSize /\ sent < CorpusSize
      BY <2>1, <3>2 DEF TypeInv, FeedInv
    <3> QED
      BY <3>1, <3>3
  <2>3. CASE topic' = topic
    BY <1>1, <2>1, <2>3
  <2>4. CASE topic' = Append(topic, e)
    <3>1. /\ Len(topic') = Len(topic) + 1 /\ topic'[Len(topic) + 1] = e
          /\ \A n \in 1 .. Len(topic) : topic'[n] = topic[n]
      BY <1>1, <2>2, <2>4, AppendProperties
    <3>2. \A n \in 1 .. Len(topic) + 1 : n \in 1 .. Len(topic) \/ n = Len(topic) + 1
      BY <1>1
    <3> QED
      BY <1>1, <2>1, <2>2, <3>1, <3>2
  <2>5. CASE topic' = topic \o <<e, e>>
    <3> PICK two : two = <<e, e>>
      OBVIOUS
    <3>1. two \in Seq(Events) /\ Len(two) = 2 /\ two[1] = e /\ two[2] = e
      BY <2>2
    <3>2. /\ Len(topic') = Len(topic) + 2
          /\ \A n \in 1 .. Len(topic') :
               topic'[n] = IF n <= Len(topic) THEN topic[n] ELSE two[n - Len(topic)]
      BY <1>1, <2>5, <3>1, ConcatProperties
    <3>3. \A n \in 1 .. Len(topic') : n \in 1 .. Len(topic) \/ n - Len(topic) \in 1 .. 2
      BY <1>1, <3>2
    <3>4. ASSUME NEW n \in 1 .. Len(topic'), n \notin 1 .. Len(topic) PROVE topic'[n] = e
      <4>1. n - Len(topic) \in 1 .. 2 /\ ~(n <= Len(topic))
        BY <1>1, <3>2, <3>3, <3>4
      <4> QED
        BY <3>1, <3>2, <4>1
    <3>5. \A n \in 1 .. Len(topic) : topic'[n] = topic[n]
      BY <1>1, <3>2
    <3> QED
      BY <1>1, <2>1, <2>2, <3>2, <3>4, <3>5
  <2> QED
    BY <2>1, <2>3, <2>4, <2>5 DEF Produce
<1>3. CASE ~Send
  <2>1. UNCHANGED <<corpus, topic>>
    BY <1>3 DEF Next, vars, feedVars, Consume, Receive, FlushTick, ConsumerInserted, ApplyStats,
                ApplyStatsFails, Reevaluate, ReevaluateFails, WriteDelta, MainStep, StopWaiting,
                MainInserted, Touched, Sweep, SweepWrites, Compare, MainDies
  <2> QED
    BY <1>1, <2>1
<1> QED
  BY <1>2, <1>3

\* The event in hand is the last one taken; Kafka holds nothing else than what
\* was sent.
HandInv ==
  /\ cons.hand # << >> => taken > 0 /\ Event = topic[taken]
  /\ \A n \in 1 .. Len(topic) : \E m \in DOMAIN corpus : topic[n] = corpus[m]

\* The event leaves the hand when it is counted, and only Receive takes one.
LEMMA HandMoves ==
  ASSUME TypeInv, [Next]_vars
  PROVE  \/ taken' = taken + 1 /\ cons'.hand = <<topic[taken + 1]>> /\ topic' = topic
         \/ taken' = taken /\ cons'.hand \in {cons.hand, << >>}
<1>1. CASE Receive
  BY <1>1 DEF Receive, feedVars
<1>2. CASE FlushTick \/ ConsumerInserted \/ ApplyStats \/ ApplyStatsFails \/ Reevaluate
           \/ ReevaluateFails \/ WriteDelta
  BY <1>2 DEF FlushTick, ConsumerInserted, ApplyStats, ApplyStatsFails, Reevaluate, ReevaluateFails,
              WriteDelta, Done, TypeInv, ConsumerInv
<1>3. CASE MainDies
  BY <1>3 DEF MainDies, TypeInv, ConsumerInv
<1>4. CASE MainStep \/ UNCHANGED vars
  BY <1>4 DEF MainStep, vars, consumerVars, Send, StopWaiting, MainInserted, Touched, Sweep,
              SweepWrites, Compare
<1> QED
  BY <1>1, <1>2, <1>3, <1>4 DEF Next, Consume

LEMMA HandKeeps ==
  ASSUME TypeInv, HandInv, [Next]_vars
  PROVE  HandInv'
<1>1. taken \in 0 .. Len(topic) /\ Len(topic) \in Nat /\ taken \in Nat
  BY DEF TypeInv, FeedInv, ConsumerInv
<1>2. ASSUME cons'.hand # << >> PROVE taken' > 0 /\ Event' = topic'[taken']
  <2>1. CASE taken' = taken + 1 /\ cons'.hand = <<topic[taken + 1]>> /\ topic' = topic
    <3>1. Event' = topic[taken + 1]
      BY <2>1 DEF Event
    <3> QED
      BY <1>1, <2>1, <3>1
  <2>2. CASE taken' = taken /\ cons'.hand = cons.hand
    <3>1. taken > 0 /\ Event = topic[taken]
      BY <1>2, <2>2 DEF HandInv
    <3>2. Event' = Event
      BY <2>2 DEF Event
    <3>3. topic'[taken] = topic[taken]
      BY <1>1, <3>1, TopicGrows
    <3> QED
      BY <2>2, <3>1, <3>2, <3>3
  <2> QED
    BY <1>2, <2>1, <2>2, HandMoves
<1>3. ASSUME NEW n \in 1 .. Len(topic') PROVE \E m \in DOMAIN corpus' : topic'[n] = corpus'[m]
  <2>1. corpus' = corpus
    BY TopicGrows
  <2>2. CASE n \in 1 .. Len(topic)
    <3>1. topic'[n] = topic[n]
      BY <2>2, TopicGrows
    <3> QED
      BY <2>1, <2>2, <3>1 DEF HandInv
  <2>3. CASE n \notin 1 .. Len(topic)
    BY <1>3, <2>1, <2>3, TopicGrows
  <2> QED
    BY <2>2, <2>3
<1> QED
  BY <1>2, <1>3 DEF HandInv

\* No error of Redis so far: none before either, and this step is none.
LEMMA RedisWorks ==
  ASSUME TypeInv, [Next]_vars, spent'["redis"] = 0
  PROVE  spent["redis"] = 0 /\ ~Spend("redis") /\ ~ApplyStatsFails /\ ~ReevaluateFails /\ ~MainDies
<1>1. spent["redis"] \in Nat /\ spent \in [Kinds -> Nat] /\ "redis" \in Kinds
  BY DEF TypeInv, MainInv, Kinds
<1>2. spent["redis"] = 0
  BY <1>1, NextKeeps DEF Tears
<1>3. ~Spend("redis")
  <2>1. Spend("redis") => spent'["redis"] = spent["redis"] + 1
    BY <1>1, SpendFacts
  <2> QED
    BY <1>2, <2>1
<1> QED
  BY <1>2, <1>3 DEF ApplyStatsFails, ReevaluateFails, MainDies

\* A message has its effect on the counts once, by ApplyStats.
LEMMA StatsMove ==
  ASSUME TypeInv, [Next]_vars, spent'["redis"] = 0
  PROVE  \/ UNCHANGED stats /\ AppliedTo' = AppliedTo
         \/ /\ ApplyStats /\ UNCHANGED topic
            /\ AppliedTo' = taken /\ AppliedTo = taken - 1
            /\ stats' = [stats EXCEPT ![Event.profile] = Applied(@, Event)]
<1>1. /\ consumed = IF cons.hand = << >> THEN taken ELSE taken - 1
      /\ cons.at = "select" => cons.hand = << >>
      /\ cons.at \in {"stats", "reevaluate", "writing"} => cons.hand # << >>
      /\ taken \in Nat
  BY DEF TypeInv, FeedInv, ConsumerInv
<1>2. cons' = [cons EXCEPT !.at = "reevaluate"] => cons'.at = "reevaluate"
  BY DEF TypeInv, ConsumerInv
<1>3. CASE Receive
  <2>1. UNCHANGED <<stats, consumed>> /\ cons.at = "select" /\ cons'.at \in {"inserting", "stats"}
    BY <1>3 DEF Receive, redisVars
  <2> QED
    BY <2>1 DEF AppliedTo
<1>4. CASE FlushTick \/ ConsumerInserted
  <2>1. UNCHANGED <<stats, consumed>> /\ cons.at \in {"select", "inserting"}
    BY <1>4 DEF FlushTick, ConsumerInserted, redisVars
  <2>2. cons'.at \in {"inserting", "select", "stats"}
    BY <1>4 DEF FlushTick, ConsumerInserted, TypeInv, ConsumerInv
  <2> QED
    BY <2>1, <2>2 DEF AppliedTo
<1>5. CASE ApplyStats
  <2>1. /\ cons.at = "stats" /\ cons' = [cons EXCEPT !.at = "reevaluate"]
        /\ UNCHANGED <<taken, consumed, topic>>
        /\ stats' = [stats EXCEPT ![Event.profile] = Applied(@, Event)]
    BY <1>5, RedisWorks DEF ApplyStats, feedVars
  <2>2. AppliedTo' = taken
    BY <1>2, <2>1 DEF AppliedTo
  <2>3. AppliedTo = taken - 1
    BY <1>1, <2>1 DEF AppliedTo
  <2> QED
    BY <1>5, <2>1, <2>2, <2>3
<1>6. CASE Reevaluate
  <2>1. UNCHANGED <<stats, taken>> /\ cons.at = "reevaluate"
    BY <1>6 DEF Reevaluate, redisVars
  <2>2. cons'.at = "writing" \/ (cons'.at = "select" /\ consumed' = consumed + 1)
    <3>1. CASE cons' = [cons EXCEPT !.at = "writing"]
      BY <3>1 DEF TypeInv, ConsumerInv
    <3>2. CASE Done
      BY <3>2 DEF Done
    <3> QED
      BY <1>6, <3>1, <3>2 DEF Reevaluate
  <2>4. consumed + 1 = taken
    <3>1. consumed = taken - 1
      BY <2>1, EventFacts
    <3> QED
      BY <1>1, <3>1
  <2>5. cons'.at = "writing" \/ (cons'.at = "select" /\ consumed' = taken)
    BY <2>2, <2>4
  <2> QED
    BY <2>1, <2>5 DEF AppliedTo
<1>7. CASE WriteDelta
  <2>1. UNCHANGED <<stats, taken>> /\ cons.at = "writing" /\ cons'.at = "select" /\ consumed' = consumed + 1
    BY <1>7 DEF WriteDelta, Done
  <2>2. consumed + 1 = taken
    <3>1. consumed = taken - 1
      BY <2>1, EventFacts
    <3> QED
      BY <1>1, <3>1
  <2> QED
    BY <2>1, <2>2 DEF AppliedTo
<1>8. CASE MainStep \/ UNCHANGED vars
  <2>1. UNCHANGED <<stats, taken, consumed, cons>>
    BY <1>8 DEF MainStep, vars, consumerVars, redisVars, Send, StopWaiting, MainInserted, Touched, Sweep,
                SweepWrites, Compare
  <2> QED
    BY <2>1 DEF AppliedTo
<1> QED
  BY <1>3, <1>4, <1>5, <1>6, <1>7, <1>8, RedisWorks DEF Next, Consume

CountInv ==
  spent["redis"] = 0 => \A p \in Profiles : Counts(stats[p], topic, AppliedOf(p))

LEMMA AppliedToType ==
  ASSUME TypeInv, HandInv
  PROVE  AppliedTo \in Nat /\ AppliedTo <= Len(topic) /\ Len(topic) \in Nat
<1>1. /\ taken \in Nat /\ taken <= Len(topic) /\ Len(topic) \in Nat
      /\ consumed = IF cons.hand = << >> THEN taken ELSE taken - 1
  BY DEF TypeInv, FeedInv, ConsumerInv
<1>2. cons.hand # << >> => taken > 0
  BY DEF HandInv
<1> QED
  BY <1>1, <1>2 DEF AppliedTo

LEMMA CountsOfSame ==
  ASSUME NEW s, NEW q, NEW new, NEW group, Counts(s, q, group), \A n \in group : new[n] = q[n]
  PROVE  Counts(s, new, group)
<1>1. \A type : OfType(new, group, type) = OfType(q, group, type)
  BY DEF OfType
<1>2. \A c \in Categories : ViewsOf(new, group, c) = ViewsOf(q, group, c)
  <2> SUFFICES ASSUME NEW c \in Categories PROVE ViewsOf(new, group, c) = ViewsOf(q, group, c)
    OBVIOUS
  <2>1. \A n \in OfType(q, group, "page_view") : new[n] = q[n]
    BY DEF OfType
  <2> QED
    BY <1>1, <2>1 DEF ViewsOf
<1> QED
  BY <1>1, <1>2 DEF Counts

\* What a profile's state and its messages applied so far become.
LEMMA AppliedMoves ==
  ASSUME TypeInv, HandInv, [Next]_vars, spent'["redis"] = 0, NEW p \in Profiles
  PROVE  /\ AppliedOf(p) \in SUBSET Nat /\ IsFiniteSet(AppliedOf(p))
         /\ \A n \in AppliedOf(p) : topic'[n] = topic[n]
         /\ \/ stats'[p] = stats[p] /\ AppliedOf(p)' = AppliedOf(p)
            \/ /\ stats'[p] = Applied(stats[p], Event) /\ AppliedOf(p)' = AppliedOf(p) \cup {taken}
               /\ taken \in Nat /\ \A n \in AppliedOf(p) : n < taken
               /\ Event \in Events /\ topic'[taken] = Event
<1> PICK k : k = AppliedTo
  OBVIOUS
<1> PICK group : group = AppliedOf(p)
  OBVIOUS
<1>1. k \in Nat /\ k <= Len(topic) /\ Len(topic) \in Nat /\ taken \in Nat
  BY AppliedToType DEF TypeInv, FeedInv, ConsumerInv
<1>2. group = {n \in 1 .. k : topic[n].profile = p}
  BY DEF AppliedOf
<1>3. \A n \in 1 .. k : topic'[n] = topic[n]
  BY <1>1, TopicGrows
<1>4. group \in SUBSET Nat /\ IsFiniteSet(group)
  <2>1. IsFiniteSet(1 .. k)
    BY <1>1, FS_Interval
  <2> QED
    BY <1>1, <1>2, <2>1, FS_Subset
<1>5. CASE UNCHANGED stats /\ AppliedTo' = AppliedTo
  <2>1. AppliedOf(p)' = {n \in 1 .. k : topic'[n].profile = p}
    BY <1>5 DEF AppliedOf
  <2>2. AppliedOf(p)' = group
    BY <1>2, <1>3, <2>1
  <2> QED
    BY <1>2, <1>3, <1>4, <1>5, <2>2
<1>6. CASE /\ ApplyStats /\ UNCHANGED topic
           /\ AppliedTo' = taken /\ AppliedTo = taken - 1
           /\ stats' = [stats EXCEPT ![Event.profile] = Applied(@, Event)]
  <2>1. cons.at = "stats"
    BY <1>6 DEF ApplyStats
  <2>2. Event \in Events /\ cons.hand # << >>
    BY <2>1, EventFacts
  <2>3. taken > 0 /\ topic[taken] = Event
    BY <2>2 DEF HandInv
  <2>4. \A n \in 1 .. taken : n \in 1 .. k \/ n = taken
    BY <1>1, <1>6
  <2>5. taken \in 1 .. taken /\ taken \notin 1 .. k /\ \A n \in 1 .. k : n \in 1 .. taken /\ n < taken
    BY <1>1, <1>6, <2>3
  <2>6. AppliedOf(p)' = {n \in 1 .. taken : topic[n].profile = p}
    BY <1>6 DEF AppliedOf
  <2>7. DOMAIN stats = Profiles
    BY DEF TypeInv, RedisInv
  <2>8. CASE p = Event.profile
    <3>1. AppliedOf(p)' = group \cup {taken}
      BY <1>2, <2>3, <2>4, <2>5, <2>6, <2>8
    <3>2. stats'[p] = Applied(stats[p], Event)
      BY <1>6, <2>7, <2>8
    <3>3. \A n \in group : n < taken /\ topic'[n] = topic[n]
      BY <1>2, <1>3, <2>5
    <3> QED
      BY <1>1, <1>4, <1>6, <2>2, <2>3, <3>1, <3>2, <3>3
  <2>9. CASE p # Event.profile
    <3>1. AppliedOf(p)' = group
      BY <1>2, <2>3, <2>4, <2>5, <2>6, <2>9
    <3>2. stats'[p] = stats[p]
      BY <1>6, <2>7, <2>9
    <3> QED
      BY <1>2, <1>3, <1>4, <3>1, <3>2
  <2> QED
    BY <2>8, <2>9
<1> QED
  BY <1>5, <1>6, StatsMove

LEMMA CountKeeps ==
  ASSUME TypeInv, HandInv, CountInv, [Next]_vars
  PROVE  CountInv'
<1> SUFFICES ASSUME spent'["redis"] = 0, NEW p \in Profiles
             PROVE  Counts(stats[p], topic, AppliedOf(p))'
  BY DEF CountInv
<1> PICK group : group = AppliedOf(p)
  OBVIOUS
<1>1. Counts(stats[p], topic, group) /\ StatsOK(stats[p])
  BY RedisWorks DEF CountInv, TypeInv, RedisInv
<1>2. /\ group \in SUBSET Nat /\ IsFiniteSet(group)
      /\ \A n \in group : topic'[n] = topic[n]
  BY AppliedMoves
<1>3. Counts(stats[p], topic', group)
  BY <1>1, <1>2, CountsOfSame
<1>4. CASE stats'[p] = stats[p] /\ AppliedOf(p)' = group
  BY <1>3, <1>4
<1>5. CASE /\ stats'[p] = Applied(stats[p], Event) /\ AppliedOf(p)' = group \cup {taken}
           /\ taken \in Nat /\ \A n \in group : n < taken
           /\ Event \in Events /\ topic'[taken] = Event
  <2>1. taken \notin group
    BY <1>5
  <2>2. Counts(Applied(stats[p], Event), topic', group \cup {taken})
    BY <1>1, <1>2, <1>3, <1>5, <2>1, AppliedCounts
  <2> QED
    BY <1>5, <2>2
<1> QED
  BY <1>4, <1>5, AppliedMoves

-----------------------------------------------------------------------------
(* Between events no profile lags behind in a segment without a time.      *)

Current(p) == segs[p] \cap UntimedIDs = EvaluateProfile(stats[p], SimNow) \cap UntimedIDs

InReevaluation(p) == cons.at \in {"reevaluate", "writing"} /\ p = Event.profile

\* What the consumer is about to write is computed from the present state.
LagInv ==
  spent["redis"] = 0 /\ (settled \/ main \in {"send", "wait"}) =>
    /\ cons.at = "writing" => delta["consumer"] = Delta(Event.profile, Event.ts)
    /\ \A p \in Profiles : Current(p) \/ InReevaluation(p)

LEMMA StaysCurrent ==
  ASSUME UNCHANGED corpus, NEW p \in Profiles, Current(p), stats'[p] = stats[p], segs'[p] = segs[p]
  PROVE  Current(p)'
BY DEF Current, SimNow

\* Writing a delta that was computed from the state brings its profile up to
\* date, and moves no other.
LEMMA WrittenIsCurrent ==
  ASSUME TypeInv, UNCHANGED <<corpus, stats>>, NEW d, NEW q \in Profiles, NEW now,
         d = Delta(q, now), DeltaWritten(d)
  PROVE  Current(q)' /\ \A p \in Profiles : p # q => segs'[p] = segs[p]
<1> DEFINE want == EvaluateProfile(stats[q], now)
<1>1. d.profile = {q} /\ d.add = want \ segs[q] /\ d.remove = segs[q] \ want
  BY DEF Delta
<1>2. segs' = [p \in Profiles |->
         IF p \in d.profile
         THEN (segs[p] \cup (d.add \cap (d.add \cup d.remove))) \ (d.remove \cap (d.add \cup d.remove))
         ELSE segs[p]]
  BY DEF DeltaWritten, Write
<1>3. want \cap UntimedIDs = EvaluateProfile(stats[q], SimNow) \cap UntimedIDs
  BY AnyTime
<1>4. EvaluateProfile(stats[q], SimNow)' = EvaluateProfile(stats[q], SimNow)
  BY DEF SimNow
<1> HIDE DEF want
<1>5. segs'[q] = want
  BY <1>1, <1>2
<1>6. \A p \in Profiles : p # q => segs'[p] = segs[p]
  BY <1>1, <1>2
<1> QED
  BY <1>3, <1>4, <1>5, <1>6 DEF Current

LEMMA LagKeeps ==
  ASSUME TypeInv, SettledInv, SweptInv, LagInv, [Next]_vars
  PROVE  LagInv'
<1> SUFFICES ASSUME spent'["redis"] = 0, settled' \/ main' \in {"send", "wait"}
             PROVE  /\ cons'.at = "writing" => delta'["consumer"] = Delta(Event.profile, Event.ts)'
                    /\ \A p \in Profiles : Current(p)' \/ InReevaluation(p)'
  BY DEF LagInv
<1>1. settled \/ main \in {"send", "wait"}
  <2>1. CASE Consume \/ UNCHANGED vars
    <3>1. UNCHANGED <<main, settled>>
      BY <2>1 DEF Consume, vars, mainVars, Receive, FlushTick, ConsumerInserted, ApplyStats,
                  ApplyStatsFails, Reevaluate, ReevaluateFails, WriteDelta
    <3> QED
      BY <3>1
  <2>2. CASE MainStep
    BY <2>2 DEF MainStep, Send, StopWaiting, MainInserted, Touched, Sweep, SweepWrites, Compare
  <2> QED
    BY <2>1, <2>2, RedisWorks DEF Next
<1>2. /\ cons.at = "writing" => delta["consumer"] = Delta(Event.profile, Event.ts)
      /\ \A p \in Profiles : Current(p) \/ InReevaluation(p)
  BY <1>1, RedisWorks DEF LagInv
<1>3. corpus' = corpus
  BY TopicGrows
<1>4. /\ DOMAIN delta = Goroutines /\ "consumer" \in Goroutines /\ "main" \in Goroutines
      /\ DOMAIN stats = Profiles
  BY DEF TypeInv, DeltaInv, RedisInv, Goroutines
<1>5. CASE Receive \/ FlushTick \/ ConsumerInserted
  <2>1. UNCHANGED <<stats, segs>>
    BY <1>5, StoreStepKeeps DEF redisVars
  <2>2. cons.at \in {"select", "inserting"} /\ cons'.at \in {"inserting", "stats", "select"}
    BY <1>5 DEF Receive, FlushTick, ConsumerInserted, TypeInv, ConsumerInv
  <2>3. \A p \in Profiles : Current(p)
    BY <1>2, <2>2 DEF InReevaluation
  <2> QED
    BY <1>3, <2>1, <2>2, <2>3, StaysCurrent
<1>6. ASSUME UNCHANGED <<stats, segs, cons>>, delta'["consumer"] = delta["consumer"]
      PROVE  /\ cons'.at = "writing" => delta'["consumer"] = Delta(Event.profile, Event.ts)'
             /\ \A p \in Profiles : Current(p)' \/ InReevaluation(p)'
  <2>1. /\ Delta(Event.profile, Event.ts)' = Delta(Event.profile, Event.ts)
        /\ \A p \in Profiles : InReevaluation(p) => InReevaluation(p)'
    BY <1>6 DEF Delta, Event, InReevaluation
  <2>2. \A p \in Profiles : Current(p) => Current(p)'
    BY <1>3, <1>6, StaysCurrent
  <2> QED
    BY <1>2, <1>6, <2>1, <2>2
<1>7. CASE Send \/ StopWaiting \/ MainInserted \/ Touched \/ Compare \/ UNCHANGED vars
  <2>1. UNCHANGED <<stats, segs, cons, delta>>
    BY <1>7 DEF vars, redisVars, consumerVars, Send, StopWaiting, MainInserted, Touched, Compare
  <2> QED
    BY <1>6, <2>1
<1>8. ASSUME NEW q \in Profiles, Sweep(q)
      PROVE  /\ cons'.at = "writing" => delta'["consumer"] = Delta(Event.profile, Event.ts)'
             /\ \A p \in Profiles : Current(p)' \/ InReevaluation(p)'
  <2>1. UNCHANGED <<stats, segs, cons>>
    BY <1>8 DEF Sweep, redisVars, consumerVars
  <2>2. UNCHANGED delta \/ delta' = [delta EXCEPT !["main"] = Delta(q, SimNow)]
    BY <1>8 DEF Sweep
  <2>3. delta'["consumer"] = delta["consumer"]
    BY <1>4, <2>2
  <2> QED
    BY <1>6, <2>1, <2>3
<1>9. CASE ApplyStats
  <2>1. /\ cons.at = "stats" /\ cons'.at = "reevaluate" /\ cons'.hand = cons.hand
        /\ UNCHANGED segs
        /\ stats' = [stats EXCEPT ![Event.profile] = Applied(@, Event)]
    BY <1>9, RedisWorks DEF ApplyStats, TypeInv, ConsumerInv
  <2>2. Event' = Event
    BY <2>1 DEF Event
  <2>3. ASSUME NEW p \in Profiles, p # Event.profile PROVE Current(p)'
    <3>1. Current(p)
      BY <1>2, <2>1 DEF InReevaluation
    <3>2. stats'[p] = stats[p]
      BY <1>4, <2>1, <2>3
    <3> QED
      BY <1>3, <2>1, <3>1, <3>2, StaysCurrent
  <2> QED
    BY <2>1, <2>2, <2>3 DEF InReevaluation
<1>10. CASE Reevaluate
  <2> PICK d : d = Delta(Event.profile, Event.ts)
    OBVIOUS
  <2>1. cons.at = "reevaluate" /\ UNCHANGED <<stats, segs>>
    BY <1>10 DEF Reevaluate, redisVars
  <2>2. Event.profile \in Profiles
    BY <2>1, EventFacts
  <2>3. \A p \in Profiles : p # Event.profile => Current(p)'
    BY <1>2, <1>3, <2>1, StaysCurrent DEF InReevaluation
  <2>4. CASE Changed(d)
    <3>1. delta' = [delta EXCEPT !["consumer"] = d] /\ cons' = [cons EXCEPT !.at = "writing"]
      BY <1>10, <2>4 DEF Reevaluate
    <3>2. cons'.at = "writing" /\ cons'.hand = cons.hand
      BY <3>1 DEF TypeInv, ConsumerInv
    <3>3. Event' = Event
      BY <3>2 DEF Event
    <3>4. Delta(Event.profile, Event.ts)' = d
      BY <2>1, <3>3 DEF Delta
    <3>5. delta'["consumer"] = d
      BY <1>4, <3>1
    <3> QED
      BY <2>3, <3>2, <3>3, <3>4, <3>5 DEF InReevaluation
  <2>5. CASE ~Changed(d)
    <3>1. cons'.at = "select"
      BY <1>10, <2>5 DEF Reevaluate, Done
    <3> PICK want : want = EvaluateProfile(stats[Event.profile], Event.ts)
      OBVIOUS
    <3>2. want \ segs[Event.profile] = {} /\ segs[Event.profile] \ want = {}
      BY <2>5 DEF Changed, Delta
    <3>3. segs[Event.profile] = want
      BY <3>2
    <3>4. want \cap UntimedIDs = EvaluateProfile(stats[Event.profile], SimNow) \cap UntimedIDs
      BY AnyTime
    <3>5. Current(Event.profile)
      BY <3>3, <3>4 DEF Current
    <3>6. \A p \in Profiles : Current(p)'
      BY <1>3, <2>1, <2>2, <2>3, <3>5, StaysCurrent
    <3> QED
      BY <3>1, <3>6
  <2> QED
    BY <2>4, <2>5
<1>11. CASE WriteDelta
  <2> PICK d : d = delta["consumer"]
    OBVIOUS
  <2> PICK q : q = Event.profile
    OBVIOUS
  <2>1. /\ cons.at = "writing" /\ cons'.at = "select" /\ UNCHANGED stats /\ DeltaWritten(d)
    BY <1>11, RedisWorks DEF WriteDelta, Done
  <2>2. q \in Profiles
    BY <2>1, EventFacts
  <2>3. d = Delta(q, Event.ts)
    BY <1>2, <2>1
  <2>4. Current(q)' /\ \A p \in Profiles : p # q => segs'[p] = segs[p]
    BY <1>3, <2>1, <2>2, <2>3, WrittenIsCurrent
  <2>5. \A p \in Profiles : p # q => Current(p)
    BY <1>2 DEF InReevaluation
  <2>6. \A p \in Profiles : p # q => Current(p)'
    BY <1>3, <2>1, <2>4, <2>5, StaysCurrent
  <2> QED
    BY <2>1, <2>4, <2>6
<1>12. CASE SweepWrites
  <2>1. /\ main = "writing" /\ DeltaWritten(delta["main"]) /\ UNCHANGED <<stats, cons>>
    BY <1>12 DEF SweepWrites, consumerVars
  <2>2. settled
    BY <1>1, <2>1
  <2>3. cons.at \notin {"stats", "reevaluate", "writing"}
    BY <2>2 DEF TypeInv, FeedInv, ConsumerInv, SettledInv
  <2>4. PICK q \in Profiles : delta["main"] = Delta(q, SimNow)
    BY <2>1, <2>2 DEF SweptInv
  <2>5. Current(q)' /\ \A p \in Profiles : p # q => segs'[p] = segs[p]
    BY <1>3, <2>1, <2>4, WrittenIsCurrent
  <2>6. \A p \in Profiles : Current(p)
    BY <1>2, <2>3 DEF InReevaluation
  <2>7. \A p \in Profiles : Current(p)'
    BY <1>3, <2>1, <2>5, <2>6, StaysCurrent
  <2> QED
    BY <2>1, <2>3, <2>7
<1> QED
  BY <1>5, <1>7, <1>8, <1>9, <1>10, <1>11, <1>12, RedisWorks DEF Next, Consume, MainStep

\* Nothing is sent that is later than the time of the comparison.
LEMMA SentBySimNow ==
  ASSUME TypeInv, HandInv
  PROVE  SimNow \in Int /\ \A n \in 1 .. Len(topic) : topic[n].ts <= SimNow
<1> DEFINE ts == {corpus[m].ts : m \in DOMAIN corpus}
<1>1. corpus \in [1 .. CorpusSize -> Events] /\ CorpusSize \in Nat \ {0}
  BY BenchAssumption DEF TypeInv, FeedInv, Corpora
<1>2. IsFiniteSet(DOMAIN corpus) /\ DOMAIN corpus # {}
  <2>1. DOMAIN corpus = 1 .. CorpusSize /\ 1 \in 1 .. CorpusSize
    BY <1>1
  <2>2. IsFiniteSet(1 .. CorpusSize)
    BY <1>1, FS_Interval
  <2> QED
    BY <2>1, <2>2
<1>3. \A m \in DOMAIN corpus : corpus[m].ts \in Int
  BY <1>1, BenchAssumption
<1>4. \A m \in DOMAIN corpus : corpus[m].ts <= SimNow
  BY <1>2, <1>3, LatestBounds DEF SimNow
<1>5. SimNow \in Int
  <2>1. PICK m \in DOMAIN corpus : IsLatest(corpus, DOMAIN corpus, m)
    BY <1>2, <1>3, HasLatest
  <2>2. ts # {} /\ \E x \in ts : \A y \in ts : x >= y
    BY <1>3, <2>1 DEF IsLatest
  <2>3. SimNow = Max(ts)
    BY <2>2 DEF SimNow, Latest
  <2>4. \A x \in ts : x \in Int
    BY <1>3
  <2> HIDE DEF ts
  <2>5. Max(ts) \in ts
    BY <2>2 DEF Max
  <2> QED
    BY <2>3, <2>4, <2>5
<1> QED
  BY <1>4, <1>5 DEF HandInv

\* What was applied so far, as the recompute would find it in the table.
LEMMA AppliedRows ==
  ASSUME TypeInv, HandInv, NEW p \in Profiles, cons.at \in {"select", "inserting"}
  PROVE  LET applied == SubSeq(topic, 1, consumed) IN
         /\ OfProfile(applied, p) = AppliedOf(p)
         /\ UpTo(applied, AppliedOf(p), SimNow) = AppliedOf(p)
         /\ IsFiniteSet(AppliedOf(p))
         /\ \A n \in AppliedOf(p) :
              applied[n] = topic[n] /\ applied[n].category \in Categories \cup {NoCategory}
<1> DEFINE applied == SubSeq(topic, 1, consumed)
<1> PICK k : k = consumed
  OBVIOUS
<1>1. AppliedTo = k /\ k \in Nat /\ k <= Len(topic) /\ Len(topic) \in Nat /\ topic \in Seq(Events)
  <2>1. AppliedTo = k
    BY DEF AppliedTo
  <2> QED
    BY <2>1, AppliedToType DEF TypeInv, FeedInv
<1>2. \A n \in 1 .. k : topic[n] \in Events
  BY <1>1
<1>3. Len(applied) = k /\ DOMAIN applied = 1 .. k /\ \A n \in 1 .. k : applied[n] = topic[n]
  <2>1. /\ applied \in Seq(Events) /\ Len(applied) = IF 1 <= k THEN k - 1 + 1 ELSE 0
        /\ \A i \in 1 .. k - 1 + 1 : applied[i] = topic[1 + i - 1]
    BY <1>1, <1>2, SubSeqProperties
  <2>2. Len(applied) = k
    BY <1>1, <2>1
  <2>3. \A n \in 1 .. k : n \in 1 .. k - 1 + 1 /\ 1 + n - 1 = n
    BY <1>1
  <2> QED
    BY <2>1, <2>2, <2>3
<1> HIDE DEF applied
<1>4. AppliedOf(p) = {n \in 1 .. k : topic[n].profile = p}
  BY <1>1 DEF AppliedOf
<1>5. OfProfile(applied, p) = AppliedOf(p)
  BY <1>3, <1>4 DEF OfProfile
<1>6. IsFiniteSet(AppliedOf(p))
  <2>1. IsFiniteSet(1 .. k)
    BY <1>1, FS_Interval
  <2> QED
    BY <1>4, <2>1, FS_Subset
<1>7. \A n \in 1 .. k : topic[n].ts <= SimNow
  <2>1. \A n \in 1 .. k : n \in 1 .. Len(topic)
    BY <1>1
  <2> QED
    BY <2>1, SentBySimNow
<1>8. UpTo(applied, AppliedOf(p), SimNow) = AppliedOf(p)
  BY <1>3, <1>4, <1>7 DEF UpTo
<1>9. \A n \in AppliedOf(p) : applied[n] = topic[n] /\ applied[n].category \in Categories \cup {NoCategory}
  BY <1>2, <1>3, <1>4, BenchAssumption
<1> QED
  BY <1>5, <1>6, <1>8, <1>9 DEF applied

\* What both comparisons with a recompute start from.
EngineInv ==
  /\ TypeInv /\ TornInv /\ TouchedInv /\ SettledInv /\ SweptInv /\ HandInv /\ CountInv

LEMMA InitEngine == Init => EngineInv
<1> SUFFICES ASSUME Init PROVE EngineInv
  OBVIOUS
<1>1. TypeInv
  BY InitTypeInv
<1>2. TornInv /\ TouchedInv /\ SettledInv /\ SweptInv
  <2>1. Torn = {} /\ spent["redis"] = 0
    BY DEF Init, Torn, Kinds
  <2>2. TornInv
    BY <2>1, FS_EmptySet DEF TornInv
  <2>3. TouchedInv
    BY DEF Init, TouchedInv, NoDelta
  <2> QED
    BY <2>2, <2>3 DEF Init, SettledInv, SweptInv
<1>3. HandInv
  <2>1. cons.hand = << >> /\ Len(topic) = 0
    BY DEF Init
  <2> QED
    BY <2>1 DEF HandInv
<1>4. CountInv
  <2>1. AppliedTo = 0
    BY DEF Init, AppliedTo
  <2>2. \A p \in Profiles : AppliedOf(p) = {} /\ stats[p] = NoStats
    BY <2>1 DEF Init, AppliedOf
  <2> QED
    BY <2>2, NothingCounted DEF CountInv
<1> QED
  BY <1>1, <1>2, <1>3, <1>4 DEF EngineInv

LEMMA EngineKeeps == EngineInv /\ [Next]_vars => EngineInv'
<1> SUFFICES ASSUME EngineInv, [Next]_vars PROVE EngineInv'
  OBVIOUS
<1> USE DEF EngineInv
<1>1. TypeInv' /\ SettledInv' /\ SweptInv'
  BY NextKeeps, SettledKeeps, SweptKeeps
<1>2. TouchedInv'
  BY <1>1, StepMoves, TouchedKeeps DEF TypeInv
<1>3. TornInv' /\ HandInv' /\ CountInv'
  BY TornKeeps, HandKeeps, CountKeeps
<1> QED
  BY <1>1, <1>2, <1>3

\* Between events, the segments without a time in them are up to date with all
\* that was applied, for any stream, corpus and segments, and whatever the sweep
\* and the other goroutine are doing (reevaluate after each event, Finalize).
THEOREM UntimedNeverLagHolds == Spec => []UntimedNeverLag
<1> DEFINE Inv == EngineInv /\ LagInv
<1>1. Init => Inv
  <2> SUFFICES ASSUME Init PROVE LagInv
    BY InitEngine
  <2>1. cons.at = "select" /\ \A p \in Profiles : segs[p] = {} /\ stats[p] = NoStats
    BY DEF Init
  <2>2. \A now : EvaluateProfile(NoStats, now) = {}
    BY DEF EvaluateProfile, NoStats
  <2>3. \A p \in Profiles : Current(p)
    BY <2>1, <2>2 DEF Current
  <2> QED
    BY <2>1, <2>3 DEF LagInv
<1>2. Inv /\ [Next]_vars => Inv'
  <2> SUFFICES ASSUME Inv, [Next]_vars PROVE LagInv'
    BY EngineKeeps
  <2> QED
    BY LagKeeps DEF EngineInv
<1>3. Inv => UntimedNeverLag
  <2> SUFFICES ASSUME Inv, cons.at \in {"select", "inserting"}, NoErrors,
                      settled \/ main \in {"send", "wait"},
                      NEW s \in UntimedIDs, NEW p \in Profiles,
                      Comparable(Segments[s].family, SubSeq(topic, 1, consumed),
                                 OfProfile(SubSeq(topic, 1, consumed), p))
               PROVE  p \in members[s] <=> p \in Recompute(SubSeq(topic, 1, consumed), Segments[s], SimNow)
    BY DEF UntimedNeverLag, UntimedIDs
  <2> USE DEF EngineInv
  <2> PICK applied : applied = SubSeq(topic, 1, consumed)
    OBVIOUS
  <2> PICK group : group = AppliedOf(p)
    OBVIOUS
  <2>1. /\ OfProfile(applied, p) = group /\ UpTo(applied, group, SimNow) = group
        /\ IsFiniteSet(group)
        /\ \A n \in group : applied[n] = topic[n]
        /\ \A n \in group : applied[n].category \in Categories \cup {NoCategory}
    BY AppliedRows
  <2>2. spent["redis"] = 0
    BY DEF NoErrors
  <2>3. Counts(stats[p], applied, group)
    BY <2>1, <2>2, CountsOfSame DEF CountInv
  <2>4. Comparable(Segments[s].family, applied, group)
    BY <2>1
  <2>5. s \in EvaluateProfile(stats[p], SimNow) <=> Having(applied, group, Segments[s], SimNow)
    BY <2>1, <2>3, <2>4, UntimedAgree
  <2>6. s \in segs[p] <=> s \in EvaluateProfile(stats[p], SimNow)
    <3>1. Current(p)
      BY <2>2 DEF LagInv, InReevaluation
    <3> QED
      BY <3>1 DEF Current
  <2>7. s \in segs[p] <=> p \in members[s]
    <3>1. Torn = {}
      BY <2>2, FS_CardinalityType, FS_EmptySet DEF TornInv
    <3>2. <<p, s>> \notin Torn /\ s \in IDs
      BY <3>1 DEF UntimedIDs
    <3> QED
      BY <3>2 DEF Torn
  <2>8. p \in Recompute(applied, Segments[s], SimNow) <=> Having(applied, group, Segments[s], SimNow)
    BY <2>1 DEF Recompute
  <2> QED
    BY <2>5, <2>6, <2>7, <2>8
<1> QED
  BY <1>1, <1>2, <1>3, PTL DEF Spec

-----------------------------------------------------------------------------
(* What Redis keeps of the times and the purchases of a profile.           *)

IsLastTime(q, group, t) ==
  \/ group = {} /\ t = 0
  \/ \E n \in group : t = q[n].ts /\ \A m \in group : m <= n

\* The purchase at k is why the one at n is not kept.
Trims(q, k, n) == ~(Sec(q[n].ts) > Sec(q[k].ts - RetentionDays * Day))

\* The members are purchases, and those that are not have been trimmed away.
HoldsPurchases(purch, q, bought) ==
  /\ \A m \in purch : \E n \in bought : m = Member(q[n])
  /\ \A n \in bought : Member(q[n]) \in purch \/ \E k \in bought : Trims(q, k, n)

History(s, q, group) ==
  /\ IsLastTime(q, group, s.last)
  /\ IsLastTime(q, OfType(q, group, "add_to_cart"), s.lastCart)
  /\ IsLastTime(q, OfType(q, group, "purchase"), s.lastPurchase)
  /\ HoldsPurchases(s.purch, q, OfType(q, group, "purchase"))

LEMMA NoHistory ==
  ASSUME NEW q
  PROVE  History(NoStats, q, {})
<1>1. \A type : OfType(q, {}, type) = {}
  BY DEF OfType
<1>2. NoStats.last = 0 /\ NoStats.lastCart = 0 /\ NoStats.lastPurchase = 0 /\ NoStats.purch = {}
  BY DEF NoStats
<1> QED
  BY <1>1, <1>2 DEF History, IsLastTime, HoldsPurchases

LEMMA NewIsLast ==
  ASSUME NEW q, NEW group \in SUBSET Nat, NEW n \in Nat, \A m \in group : m < n
  PROVE  IsLastTime(q, group \cup {n}, q[n].ts)
<1>1. \A m \in group \cup {n} : m <= n
  OBVIOUS
<1> QED
  BY <1>1 DEF IsLastTime

\* A purchase is a member until a purchase, itself included, trims it away.
LEMMA PurchaseKept ==
  ASSUME NEW purch, NEW q, NEW old, NEW n, NEW e, q[n] = e,
         HoldsPurchases(purch, q, old)
  PROVE  HoldsPurchases(WithPurchase(purch, e), q, old \cup {n})
<1> DEFINE new == WithPurchase(purch, e)
           more == old \cup {n}
<1>0. /\ \A m \in purch : \E k \in old : m = Member(q[k])
      /\ \A j \in old : Member(q[j]) \in purch \/ \E k \in old : Trims(q, k, j)
  BY DEF HoldsPurchases
<1>1. new = {m \in purch \cup {Member(e)} : m.score > Sec(e.ts - RetentionDays * Day)}
  BY DEF WithPurchase, Trimmed
<1>2. \A m \in new : \E k \in more : m = Member(q[k])
  BY <1>0, <1>1
<1>3. ASSUME NEW j \in more PROVE Member(q[j]) \in new \/ \E k \in more : Trims(q, k, j)
  <2>1. SUFFICES ASSUME ~\E k \in more : Trims(q, k, j) PROVE Member(q[j]) \in new
    OBVIOUS
  <2>2. Member(q[j]) \in purch \cup {Member(e)}
    BY <1>0, <2>1
  <2>3. ~Trims(q, n, j)
    BY <2>1
  <2>4. Member(q[j]).score > Sec(e.ts - RetentionDays * Day)
    BY <2>3 DEF Trims, Member
  <2> HIDE DEF new
  <2> QED
    BY <1>1, <2>2, <2>4
<1> QED
  BY <1>2, <1>3 DEF HoldsPurchases

LEMMA AppliedHistory ==
  ASSUME NEW s, StatsOK(s), NEW q, NEW group \in SUBSET Nat, History(s, q, group),
         NEW n \in Nat, \A m \in group : m < n, NEW e \in Events, q[n] = e
  PROVE  History(Applied(s, e), q, group \cup {n})
<1> DEFINE t == [s EXCEPT !.total = @ + 1, !.last = e.ts]
           a == Applied(s, e)
           more == group \cup {n}
           bought == OfType(q, group, "purchase")
           carts == OfType(q, group, "add_to_cart")
<1>1. /\ DOMAIN t = StatFields /\ t.last = e.ts /\ t.lastCart = s.lastCart
      /\ t.lastPurchase = s.lastPurchase /\ t.purch = s.purch
  BY DEF StatsOK, StatFields
<1>2. \A type : OfType(q, more, type) = IF e.type = type THEN OfType(q, group, type) \cup {n}
                                        ELSE OfType(q, group, type)
  BY DEF OfType
<1>3. bought \in SUBSET Nat /\ carts \in SUBSET Nat
      /\ (\A m \in bought : m < n) /\ \A m \in carts : m < n
  BY DEF OfType
<1>4. /\ IsLastTime(q, more, e.ts)
      /\ IsLastTime(q, bought \cup {n}, e.ts) /\ IsLastTime(q, carts \cup {n}, e.ts)
  <2> HIDE DEF bought, carts
  <2> QED
    BY <1>3, NewIsLast
<1>5. /\ IsLastTime(q, carts, s.lastCart) /\ IsLastTime(q, bought, s.lastPurchase)
      /\ HoldsPurchases(s.purch, q, bought)
  BY DEF History
<1> HIDE DEF t
<1>6. /\ a.last = e.ts
      /\ a.lastCart = IF e.type = "add_to_cart" THEN e.ts ELSE s.lastCart
      /\ a.lastPurchase = IF e.type = "purchase" THEN e.ts ELSE s.lastPurchase
      /\ a.purch = IF e.type = "purchase" THEN WithPurchase(s.purch, e) ELSE s.purch
  <2>1. CASE e.type = "purchase"
    <3>1. a = [t EXCEPT !.purchases = @ + 1, !.lastPurchase = e.ts, !.purch = WithPurchase(@, e)]
      BY <2>1 DEF Applied, t
    <3> HIDE DEF a
    <3> QED
      BY <1>1, <2>1, <3>1 DEF StatFields
  <2>2. CASE e.type = "add_to_cart"
    <3>1. a = [t EXCEPT !.lastCart = e.ts]
      BY <2>2 DEF Applied, t
    <3> HIDE DEF a
    <3> QED
      BY <1>1, <2>2, <3>1 DEF StatFields
  <2>3. CASE e.type \notin {"purchase", "add_to_cart"}
    <3>1. a = t \/ a = [t EXCEPT !.views[e.category] = @ + 1]
      BY <2>3 DEF Applied, t
    <3> HIDE DEF a
    <3> QED
      BY <1>1, <2>3, <3>1 DEF StatFields
  <2> QED
    BY <2>1, <2>2, <2>3
<1> HIDE DEF a, more, bought, carts
<1>7. ASSUME e.type = "purchase" PROVE History(a, q, more)
  <2>1. OfType(q, more, "purchase") = bought \cup {n} /\ OfType(q, more, "add_to_cart") = carts
    BY <1>2, <1>7 DEF bought, carts
  <2>2. HoldsPurchases(WithPurchase(s.purch, e), q, bought \cup {n})
    BY <1>5, PurchaseKept
  <2>3. a.purch = WithPurchase(s.purch, e) /\ a.lastPurchase = e.ts /\ a.lastCart = s.lastCart
    BY <1>6, <1>7
  <2> QED
    BY <1>4, <1>5, <1>6, <2>1, <2>2, <2>3 DEF History
<1>8. ASSUME e.type # "purchase" PROVE History(a, q, more)
  <2>1. OfType(q, more, "purchase") = bought /\ a.purch = s.purch /\ a.lastPurchase = s.lastPurchase
    BY <1>2, <1>6, <1>8 DEF bought
  <2>2. IsLastTime(q, OfType(q, more, "add_to_cart"), a.lastCart)
    <3>1. OfType(q, more, "add_to_cart") = IF e.type = "add_to_cart" THEN carts \cup {n} ELSE carts
      BY <1>2 DEF carts
    <3> QED
      BY <1>4, <1>5, <1>6, <3>1
  <2> QED
    BY <1>4, <1>5, <1>6, <2>1, <2>2 DEF History
<1> QED
  BY <1>7, <1>8 DEF a, more

LEMMA HistoryOfSame ==
  ASSUME NEW s, NEW q, NEW new, NEW group, History(s, q, group), \A n \in group : new[n] = q[n]
  PROVE  History(s, new, group)
<1>1. \A type : /\ OfType(new, group, type) = OfType(q, group, type)
                /\ \A n \in OfType(q, group, type) : new[n] = q[n]
  BY DEF OfType
<1>2. \A t : \A g : IsLastTime(q, g, t) /\ (\A n \in g : new[n] = q[n]) => IsLastTime(new, g, t)
  BY DEF IsLastTime
<1>3. ASSUME NEW bought, \A n \in bought : new[n] = q[n], HoldsPurchases(s.purch, q, bought)
      PROVE  HoldsPurchases(s.purch, new, bought)
  <2>1. \A k, n \in bought : Trims(q, k, n) => Trims(new, k, n)
    BY <1>3 DEF Trims
  <2> QED
    BY <1>3, <2>1 DEF HoldsPurchases
<1>4. HoldsPurchases(s.purch, new, OfType(new, group, "purchase"))
  BY <1>1, <1>3 DEF History
<1> QED
  BY <1>1, <1>2, <1>4 DEF History

-----------------------------------------------------------------------------
(* How often the events of a set are in a sequence, whatever their order.  *)

Among(q, E) == {n \in DOMAIN q : q[n] \in E}
Number(q, E) == Cardinality(Among(q, E))

LEMMA NumberType ==
  ASSUME NEW q \in Seq(Events), NEW E
  PROVE  IsFiniteSet(Among(q, E)) /\ Number(q, E) \in Nat
<1>1. IsFiniteSet(DOMAIN q) /\ Among(q, E) \in SUBSET DOMAIN q
  BY FS_Interval DEF Among
<1> QED
  BY <1>1, FS_Subset, FS_CardinalityType DEF Number

LEMMA NumberOfNone ==
  ASSUME NEW E
  PROVE  Number(<< >>, E) = 0
<1>1. Among(<< >>, E) = {}
  BY DEF Among
<1> QED
  BY <1>1, FS_EmptySet DEF Number

LEMMA NumberAppend ==
  ASSUME NEW q \in Seq(Events), NEW e \in Events, NEW E
  PROVE  Number(Append(q, e), E) = Number(q, E) + IF e \in E THEN 1 ELSE 0
<1> DEFINE old == Among(q, E)
           new == Among(Append(q, e), E)
<1>1. Len(q) \in Nat /\ DOMAIN q = 1 .. Len(q)
  OBVIOUS
<1>2. /\ DOMAIN Append(q, e) = 1 .. Len(q) + 1
      /\ \A n \in 1 .. Len(q) : Append(q, e)[n] = q[n]
      /\ Append(q, e)[Len(q) + 1] = e
  BY AppendProperties
<1>3. /\ \A n \in 1 .. Len(q) + 1 : n \in 1 .. Len(q) \/ n = Len(q) + 1
      /\ \A n \in 1 .. Len(q) : n \in 1 .. Len(q) + 1
      /\ Len(q) + 1 \in 1 .. Len(q) + 1
      /\ Len(q) + 1 \notin 1 .. Len(q)
  BY <1>1
<1>4. new = IF e \in E THEN old \cup {Len(q) + 1} ELSE old
  BY <1>1, <1>2, <1>3 DEF Among
<1>5. IsFiniteSet(old) /\ Len(q) + 1 \notin old /\ Number(q, E) \in Nat
  BY <1>1, <1>3, NumberType DEF Among
<1> HIDE DEF old, new
<1>6. Cardinality(old \cup {Len(q) + 1}) = Cardinality(old) + 1
  BY <1>5, OneMore
<1>7. Number(q, E) = Cardinality(old) /\ Number(Append(q, e), E) = Cardinality(new)
  BY DEF Number, old, new
<1> QED
  BY <1>4, <1>5, <1>6, <1>7

LEMMA NumberConcat ==
  ASSUME NEW q \in Seq(Events), NEW r \in Seq(Events), NEW E
  PROVE  Number(q \o r, E) = Number(q, E) + Number(r, E)
<1> PICK m \in Nat : m = Len(q)
  OBVIOUS
<1> DEFINE left == Among(q, E)
           right == Among(r, E)
           moved == {n \in DOMAIN (q \o r) : n > m /\ (q \o r)[n] \in E}
           f == [n \in right |-> n + m]
<1>1. /\ DOMAIN q = 1 .. m /\ DOMAIN r = 1 .. Len(r) /\ Len(r) \in Nat
      /\ DOMAIN (q \o r) = 1 .. m + Len(r)
      /\ \A n \in 1 .. m + Len(r) : (q \o r)[n] = IF n <= m THEN q[n] ELSE r[n - m]
  BY ConcatProperties
<1>2. Among(q \o r, E) = left \cup moved
  <2>1. \A n \in 1 .. m : n \in 1 .. m + Len(r) /\ n <= m
    BY <1>1
  <2>2. \A n \in 1 .. m + Len(r) : n > m \/ (n \in 1 .. m /\ n <= m)
    BY <1>1
  <2> QED
    BY <1>1, <2>1, <2>2 DEF Among
<1>3. left \cap moved = {}
  BY <1>1 DEF Among
<1>4. ExistsBijection(right, moved)
  <2>1. \A n \in 1 .. Len(r) : n + m \in 1 .. m + Len(r) /\ n + m > m /\ ~(n + m <= m) /\ (n + m) - m = n
    BY <1>1
  <2>2. \A k \in 1 .. m + Len(r) : k > m => k - m \in 1 .. Len(r) /\ (k - m) + m = k /\ ~(k <= m)
    BY <1>1
  <2>3. \A n \in right : n \in 1 .. Len(r) /\ r[n] \in E
    BY <1>1 DEF Among
  <2>4. \A n \in right : n + m \in moved
    BY <1>1, <2>1, <2>3
  <2>5. \A k \in moved : k - m \in right /\ (k - m) + m = k
    BY <1>1, <2>2 DEF Among
  <2>6. \A n, k \in right : n + m = k + m => n = k
    BY <2>3
  <2> HIDE DEF moved, right
  <2>7. f \in [right -> moved]
    BY <2>4
  <2>8. f \in Injection(right, moved)
    BY <2>6, <2>7, Zenon DEF Injection, IsInjective
  <2>9. f \in Surjection(right, moved)
    BY <2>5, <2>7 DEF Surjection
  <2> QED
    BY <2>8, <2>9 DEF ExistsBijection, Bijection
<1> HIDE DEF left, right, moved, f
<1>5. /\ IsFiniteSet(left) /\ IsFiniteSet(right)
      /\ Number(q, E) = Cardinality(left) /\ Number(r, E) = Cardinality(right)
      /\ Cardinality(left) \in Nat /\ Cardinality(right) \in Nat
  BY NumberType DEF Number, left, right
<1>6. IsFiniteSet(moved) /\ Cardinality(moved) = Cardinality(right)
  BY <1>4, <1>5, FS_Bijection
<1>7. Cardinality(left \cup moved) = Cardinality(left) + Cardinality(moved) - Cardinality({})
  BY <1>3, <1>5, <1>6, FS_Union
<1> QED
  BY <1>2, <1>5, <1>6, <1>7, FS_EmptySet DEF Number

\* The same events, in any order.
SameEvents(q, r) == \A E \in SUBSET Events : Number(q, E) = Number(r, E)

LEMMA SameFound ==
  ASSUME NEW q \in Seq(Events), NEW r \in Seq(Events), SameEvents(q, r),
         NEW E \in SUBSET Events
  PROVE  Among(q, E) = {} <=> Among(r, E) = {}
<1>1. Number(q, E) = Number(r, E)
  BY DEF SameEvents
<1> QED
  BY <1>1, NumberType, FS_EmptySet DEF Number

LEMMA SameValues ==
  ASSUME NEW q \in Seq(Events), NEW r \in Seq(Events), SameEvents(q, r),
         NEW E \in SUBSET Events, NEW n \in Among(q, E)
  PROVE  \E k \in Among(r, E) : r[k] = q[n]
<1>1. q[n] \in E /\ n \in Among(q, {q[n]})
  BY DEF Among
<1>2. Among(r, {q[n]}) # {}
  BY <1>1, SameFound
<1> QED
  BY <1>1, <1>2 DEF Among

-----------------------------------------------------------------------------
(* What becomes of the events taken, while the store has not failed: they  *)
(* are in the table, in an insert, or in the batch.                        *)

TakenOf(E) == {n \in 1 .. taken : topic[n] \in E}

\* What each goroutine has in its insert, and when the batch is empty for good.
IdleInv ==
  /\ cons.at \notin {"inserting", "dead"} => inserting["consumer"] = << >>
  /\ main \notin {"inserting", "dead"} => inserting["main"] = << >>
  /\ settled => chBatch = << >>

Stored(E) == Number(rows, E) + Number(inserting["consumer"], E) + Number(inserting["main"], E)
               + Number(chBatch, E)

StoredInv == spent["store"] = 0 => \A E \in SUBSET Events : Cardinality(TakenOf(E)) = Stored(E)

LEMMA StoreWorks ==
  ASSUME TypeInv, [Next]_vars, spent'["store"] = 0
  PROVE  spent["store"] = 0 /\ ~Spend("store")
<1>1. spent \in [Kinds -> Nat] /\ "store" \in Kinds
  BY DEF TypeInv, MainInv, Kinds
<1>2. UNCHANGED spent \/ \E k \in Kinds : Spend(k)
  BY DEF Next, vars, Consume, MainStep, Receive, FlushTick, ConsumerInserted, Inserted, ApplyStats,
         ApplyStatsFails, Reevaluate, ReevaluateFails, WriteDelta, Send, Produce, StopWaiting,
         MainInserted, Touched, Sweep, SweepWrites, Compare, MainDies, Kinds
<1>3. ASSUME NEW k \in Kinds, Spend(k) PROVE spent["store"] = 0 /\ k # "store"
  <2>1. spent'[k] = spent[k] + 1 /\ \A j \in Kinds : j # k => spent'[j] = spent[j]
    BY <1>1, <1>3, SpendFacts
  <2>2. spent[k] \in Nat
    BY <1>1, <1>3
  <2> QED
    BY <1>1, <2>1, <2>2
<1> QED
  BY <1>1, <1>2, <1>3

LEMMA TakenType ==
  ASSUME TypeInv, NEW E
  PROVE  IsFiniteSet(TakenOf(E)) /\ Cardinality(TakenOf(E)) \in Nat
<1>1. taken \in Nat
  BY DEF TypeInv, FeedInv, ConsumerInv
<1>2. IsFiniteSet(1 .. taken) /\ TakenOf(E) \in SUBSET (1 .. taken)
  BY <1>1, FS_Interval DEF TakenOf
<1> QED
  BY <1>2, FS_Subset, FS_CardinalityType

LEMMA StoredType ==
  ASSUME TypeInv, NEW E
  PROVE  /\ Number(rows, E) \in Nat /\ Number(chBatch, E) \in Nat
         /\ Number(inserting["consumer"], E) \in Nat /\ Number(inserting["main"], E) \in Nat
BY NumberType DEF TypeInv, StoreInv, Goroutines

\* What the steps do to the batch, the inserts and the table.
LEMMA StoreMoves ==
  ASSUME TypeInv, IdleInv, [Next]_vars
  PROVE  \/ Receive
         \/ /\ UNCHANGED <<taken, rows>>
            /\ \E g \in Goroutines : inserting[g] = << >> /\ Flush(g, chBatch)
         \/ /\ UNCHANGED taken
            /\ \E g \in Goroutines : Inserted(g)
         \/ UNCHANGED <<taken, chBatch, inserting, rows>>
<1>1. CASE FlushTick
  <2>1. inserting["consumer"] = << >> /\ Flush("consumer", chBatch) /\ UNCHANGED <<taken, rows>>
    BY <1>1 DEF FlushTick, IdleInv
  <2> QED
    BY <2>1 DEF Goroutines
<1>2. CASE StopWaiting
  <2>1. inserting["main"] = << >> /\ Flush("main", chBatch) /\ UNCHANGED <<taken, rows>>
    BY <1>2 DEF StopWaiting, IdleInv, consumerVars
  <2> QED
    BY <2>1 DEF Goroutines
<1>3. CASE ConsumerInserted \/ MainInserted
  <2>1. (Inserted("consumer") \/ Inserted("main")) /\ UNCHANGED taken
    BY <1>3 DEF ConsumerInserted, MainInserted, consumerVars
  <2> QED
    BY <2>1 DEF Goroutines
<1>4. CASE ~(Receive \/ FlushTick \/ StopWaiting \/ ConsumerInserted \/ MainInserted)
  BY <1>4 DEF Next, vars, Consume, MainStep, consumerVars, storeVars, ApplyStats, ApplyStatsFails,
              Reevaluate, ReevaluateFails, WriteDelta, Send, Touched, Sweep, SweepWrites, Compare,
              MainDies
<1> QED
  BY <1>1, <1>2, <1>3, <1>4

LEMMA StoredKeeps ==
  ASSUME TypeInv, IdleInv, StoredInv, [Next]_vars
  PROVE  StoredInv'
<1> SUFFICES ASSUME spent'["store"] = 0, NEW E \in SUBSET Events
             PROVE  Cardinality(TakenOf(E))' = Stored(E)'
  BY DEF StoredInv
<1>1. Cardinality(TakenOf(E)) = Stored(E) /\ ~Spend("store")
  BY StoreWorks DEF StoredInv
<1>2. /\ Number(rows, E) \in Nat /\ Number(chBatch, E) \in Nat
      /\ Number(inserting["consumer"], E) \in Nat /\ Number(inserting["main"], E) \in Nat
  BY StoredType
<1>3. /\ topic \in Seq(Events) /\ Len(topic) \in Nat /\ taken \in Nat /\ taken <= Len(topic)
      /\ rows \in Seq(Events) /\ chBatch \in Seq(Events)
      /\ inserting \in [Goroutines -> Seq(Events)]
  BY DEF TypeInv, FeedInv, ConsumerInv, StoreInv
<1>4. \A n \in 1 .. taken : topic'[n] = topic[n]
  <2>1. \A n \in 1 .. taken : n \in 1 .. Len(topic)
    BY <1>3
  <2> QED
    BY <2>1, TopicGrows
<1>5. ASSUME taken' = taken PROVE Cardinality(TakenOf(E))' = Cardinality(TakenOf(E))
  <2>1. TakenOf(E)' = TakenOf(E)
    BY <1>4, <1>5 DEF TakenOf
  <2> QED
    BY <2>1
<1>6. CASE Receive
  <2> PICK e : e = topic[taken + 1]
    OBVIOUS
  <2>1. /\ cons.at = "select" /\ taken < Len(topic) /\ taken' = taken + 1 /\ UNCHANGED <<topic, rows>>
        /\ IF Len(Append(chBatch, e)) >= BatchSize
           THEN Flush("consumer", Append(chBatch, e))
           ELSE chBatch' = Append(chBatch, e) /\ inserting' = inserting
    BY <1>6 DEF Receive, feedVars
  <2>2. e \in Events /\ inserting["consumer"] = << >>
    BY <1>3, <2>1 DEF IdleInv
  <2> PICK one \in Nat : one = IF e \in E THEN 1 ELSE 0
    OBVIOUS
  <2>3. Cardinality(TakenOf(E))' = Cardinality(TakenOf(E)) + one
    <3>1. TakenOf(E)' = {n \in 1 .. taken + 1 : topic[n] \in E}
      BY <2>1 DEF TakenOf
    <3>2. /\ \A n \in 1 .. taken + 1 : n \in 1 .. taken \/ n = taken + 1
          /\ \A n \in 1 .. taken : n \in 1 .. taken + 1
          /\ taken + 1 \in 1 .. taken + 1 /\ taken + 1 \notin 1 .. taken
      BY <1>3
    <3>3. TakenOf(E)' = IF e \in E THEN TakenOf(E) \cup {taken + 1} ELSE TakenOf(E)
      BY <3>1, <3>2 DEF TakenOf
    <3>4. taken + 1 \notin TakenOf(E) /\ IsFiniteSet(TakenOf(E)) /\ Cardinality(TakenOf(E)) \in Nat
      BY <3>2, TakenType DEF TakenOf
    <3>5. Cardinality(TakenOf(E) \cup {taken + 1}) = Cardinality(TakenOf(E)) + 1
      BY <3>4, OneMore
    <3> QED
      BY <3>3, <3>4, <3>5
  <2>4. Number(Append(chBatch, e), E) = Number(chBatch, E) + one
    BY <1>3, <2>2, NumberAppend
  <2>5. Number(<< >>, E) = 0
    BY NumberOfNone
  <2>6. Stored(E)' = Stored(E) + one
    <3>1. rows' = rows
      BY <2>1
    <3>2. CASE Len(Append(chBatch, e)) >= BatchSize
      <4>1. /\ inserting'["consumer"] = Append(chBatch, e) /\ inserting'["main"] = inserting["main"]
            /\ chBatch' = << >>
        BY <1>3, <2>1, <3>2 DEF Flush, Goroutines
      <4>2. /\ Number(inserting["consumer"], E)' = Number(chBatch, E) + one
            /\ Number(inserting["main"], E)' = Number(inserting["main"], E)
            /\ Number(chBatch, E)' = 0 /\ Number(rows, E)' = Number(rows, E)
            /\ Number(inserting["consumer"], E) = 0
        BY <2>2, <2>4, <2>5, <3>1, <4>1
      <4> QED
        BY <1>2, <4>2 DEF Stored
    <3>3. CASE ~(Len(Append(chBatch, e)) >= BatchSize)
      <4>1. chBatch' = Append(chBatch, e) /\ inserting' = inserting
        BY <2>1, <3>3
      <4>2. /\ Number(inserting["consumer"], E)' = Number(inserting["consumer"], E)
            /\ Number(inserting["main"], E)' = Number(inserting["main"], E)
            /\ Number(chBatch, E)' = Number(chBatch, E) + one /\ Number(rows, E)' = Number(rows, E)
        BY <2>4, <3>1, <4>1
      <4> QED
        BY <1>2, <4>2 DEF Stored
    <3> QED
      BY <3>2, <3>3
  <2> QED
    BY <1>1, <2>3, <2>6
<1>7. ASSUME UNCHANGED <<taken, rows>>, NEW g \in Goroutines, inserting[g] = << >>, Flush(g, chBatch)
      PROVE  Cardinality(TakenOf(E))' = Stored(E)'
  <2>1. /\ inserting'[g] = chBatch /\ chBatch' = << >> /\ rows' = rows
        /\ \A h \in Goroutines : h # g => inserting'[h] = inserting[h]
    BY <1>3, <1>7 DEF Flush
  <2>2. /\ Number(inserting[g], E) = 0 /\ Number(<< >>, E) = 0
        /\ Number(chBatch, E)' = 0 /\ Number(rows, E)' = Number(rows, E)
        /\ Number(inserting'[g], E) = Number(chBatch, E)
    BY <1>7, <2>1, NumberOfNone
  <2>3. Stored(E)' = Stored(E)
    <3>1. CASE g = "consumer"
      <4>1. inserting'["main"] = inserting["main"]
        BY <2>1, <3>1 DEF Goroutines
      <4> QED
        BY <1>2, <2>2, <3>1, <4>1 DEF Stored
    <3>2. CASE g = "main"
      <4>1. inserting'["consumer"] = inserting["consumer"]
        BY <2>1, <3>2 DEF Goroutines
      <4> QED
        BY <1>2, <2>2, <3>2, <4>1 DEF Stored
    <3> QED
      BY <3>1, <3>2 DEF Goroutines
  <2> QED
    BY <1>1, <1>5, <1>7, <2>3
<1>8. ASSUME UNCHANGED taken, NEW g \in Goroutines, Inserted(g)
      PROVE  Cardinality(TakenOf(E))' = Stored(E)'
  <2>1. /\ rows' = rows \o inserting[g] /\ inserting'[g] = << >> /\ chBatch' = chBatch
        /\ \A h \in Goroutines : h # g => inserting'[h] = inserting[h]
    BY <1>1, <1>3, <1>8 DEF Inserted
  <2>2. inserting[g] \in Seq(Events)
    BY <1>3
  <2>3. Number(rows \o inserting[g], E) = Number(rows, E) + Number(inserting[g], E)
    BY <1>3, <2>2, NumberConcat
  <2>4. /\ Number(rows, E)' = Number(rows, E) + Number(inserting[g], E)
        /\ Number(inserting'[g], E) = 0 /\ Number(chBatch, E)' = Number(chBatch, E)
    BY <2>1, <2>3, NumberOfNone
  <2>5. Stored(E)' = Stored(E)
    <3>1. CASE g = "consumer"
      <4>1. inserting'["main"] = inserting["main"]
        BY <2>1, <3>1 DEF Goroutines
      <4> QED
        BY <1>2, <2>4, <3>1, <4>1 DEF Stored
    <3>2. CASE g = "main"
      <4>1. inserting'["consumer"] = inserting["consumer"]
        BY <2>1, <3>2 DEF Goroutines
      <4> QED
        BY <1>2, <2>4, <3>2, <4>1 DEF Stored
    <3> QED
      BY <3>1, <3>2 DEF Goroutines
  <2> QED
    BY <1>1, <1>5, <1>8, <2>5
<1>9. CASE UNCHANGED <<taken, chBatch, inserting, rows>>
  <2>1. Stored(E)' = Stored(E)
    BY <1>9 DEF Stored
  <2> QED
    BY <1>1, <1>5, <1>9, <2>1
<1> QED
  BY <1>6, <1>7, <1>8, <1>9, StoreMoves

LEMMA IdleKeeps ==
  ASSUME TypeInv, SettledInv, IdleInv, [Next]_vars
  PROVE  IdleInv'
<1>1. /\ inserting \in [Goroutines -> Seq(Events)] /\ Goroutines = {"consumer", "main"}
      /\ taken \in 0 .. Len(topic) /\ Len(topic) \in Nat
      /\ cons.at = "select" => consumed = taken
      /\ \A at : [cons EXCEPT !.at = at].at = at
  BY DEF TypeInv, FeedInv, ConsumerInv, StoreInv, Goroutines
<1>2. CASE Receive
  <2> PICK e : e = topic[taken + 1]
    OBVIOUS
  <2>1. /\ cons.at = "select" /\ taken < Len(topic) /\ UNCHANGED <<main, settled>>
        /\ \/ Flush("consumer", Append(chBatch, e)) /\ cons' = [at |-> "inserting", hand |-> <<e>>]
           \/ inserting' = inserting /\ cons'.at = "stats"
    BY <1>2 DEF Receive, mainVars
  <2>2. ~settled
    BY <1>1, <2>1 DEF SettledInv
  <2>3. inserting["consumer"] = << >>
    BY <2>1 DEF IdleInv
  <2>4. CASE inserting' = inserting /\ cons'.at = "stats"
    BY <2>1, <2>2, <2>3, <2>4 DEF IdleInv
  <2>5. CASE Flush("consumer", Append(chBatch, e)) /\ cons' = [at |-> "inserting", hand |-> <<e>>]
    <3>1. inserting'["main"] = inserting["main"] /\ cons'.at = "inserting"
      BY <1>1, <2>5 DEF Flush
    <3> QED
      BY <2>1, <2>2, <3>1 DEF IdleInv
  <2> QED
    BY <2>1, <2>4, <2>5
<1>3. CASE FlushTick
  <2>1. /\ cons'.at = "inserting" /\ inserting'["main"] = inserting["main"] /\ chBatch' = << >>
        /\ UNCHANGED <<main, settled>>
    BY <1>1, <1>3 DEF FlushTick, Flush, mainVars
  <2> QED
    BY <2>1 DEF IdleInv
<1>4. CASE ConsumerInserted
  <2>1. /\ inserting'["consumer"] = << >> /\ inserting'["main"] = inserting["main"]
        /\ chBatch' = chBatch /\ UNCHANGED <<main, settled>>
    BY <1>1, <1>4 DEF ConsumerInserted, Inserted, mainVars
  <2> QED
    BY <2>1 DEF IdleInv
<1>5. CASE StopWaiting
  <2>1. /\ inserting' = [inserting EXCEPT !["main"] = chBatch] /\ chBatch' = << >> /\ cons' = cons
        /\ main' = IF chBatch = << >> THEN "touched" ELSE "inserting"
    BY <1>5 DEF StopWaiting, Flush, consumerVars
  <2>2. inserting'["consumer"] = inserting["consumer"] /\ inserting'["main"] = chBatch
    BY <1>1, <2>1
  <2> QED
    BY <2>1, <2>2 DEF IdleInv
<1>6. CASE MainInserted
  <2>1. /\ inserting'["main"] = << >> /\ inserting'["consumer"] = inserting["consumer"]
        /\ UNCHANGED <<cons, chBatch, settled>>
    BY <1>1, <1>6 DEF MainInserted, Inserted, consumerVars
  <2> QED
    BY <2>1 DEF IdleInv
<1>7. CASE ApplyStats \/ ApplyStatsFails \/ Reevaluate \/ ReevaluateFails \/ WriteDelta
  <2>1. /\ UNCHANGED <<chBatch, inserting, main, settled>>
        /\ cons.at \in {"stats", "reevaluate", "writing"}
    BY <1>7 DEF ApplyStats, ApplyStatsFails, Reevaluate, ReevaluateFails, WriteDelta, storeVars, mainVars
  <2>2. inserting["consumer"] = << >>
    BY <2>1 DEF IdleInv
  <2> QED
    BY <2>1, <2>2 DEF IdleInv
<1>8. CASE Send \/ Touched \/ SweepWrites \/ Compare \/ \E p \in Profiles : Sweep(p)
  <2>1. /\ UNCHANGED <<chBatch, inserting, cons, settled>> /\ main \notin {"inserting", "dead"}
    BY <1>8 DEF Send, Touched, SweepWrites, Compare, Sweep, storeVars, consumerVars
  <2> QED
    BY <2>1 DEF IdleInv
<1>9. CASE MainDies
  <2>1. UNCHANGED <<chBatch, inserting, settled>> /\ cons'.at = "dead" /\ main' = "dead"
    BY <1>1, <1>9 DEF MainDies, storeVars
  <2> QED
    BY <2>1 DEF IdleInv
<1>10. CASE UNCHANGED vars
  BY <1>10 DEF IdleInv, vars, consumerVars, storeVars, mainVars
<1> QED
  BY <1>2, <1>3, <1>4, <1>5, <1>6, <1>7, <1>8, <1>9, <1>10 DEF Next, Consume, MainStep

\* When the comparison is fair the table holds the topic's events.
LEMMA ComparedRows ==
  ASSUME TypeInv, SettledInv, IdleInv, StoredInv, FairCompare
  PROVE  SameEvents(topic, rows) /\ taken = Len(topic) /\ AppliedTo = Len(topic)
<1>1. /\ main = "sweep" /\ settled /\ inserting["consumer"] = << >> /\ spent["store"] = 0
  BY DEF FairCompare, Compare, NoErrors
<1>2. /\ taken \in 0 .. Len(topic) /\ Len(topic) \in Nat /\ DOMAIN topic = 1 .. Len(topic)
      /\ consumed = Len(topic) /\ consumed = IF cons.hand = << >> THEN taken ELSE taken - 1
      /\ cons.at \in {"stats", "reevaluate", "writing"} => cons.hand # << >>
  BY <1>1 DEF TypeInv, FeedInv, ConsumerInv, SettledInv
<1>3. taken = Len(topic) /\ AppliedTo = Len(topic)
  BY <1>2 DEF AppliedTo
<1>4. inserting["main"] = << >> /\ chBatch = << >>
  BY <1>1 DEF IdleInv
<1>5. ASSUME NEW E \in SUBSET Events PROVE Number(topic, E) = Number(rows, E)
  <2>1. TakenOf(E) = Among(topic, E)
    BY <1>2, <1>3 DEF TakenOf, Among
  <2>2. Cardinality(TakenOf(E)) = Stored(E)
    BY <1>1 DEF StoredInv
  <2>3. Stored(E) = Number(rows, E) + 0 + 0 + 0
    BY <1>1, <1>4, NumberOfNone DEF Stored
  <2>4. Number(rows, E) \in Nat
    BY StoredType
  <2> QED
    BY <2>1, <2>2, <2>3, <2>4 DEF Number
<1> QED
  BY <1>3, <1>5 DEF SameEvents

First(s) == CHOOSE x \in s : TRUE

\* g adds up the prices over the subsets of S, one element after the other.
Sums(t, S, g) ==
  g = [s \in SUBSET S |-> IF s = {} THEN 0 ELSE t[First(s)].price + g[s \ {First(s)}]]

LEMMA SumsAt ==
  ASSUME NEW t, NEW S, NEW g, Sums(t, S, g), NEW s \in SUBSET S
  PROVE  /\ g[s] = IF s = {} THEN 0 ELSE t[First(s)].price + g[s \ {First(s)}]
         /\ s # {} => First(s) \in s /\ s \ {First(s)} \in SUBSET S /\ s \ {First(s)} # s
<1>1. g[s] = IF s = {} THEN 0 ELSE t[First(s)].price + g[s \ {First(s)}]
  BY DEF Sums
<1>2. s # {} => First(s) \in s
  BY DEF First
<1> QED
  BY <1>1, <1>2

\* Two such functions agree where both are defined.
LEMMA SumsAgree ==
  ASSUME NEW t, NEW S, IsFiniteSet(S), NEW T \in SUBSET S,
         NEW g, Sums(t, S, g), NEW h, Sums(t, T, h)
  PROVE  \A s \in SUBSET T : g[s] = h[s]
<1> DEFINE Bad == {s \in SUBSET T : g[s] # h[s]}
<1>1. SUFFICES ASSUME Bad # {} PROVE FALSE
  OBVIOUS
<1>2. IsFiniteSet(T) /\ Bad \subseteq SUBSET T
  BY FS_Subset
<1>3. PICK s \in Bad : \A y \in Bad : y \subseteq s => y = s
  <2> HIDE DEF Bad
  <2> QED
    BY <1>1, <1>2, LeastSet
<1>4. s \in SUBSET T /\ s \in SUBSET S /\ g[s] # h[s]
  OBVIOUS
<1>5. /\ g[s] = IF s = {} THEN 0 ELSE t[First(s)].price + g[s \ {First(s)}]
      /\ h[s] = IF s = {} THEN 0 ELSE t[First(s)].price + h[s \ {First(s)}]
      /\ s # {} => First(s) \in s /\ s \ {First(s)} # s
  <2> HIDE DEF Bad
  <2>1. g[s] = IF s = {} THEN 0 ELSE t[First(s)].price + g[s \ {First(s)}]
    BY <1>4, SumsAt
  <2>3. s # {} => First(s) \in s /\ s \ {First(s)} # s
    BY DEF First
  <2>2. h[s] = IF s = {} THEN 0 ELSE t[First(s)].price + h[s \ {First(s)}]
    BY <1>4, SumsAt
  <2> QED
    BY <2>1, <2>2, <2>3
<1>6. s # {} /\ s \ {First(s)} \in SUBSET T /\ g[s \ {First(s)}] # h[s \ {First(s)}]
  BY <1>4, <1>5
<1> QED
  BY <1>3, <1>5, <1>6

LEMMA SumsExist ==
  ASSUME NEW t, NEW S, IsFiniteSet(S)
  PROVE  \E g : Sums(t, S, g)
<1> DEFINE Bad == {T \in SUBSET S : ~\E g : Sums(t, T, g)}
<1>1. SUFFICES ASSUME Bad # {} PROVE FALSE
  OBVIOUS
<1>2. Bad \subseteq SUBSET S
  OBVIOUS
<1>3. PICK T \in Bad : \A y \in Bad : y \subseteq T => y = T
  <2> HIDE DEF Bad
  <2> QED
    BY <1>1, <1>2, LeastSet
<1>4. T \in SUBSET S /\ ~\E g : Sums(t, T, g)
  OBVIOUS
<1> DEFINE G(U) == CHOOSE g : Sums(t, U, g)
<1>5. \A U \in SUBSET T : U # T => Sums(t, U, G(U)) /\ IsFiniteSet(U)
  <2>1. SUFFICES ASSUME NEW U \in SUBSET T, U # T PROVE Sums(t, U, G(U)) /\ IsFiniteSet(U)
    OBVIOUS
  <2>2. U \in SUBSET S /\ U \notin Bad
    BY <1>3, <1>4, <2>1
  <2>3. \E g : Sums(t, U, g)
    BY <2>2
  <2> QED
    BY <2>2, <2>3, FS_Subset
<1> HIDE DEF G, Bad
<1> DEFINE h == [s \in SUBSET T |-> IF s = {} THEN 0 ELSE t[First(s)].price + G(s \ {First(s)})[s \ {First(s)}]]
<1>6. ASSUME NEW r \in SUBSET T, r # T PROVE h[r] = G(r)[r]
  <2>1. G(r)[r] = IF r = {} THEN 0 ELSE t[First(r)].price + G(r)[r \ {First(r)}]
    BY <1>5, <1>6, SumsAt
  <2>2. h[r] = IF r = {} THEN 0 ELSE t[First(r)].price + G(r \ {First(r)})[r \ {First(r)}]
    OBVIOUS
  <2> HIDE DEF h
  <2>3. CASE r = {}
    BY <2>1, <2>2, <2>3
  <2>4. CASE r # {}
    <3> DEFINE q == r \ {First(r)}
    <3>1. First(r) \in r
      BY <2>4 DEF First
    <3>2. q \in SUBSET r /\ q \in SUBSET T /\ q # T
      BY <3>1
    <3> HIDE DEF q
    <3>3. \A s \in SUBSET q : G(r)[s] = G(q)[s]
      BY <1>5, <1>6, <3>2, SumsAgree
    <3>4. G(r)[q] = G(q)[q]
      BY <3>3
    <3> QED
      BY <2>1, <2>2, <2>4, <3>4 DEF q
  <2> QED
    BY <2>3, <2>4
<1>7. h = [s \in SUBSET T |-> IF s = {} THEN 0 ELSE t[First(s)].price + h[s \ {First(s)}]]
  <2>1. ASSUME NEW s \in SUBSET T, s # {}
        PROVE  h[s] = t[First(s)].price + h[s \ {First(s)}]
    <3>1. h[s] = t[First(s)].price + G(s \ {First(s)})[s \ {First(s)}]
      BY <2>1
    <3> HIDE DEF h
    <3>2. First(s) \in s
      BY <2>1 DEF First
    <3>3. s \ {First(s)} \in SUBSET T /\ s \ {First(s)} # T
      BY <3>2
    <3> QED
      BY <1>6, <3>1, <3>3
  <2>2. h[{}] = 0
    OBVIOUS
  <2>3. h = [s \in SUBSET T |-> h[s]]
    OBVIOUS
  <2> HIDE DEF h
  <2>4. \A s \in SUBSET T : h[s] = IF s = {} THEN 0 ELSE t[First(s)].price + h[s \ {First(s)}]
    BY <2>1, <2>2
  <2> QED
    BY <2>3, <2>4
<1> HIDE DEF h
<1> QED
  BY <1>4, <1>7 DEF Sums

\* Whichever element comes first, the sum is the same.
LEMMA AnyFirst ==
  ASSUME NEW t, NEW S, IsFiniteSet(S), \A i \in S : t[i].price \in Int, NEW g, Sums(t, S, g)
  PROVE  /\ g[{}] = 0
         /\ \A s \in SUBSET S : g[s] \in Int /\ \A x \in s : g[s] = t[x].price + g[s \ {x}]
<1> DEFINE Fits(s) == g[s] \in Int /\ \A x \in s : g[s] = t[x].price + g[s \ {x}]
           Bad == {s \in SUBSET S : ~Fits(s)}
<1>1. g[{}] = 0
  BY SumsAt
<1>2. SUFFICES ASSUME Bad # {} PROVE FALSE
  BY <1>1
<1>3. Bad \subseteq SUBSET S
  OBVIOUS
<1>4. PICK s \in Bad : \A y \in Bad : y \subseteq s => y = s
  <2> HIDE DEF Bad
  <2> QED
    BY <1>2, <1>3, LeastSet
<1>5. s \in SUBSET S /\ ~Fits(s)
  OBVIOUS
<1> PICK c : c = First(s)
  OBVIOUS
<1>6. /\ g[s] = IF s = {} THEN 0 ELSE t[c].price + g[s \ {c}]
      /\ s # {} => c \in s
  <2> HIDE DEF Bad, Fits
  <2>1. s \in SUBSET S
    BY <1>5
  <2>2. g[s] = IF s = {} THEN 0 ELSE t[First(s)].price + g[s \ {First(s)}]
    BY <2>1, SumsAt
  <2>3. s # {} => First(s) \in s
    BY DEF First
  <2> QED
    BY <2>2, <2>3
<1>7. s # {} /\ c \in s /\ g[s] = t[c].price + g[s \ {c}]
  BY <1>5, <1>6
<1>8. \A y \in SUBSET s : y # s => Fits(y)
  <2> SUFFICES ASSUME NEW y \in SUBSET s, y # s PROVE Fits(y)
    OBVIOUS
  <2>1. y \notin Bad /\ y \in SUBSET S
    <3> HIDE DEF Bad, Fits
    <3> QED
      BY <1>4, <1>5
  <2> QED
    BY <2>1
<1> HIDE DEF Bad
<1>9. s \ {c} \in SUBSET s /\ s \ {c} # s
  BY <1>7
<1>10. g[s] \in Int
  <2>1. g[s \ {c}] \in Int /\ t[c].price \in Int
    BY <1>5, <1>7, <1>8, <1>9
  <2> HIDE DEF Fits
  <2> QED
    BY <1>7, <2>1
<1>11. ASSUME NEW x \in s, x # c PROVE g[s] = t[x].price + g[s \ {x}]
  <2> PICK r : r = (s \ {c}) \ {x}
    OBVIOUS
  <2>1. s \ {x} \in SUBSET s /\ s \ {x} # s /\ r = (s \ {x}) \ {c} /\ r \in SUBSET s /\ r # s
    BY <1>7
  <2>2. Fits(s \ {c}) /\ Fits(s \ {x}) /\ Fits(r)
    <3> HIDE DEF Fits
    <3> QED
      BY <1>8, <1>9, <2>1
  <2>3. g[s \ {c}] = t[x].price + g[r] /\ g[s \ {x}] = t[c].price + g[r]
    <3>1. x \in s \ {c} /\ c \in s \ {x}
      BY <1>7, <1>11
    <3>2. \A y \in s \ {c} : g[s \ {c}] = t[y].price + g[(s \ {c}) \ {y}]
      BY <2>2
    <3>3. \A y \in s \ {x} : g[s \ {x}] = t[y].price + g[(s \ {x}) \ {y}]
      BY <2>2
    <3> HIDE DEF Fits
    <3> QED
      BY <2>1, <3>1, <3>2, <3>3
  <2>4. g[r] \in Int /\ t[x].price \in Int /\ t[c].price \in Int
    BY <1>5, <1>7, <2>2
  <2> HIDE DEF Fits
  <2> QED
    BY <1>7, <2>3, <2>4
<1> QED
  BY <1>5, <1>7, <1>10, <1>11

\* Two sums over sets of equally priced elements.
LEMMA SumsThrough ==
  ASSUME NEW S, IsFiniteSet(S), NEW t, \A i \in S : t[i].price \in Int, NEW g, Sums(t, S, g),
         NEW T, IsFiniteSet(T), NEW u, NEW h, Sums(u, T, h),
         NEW f \in Bijection(S, T), \A i \in S : u[f[i]].price = t[i].price
  PROVE  g[S] = h[T]
<1> DEFINE Through(s) == {f[i] : i \in s}
           Bad == {s \in SUBSET S : g[s] # h[Through(s)]}
<1>1. /\ f \in [S -> T] /\ \A i, j \in S : f[i] = f[j] => i = j
      /\ \A k \in T : \E i \in S : f[i] = k
  BY DEF Bijection, Injection, Surjection, IsInjective
<1>2. \A k \in T : u[k].price \in Int
  BY <1>1
<1>3. Through(S) = T
  BY <1>1
<1>4. SUFFICES ASSUME Bad # {} PROVE FALSE
  BY <1>3
<1>5. Bad \subseteq SUBSET S
  OBVIOUS
<1>6. PICK s \in Bad : \A y \in Bad : y \subseteq s => y = s
  <2> HIDE DEF Bad
  <2> QED
    BY <1>4, <1>5, LeastSet
<1>7. s \in SUBSET S /\ g[s] # h[Through(s)]
  OBVIOUS
<1>8. /\ g[{}] = 0 /\ h[{}] = 0
      /\ \A r \in SUBSET S : g[r] \in Int /\ \A x \in r : g[r] = t[x].price + g[r \ {x}]
      /\ \A r \in SUBSET T : h[r] \in Int /\ \A x \in r : h[r] = u[x].price + h[r \ {x}]
  BY <1>2, AnyFirst
<1>9. s # {}
  <2>1. Through({}) = {}
    OBVIOUS
  <2> HIDE DEF Through
  <2> QED
    BY <1>7, <1>8, <2>1
<1>10. PICK x \in s : TRUE
  BY <1>9
<1>11. g[s \ {x}] = h[Through(s \ {x})]
  <2>1. s \ {x} \in SUBSET S /\ s \ {x} \subseteq s /\ s \ {x} # s
    BY <1>7, <1>10
  <2>2. s \ {x} \notin Bad
    <3> HIDE DEF Bad
    <3> QED
      BY <1>6, <2>1
  <2> HIDE DEF Through
  <2> QED
    BY <2>1, <2>2
<1>12. /\ Through(s) \in SUBSET T /\ f[x] \in Through(s)
       /\ Through(s) \ {f[x]} = Through(s \ {x})
  BY <1>1, <1>7, <1>10
<1> HIDE DEF Through, Bad
<1>13. g[s] = t[x].price + g[s \ {x}]
  BY <1>7, <1>8, <1>10
<1>14. h[Through(s)] = u[f[x]].price + h[Through(s \ {x})]
  <2> PICK r \in SUBSET T : r = Through(s)
    BY <1>12
  <2>1. h[r] = u[f[x]].price + h[r \ {f[x]}]
    BY <1>8, <1>12
  <2> QED
    BY <1>12, <2>1
<1> QED
  BY <1>7, <1>10, <1>11, <1>13, <1>14

LEMMA SumOfPricesIs ==
  ASSUME NEW q, NEW S, IsFiniteSet(S)
  PROVE  \E g : Sums(q, S, g) /\ SumOfPrices(q, S) = g[S]
<1>1. SumOfPrices(q, S) = (CHOOSE g : Sums(q, S, g))[S]
  BY DEF SumOfPrices, MapThenSumSet, MapThenFoldSet, Sums, First
<1>2. Sums(q, S, CHOOSE g : Sums(q, S, g))
  BY SumsExist
<1> QED
  BY <1>1, <1>2

\* The sum over the members of a purchase set.
LEMMA SumOfMembersIs ==
  ASSUME NEW S, IsFiniteSet(S)
  PROVE  \E g : Sums([m \in S |-> m], S, g) /\ MapThenSumSet(LAMBDA m : m.price, S) = g[S]
<1> DEFINE same == [m \in S |-> m]
           Adds(g) == g = [s \in SUBSET S |-> IF s = {} THEN 0 ELSE First(s).price + g[s \ {First(s)}]]
<1>1. MapThenSumSet(LAMBDA m : m.price, S) = (CHOOSE g : Adds(g))[S]
  BY DEF MapThenSumSet, MapThenFoldSet, First
<1>2. \A s \in SUBSET S : s # {} => same[First(s)] = First(s)
  BY DEF First
<1> HIDE DEF same
<1>3. \A g : [s \in SUBSET S |-> IF s = {} THEN 0 ELSE First(s).price + g[s \ {First(s)}]]
             = [s \in SUBSET S |-> IF s = {} THEN 0 ELSE same[First(s)].price + g[s \ {First(s)}]]
  BY <1>2
<1>4. \A g : Adds(g) <=> Sums(same, S, g)
  BY <1>3 DEF Sums
<1>5. \E g : Adds(g)
  BY <1>4, SumsExist
<1>6. Adds(CHOOSE g : Adds(g))
  BY <1>5
<1> HIDE DEF Adds
<1> QED
  BY <1>1, <1>4, <1>6 DEF same

-----------------------------------------------------------------------------
(* A query has one answer over the topic and over the table.               *)

EventsOf(p) == {e \in Events : e.profile = p}
TypedEvents(p, type) == {e \in EventsOf(p) : e.type = type}

LEMMA GroupsAre ==
  ASSUME NEW q \in Seq(Events), NEW p
  PROVE  /\ OfProfile(q, p) = Among(q, EventsOf(p))
         /\ \A type : OfType(q, OfProfile(q, p), type) = Among(q, TypedEvents(p, type))
         /\ \A type, from : Since(q, OfType(q, OfProfile(q, p), type), from) =
                              Among(q, {e \in TypedEvents(p, type) : e.ts >= from})
         /\ \A from : Since(q, OfProfile(q, p), from) = Among(q, {e \in EventsOf(p) : e.ts >= from})
         /\ \A type, c : {n \in OfType(q, OfProfile(q, p), type) : q[n].category = c} =
                           Among(q, {e \in TypedEvents(p, type) : e.category = c})
<1>1. \A n \in DOMAIN q : q[n] \in Events
  OBVIOUS
<1>2. OfProfile(q, p) = Among(q, EventsOf(p))
  BY <1>1 DEF OfProfile, Among, EventsOf
<1>3. \A type : OfType(q, OfProfile(q, p), type) = Among(q, TypedEvents(p, type))
  BY <1>1 DEF OfProfile, OfType, Among, EventsOf, TypedEvents
<1>4. ASSUME NEW type, NEW from
      PROVE  Since(q, OfType(q, OfProfile(q, p), type), from) =
               Among(q, {e \in TypedEvents(p, type) : e.ts >= from})
  <2>1. OfType(q, OfProfile(q, p), type) = Among(q, TypedEvents(p, type))
    BY <1>3
  <2> QED
    BY <2>1 DEF Since, Among
<1>5. ASSUME NEW from
      PROVE  Since(q, OfProfile(q, p), from) = Among(q, {e \in EventsOf(p) : e.ts >= from})
  BY <1>2 DEF Since, Among
<1>6. ASSUME NEW type, NEW c
      PROVE  {n \in OfType(q, OfProfile(q, p), type) : q[n].category = c} =
               Among(q, {e \in TypedEvents(p, type) : e.category = c})
  <2>1. OfType(q, OfProfile(q, p), type) = Among(q, TypedEvents(p, type))
    BY <1>3
  <2> QED
    BY <2>1 DEF Among
<1> QED
  BY <1>2, <1>3, <1>4, <1>5, <1>6, Zenon

LEMMA SameBackwards ==
  ASSUME NEW q, NEW r, SameEvents(q, r)
  PROVE  SameEvents(r, q)
BY DEF SameEvents

LEMMA SameLatest ==
  ASSUME NEW q \in Seq(Events), NEW r \in Seq(Events), SameEvents(q, r), NEW E \in SUBSET Events
  PROVE  Latest(q, Among(q, E)) = Latest(r, Among(r, E))
<1>1. \A n \in Among(q, E) : \E k \in Among(r, E) : r[k] = q[n]
  BY SameValues
<1>2. \A k \in Among(r, E) : \E n \in Among(q, E) : q[n] = r[k]
  BY SameBackwards, SameValues
<1>3. {q[n].ts : n \in Among(q, E)} = {r[k].ts : k \in Among(r, E)}
  <2> PICK A : A = Among(q, E)
    OBVIOUS
  <2> PICK B : B = Among(r, E)
    OBVIOUS
  <2>1. \A n \in A : \E k \in B : r[k].ts = q[n].ts
    BY <1>1
  <2>2. \A k \in B : \E n \in A : q[n].ts = r[k].ts
    BY <1>2
  <2> QED
    BY <2>1, <2>2
<1> QED
  BY <1>3 DEF Latest

LEMMA SameCategories ==
  ASSUME NEW q \in Seq(Events), NEW r \in Seq(Events), SameEvents(q, r), NEW E \in SUBSET Events
  PROVE  {q[n].category : n \in Among(q, E)} = {r[n].category : n \in Among(r, E)}
<1> PICK A : A = Among(q, E)
  OBVIOUS
<1> PICK B : B = Among(r, E)
  OBVIOUS
<1>1. \A n \in A : \E k \in B : r[k].category = q[n].category
  BY SameValues
<1>2. \A k \in B : \E n \in A : q[n].category = r[k].category
  BY SameBackwards, SameValues
<1> QED
  BY <1>1, <1>2

LEMMA SameUnrepeated ==
  ASSUME NEW q \in Seq(Events), NEW r \in Seq(Events), SameEvents(q, r), NEW E \in SUBSET Events,
         Unrepeated(q, Among(q, E))
  PROVE  Unrepeated(r, Among(r, E))
<1> SUFFICES ASSUME NEW m \in Among(r, E), NEW n \in Among(r, E), r[m] = r[n] PROVE m = n
  BY DEF Unrepeated
<1> PICK e : e = r[m]
  OBVIOUS
<1>1. e \in E /\ {e} \in SUBSET Events /\ m \in Among(r, {e}) /\ n \in Among(r, {e})
  BY DEF Among
<1>2. PICK k \in Among(q, E) : q[k] = e
  BY SameBackwards, SameValues
<1>3. Among(q, {e}) = {k}
  <2>1. \A j \in Among(q, {e}) : j \in Among(q, E) /\ q[j] = q[k]
    BY <1>1, <1>2 DEF Among
  <2>2. k \in Among(q, {e})
    BY <1>2 DEF Among
  <2> QED
    BY <1>2, <2>1, <2>2 DEF Unrepeated
<1>4. Cardinality(Among(r, {e})) = 1 /\ IsFiniteSet(Among(r, {e}))
  <2>1. Number(q, {e}) = Number(r, {e})
    BY <1>1 DEF SameEvents
  <2>2. Number(q, {e}) = 1
    BY <1>3, FS_Singleton DEF Number
  <2> QED
    BY <2>1, <2>2, NumberType DEF Number
<1>5. \E x : Among(r, {e}) = {x}
  BY <1>4, FS_Singleton
<1> QED
  BY <1>1, <1>5

LEMMA SameSum ==
  ASSUME NEW q \in Seq(Events), NEW r \in Seq(Events), SameEvents(q, r), NEW E \in SUBSET Events,
         Unrepeated(q, Among(q, E))
  PROVE  SumOfPrices(q, Among(q, E)) = SumOfPrices(r, Among(r, E))
<1> PICK A : A = Among(q, E)
  OBVIOUS
<1> PICK B : B = Among(r, E)
  OBVIOUS
<1> DEFINE f == [n \in A |-> CHOOSE k \in B : r[k] = q[n]]
<1>1. IsFiniteSet(A) /\ IsFiniteSet(B)
  BY NumberType
<1>2. \A n \in A : \E k \in B : r[k] = q[n]
  BY SameValues
<1>3. \A k \in B : \E n \in A : q[n] = r[k]
  BY SameBackwards, SameValues
<1>4. \A n \in A : f[n] \in B /\ r[f[n]] = q[n]
  BY <1>2
<1>5. Unrepeated(q, A) /\ Unrepeated(r, B)
  BY SameUnrepeated
<1>6. f \in [A -> B]
  BY <1>4
<1> HIDE DEF f
<1>7. f \in Bijection(A, B)
  <2>1. \A m, n \in A : f[m] = f[n] => m = n
    BY <1>4, <1>5 DEF Unrepeated
  <2>2. f \in Injection(A, B)
    BY <1>6, <2>1, Zenon DEF Injection, IsInjective
  <2>3. \A k \in B : \E n \in A : f[n] = k
    <3> SUFFICES ASSUME NEW k \in B PROVE \E n \in A : f[n] = k
      OBVIOUS
    <3>1. PICK n \in A : q[n] = r[k]
      BY <1>3
    <3>2. f[n] \in B /\ r[f[n]] = r[k]
      BY <1>4, <3>1
    <3> QED
      BY <1>5, <3>2 DEF Unrepeated
  <2>4. f \in Surjection(A, B)
    BY <1>6, <2>3 DEF Surjection
  <2> QED
    BY <2>2, <2>4 DEF Bijection
<1>8. \A n \in A : q[n].price \in Int /\ r[f[n]].price = q[n].price
  <2>1. \A n \in A : q[n] \in Events
    BY DEF Among
  <2> QED
    BY <1>4, <2>1, BenchAssumption
<1>9. PICK g : Sums(q, A, g) /\ SumOfPrices(q, A) = g[A]
  BY <1>1, SumOfPricesIs
<1>10. PICK h : Sums(r, B, h) /\ SumOfPrices(r, B) = h[B]
  BY <1>1, SumOfPricesIs
<1>11. g[A] = h[B]
  BY <1>1, <1>7, <1>8, <1>9, <1>10, SumsThrough
<1> QED
  BY <1>9, <1>10, <1>11

-----------------------------------------------------------------------------
(* On whole seconds nothing is lost in a score or in dateDiff.             *)

Whole(t) == t % Second = 0

LEMMA TimesOrdered ==
  ASSUME NEW n \in Nat \ {0}, NEW j \in Int, NEW k \in Int
  PROVE  n * j <= n * k <=> j <= k
OBVIOUS

LEMMA WholeIs ==
  ASSUME NEW t \in Int, Whole(t)
  PROVE  Sec(t) \in Int /\ t = Second * Sec(t)
<1>1. Second \in Nat \ {0}
  BY SegmentsAssumption
<1> QED
  BY <1>1 DEF Whole, Sec

LEMMA SecTimes ==
  ASSUME NEW k \in Int
  PROVE  Second * k \in Int /\ Sec(Second * k) = k /\ Whole(Second * k)
<1>1. Second \in Nat \ {0}
  BY SegmentsAssumption
<1>2. (Second * k) \div Second = k
  BY <1>1
<1>3. (Second * k) % Second = 0
  BY <1>1
<1> QED
  BY <1>1, <1>2, <1>3 DEF Whole, Sec

LEMMA SecOrder ==
  ASSUME NEW a \in Int, NEW b \in Int, Whole(a), Whole(b)
  PROVE  Sec(a) <= Sec(b) <=> a <= b
<1>1. Second \in Nat \ {0}
  BY SegmentsAssumption
<1>2. Sec(a) \in Int /\ Sec(b) \in Int /\ a = Second * Sec(a) /\ b = Second * Sec(b)
  BY WholeIs
<1> PICK j \in Int : j = Sec(a)
  BY <1>2
<1> PICK k \in Int : k = Sec(b)
  BY <1>2
<1>3. Second * j <= Second * k <=> j <= k
  BY <1>1, TimesOrdered
<1> QED
  BY <1>2, <1>3

LEMMA DaysIs ==
  ASSUME NEW days \in Int
  PROVE  days * Day \in Int /\ Whole(days * Day) /\ Sec(days * Day) = days * Sec(Day)
<1>1. Day \in Nat \ {0} /\ Whole(Day) /\ Second \in Nat \ {0}
  BY SegmentsAssumption DEF Whole
<1>2. Sec(Day) \in Int /\ Day = Second * Sec(Day)
  BY <1>1, WholeIs
<1> PICK k \in Int : k = Sec(Day)
  BY <1>2
<1>3. days * (Second * k) = Second * (days * k) /\ days * k \in Int
  BY <1>1
<1>4. Sec(Second * (days * k)) = days * k /\ Whole(Second * (days * k)) /\ Second * (days * k) \in Int
  BY <1>3, SecTimes
<1> QED
  BY <1>2, <1>3, <1>4

LEMMA WholeMinus ==
  ASSUME NEW a \in Int, NEW b \in Int, Whole(a), Whole(b)
  PROVE  a - b \in Int /\ Whole(a - b) /\ Sec(a - b) = Sec(a) - Sec(b)
<1>1. Second \in Nat \ {0}
  BY SegmentsAssumption
<1>2. Sec(a) \in Int /\ Sec(b) \in Int /\ a = Second * Sec(a) /\ b = Second * Sec(b)
  BY WholeIs
<1> PICK j \in Int : j = Sec(a)
  BY <1>2
<1> PICK k \in Int : k = Sec(b)
  BY <1>2
<1>3. Second * j - Second * k = Second * (j - k) /\ j - k \in Int
  BY <1>1
<1>4. Sec(Second * (j - k)) = j - k /\ Whole(Second * (j - k))
  BY <1>3, SecTimes
<1> QED
  BY <1>2, <1>3, <1>4

LEMMA DaysPassedIs ==
  ASSUME NEW from \in Int, NEW to \in Int, Whole(from), Whole(to), NEW days \in Nat
  PROVE  DaysPassed(from, to, days) <=> to - from >= days * Day
<1>0. days * Day \in Int /\ Whole(days * Day)
  BY DaysIs
<1>1. to - from \in Int /\ Whole(to - from) /\ Sec(to - from) = Sec(to) - Sec(from)
  BY WholeMinus
<1>2. Sec(days * Day) <= Sec(to - from) <=> days * Day <= to - from
  BY <1>0, <1>1, SecOrder
<1>3. DaysPassed(from, to, days) <=> Sec(to - from) >= Sec(days * Day)
  BY <1>1 DEF DaysPassed, DateDiffSeconds, Sec
<1>4. Sec(to - from) \in Int /\ Sec(days * Day) \in Int
  BY <1>0, <1>1, WholeIs
<1> QED
  BY <1>0, <1>1, <1>2, <1>3, <1>4

\* Whatever the order of the rows, the query gives the same answer.
LEMMA SameHaving ==
  ASSUME NEW q \in Seq(Events), NEW r \in Seq(Events), SameEvents(q, r),
         NEW p, NEW seg, Parameters(seg), NEW asOf,
         seg.family = "purchase_value_min" => Unrepeated(q, OfProfile(q, p))
  PROVE  Having(q, OfProfile(q, p), seg, asOf) <=> Having(r, OfProfile(r, p), seg, asOf)
<1> DEFINE mine == EventsOf(p)
           typed(type) == TypedEvents(p, type)
<1>1. mine \in SUBSET Events /\ \A type : typed(type) \in SUBSET mine
  BY DEF EventsOf, TypedEvents
<1>2. \A t \in Seq(Events) : OfProfile(t, p) = Among(t, mine)
  BY GroupsAre
<1>3. \A t \in Seq(Events) : \A type : OfType(t, OfProfile(t, p), type) = Among(t, typed(type))
  BY GroupsAre
<1>4. CASE seg.family \in {"purchase_count_min", "purchase_value_min"}
  <2> PICK from : from = asOf - seg.WindowDays * Day
    OBVIOUS
  <2> DEFINE E == {e \in typed("purchase") : e.ts >= from}
             Window(t) == Since(t, OfType(t, OfProfile(t, p), "purchase"), from)
  <2>1. E \in SUBSET Events /\ E \in SUBSET mine
    BY <1>1
  <2>2. Window(q) = Among(q, E) /\ Window(r) = Among(r, E)
    BY GroupsAre
  <2>3. CASE seg.family = "purchase_count_min"
    <3>1. /\ Having(q, OfProfile(q, p), seg, asOf) <=> Cardinality(Window(q)) >= seg.MinCount
          /\ Having(r, OfProfile(r, p), seg, asOf) <=> Cardinality(Window(r)) >= seg.MinCount
      BY <2>3 DEF Having
    <3>2. Cardinality(Window(q)) = Cardinality(Window(r))
      <4> HIDE DEF E
      <4> QED
        BY <2>1, <2>2 DEF SameEvents, Number
    <3> HIDE DEF Window
    <3> QED
      BY <3>1, <3>2
  <2>4. CASE seg.family = "purchase_value_min"
    <3>1. /\ Having(q, OfProfile(q, p), seg, asOf) <=>
               Window(q) # {} /\ SumOfPrices(q, Window(q)) >= seg.MinValue
          /\ Having(r, OfProfile(r, p), seg, asOf) <=>
               Window(r) # {} /\ SumOfPrices(r, Window(r)) >= seg.MinValue
      BY <2>4 DEF Having
    <3> HIDE DEF Window, E
    <3>2. Window(q) = {} <=> Window(r) = {}
      BY <2>1, <2>2, SameFound
    <3>3. Unrepeated(q, Among(q, E))
      BY <1>2, <2>1, <2>4 DEF Unrepeated, Among
    <3>4. SumOfPrices(q, Among(q, E)) = SumOfPrices(r, Among(r, E))
      BY <2>1, <3>3, SameSum
    <3> QED
      BY <2>2, <3>1, <3>2, <3>4
  <2> QED
    BY <1>4, <2>3, <2>4
<1>5. CASE seg.family = "cart_abandon_days"
  <2> DEFINE Carts(t) == Latest(t, OfType(t, OfProfile(t, p), "add_to_cart"))
             Bought(t) == Latest(t, OfType(t, OfProfile(t, p), "purchase"))
  <2>1. /\ Having(q, OfProfile(q, p), seg, asOf) <=>
             Carts(q) > Bought(q) /\ DaysPassed(Carts(q), asOf, seg.MinDays)
        /\ Having(r, OfProfile(r, p), seg, asOf) <=>
             Carts(r) > Bought(r) /\ DaysPassed(Carts(r), asOf, seg.MinDays)
    BY <1>5 DEF Having
  <2>2. \A type : typed(type) \in SUBSET Events
    BY <1>1
  <2> HIDE DEF typed
  <2>3. \A type : Latest(q, Among(q, typed(type))) = Latest(r, Among(r, typed(type)))
    BY <2>2, SameLatest
  <2>4. Carts(q) = Carts(r) /\ Bought(q) = Bought(r)
    BY <1>3, <2>3
  <2> HIDE DEF Carts, Bought
  <2> QED
    BY <2>1, <2>4
<1>6. CASE seg.family = "category_view_min"
  <2> PICK c : c = seg.Category
    OBVIOUS
  <2> DEFINE E == {e \in typed("page_view") : e.category = c}
             Views(t) == {n \in OfType(t, OfProfile(t, p), "page_view") : t[n].category = c}
  <2>1. /\ Having(q, OfProfile(q, p), seg, asOf) <=> Cardinality(Views(q)) >= seg.MinCount
        /\ Having(r, OfProfile(r, p), seg, asOf) <=> Cardinality(Views(r)) >= seg.MinCount
    BY <1>6 DEF Having
  <2>2. ASSUME NEW t \in Seq(Events) PROVE Views(t) = Among(t, E)
    <3>1. Views(t) = {n \in Among(t, typed("page_view")) : t[n].category = c}
      BY <1>3
    <3> QED
      BY <3>1 DEF Among
  <2>3. E \in SUBSET Events
    BY <1>1
  <2> HIDE DEF E, Views
  <2>4. Cardinality(Views(q)) = Cardinality(Views(r))
    BY <2>2, <2>3 DEF SameEvents, Number
  <2> QED
    BY <2>1, <2>4
<1>7. CASE seg.family = "recently_active_hours"
  <2> PICK from : from = asOf - seg.MinHours * Hour
    OBVIOUS
  <2> DEFINE E == {e \in mine : e.ts >= from}
  <2>1. /\ Having(q, OfProfile(q, p), seg, asOf) <=> Since(q, OfProfile(q, p), from) # {}
        /\ Having(r, OfProfile(r, p), seg, asOf) <=> Since(r, OfProfile(r, p), from) # {}
    BY <1>7 DEF Having
  <2>2. Since(q, OfProfile(q, p), from) = Among(q, E) /\ Since(r, OfProfile(r, p), from) = Among(r, E)
    BY GroupsAre
  <2>3. E \in SUBSET Events
    BY <1>1
  <2> HIDE DEF E
  <2>4. Among(q, E) = {} <=> Among(r, E) = {}
    BY <2>3, SameFound
  <2> QED
    BY <2>1, <2>2, <2>4
<1>8. CASE seg.family \in {"never_purchased", "churn_risk_days"}
  <2> DEFINE Bought(t) == OfType(t, OfProfile(t, p), "purchase")
  <2>1. OfProfile(q, p) = {} <=> OfProfile(r, p) = {}
    <3> HIDE DEF mine
    <3> QED
      BY <1>1, <1>2, SameFound
  <2>2. Bought(q) = {} <=> Bought(r) = {}
    <3>1. typed("purchase") \in SUBSET Events
      BY <1>1
    <3> HIDE DEF typed
    <3> QED
      BY <1>3, <3>1, SameFound
  <2>3. Latest(q, OfProfile(q, p)) = Latest(r, OfProfile(r, p))
    <3> HIDE DEF mine
    <3> QED
      BY <1>1, <1>2, SameLatest
  <2>4. CASE seg.family = "never_purchased"
    <3>1. /\ Having(q, OfProfile(q, p), seg, asOf) <=> OfProfile(q, p) # {} /\ Bought(q) = {}
          /\ Having(r, OfProfile(r, p), seg, asOf) <=> OfProfile(r, p) # {} /\ Bought(r) = {}
      BY <2>4 DEF Having
    <3> HIDE DEF Bought
    <3> QED
      BY <2>1, <2>2, <3>1
  <2>5. CASE seg.family = "churn_risk_days"
    <3>1. /\ Having(q, OfProfile(q, p), seg, asOf) <=>
               Bought(q) # {} /\ DaysPassed(Latest(q, OfProfile(q, p)), asOf, seg.MinDays)
          /\ Having(r, OfProfile(r, p), seg, asOf) <=>
               Bought(r) # {} /\ DaysPassed(Latest(r, OfProfile(r, p)), asOf, seg.MinDays)
      BY <2>5 DEF Having
    <3> HIDE DEF Bought
    <3> QED
      BY <2>2, <2>3, <3>1
  <2> QED
    BY <1>8, <2>4, <2>5
<1>9. CASE seg.family = "multi_category_shopper_min"
  <2> DEFINE E == typed("page_view")
             Seen(t) == {t[n].category : n \in OfType(t, OfProfile(t, p), "page_view")}
  <2>1. /\ Having(q, OfProfile(q, p), seg, asOf) <=> Cardinality(Seen(q)) >= seg.MinDistinct
        /\ Having(r, OfProfile(r, p), seg, asOf) <=> Cardinality(Seen(r)) >= seg.MinDistinct
    BY <1>9 DEF Having
  <2>2. E \in SUBSET Events
    BY <1>1
  <2>3. Seen(q) = Seen(r)
    <3>1. {q[n].category : n \in Among(q, E)} = {r[n].category : n \in Among(r, E)}
      <4> HIDE DEF E
      <4> QED
        BY <2>2, SameCategories
    <3> QED
      BY <1>3, <3>1
  <2> HIDE DEF Seen
  <2> QED
    BY <2>1, <2>3
<1> QED
  BY <1>4, <1>5, <1>6, <1>7, <1>8, <1>9 DEF Parameters

-----------------------------------------------------------------------------
(* What Redis keeps of a profile is what a query would find of its rows.   *)

LEMMA LastIsLatest ==
  ASSUME NEW q, NEW S \in SUBSET Nat, \A n \in S : q[n] \in Events, Chronological(q, S),
         NEW t, IsLastTime(q, S, t)
  PROVE  Latest(q, S) = t
<1> DEFINE ts == {q[n].ts : n \in S}
<1>1. CASE S = {}
  BY <1>1 DEF Latest, IsLastTime
<1>2. CASE S # {}
  <2>1. PICK n \in S : t = q[n].ts /\ \A m \in S : m <= n
    BY <1>2 DEF IsLastTime
  <2>2. \A m \in S : q[m].ts \in Nat
    BY BenchAssumption
  <2>3. \A m \in S : q[m].ts <= t
    <3> SUFFICES ASSUME NEW m \in S PROVE q[m].ts <= t
      OBVIOUS
    <3>1. m = n \/ m < n
      BY <2>1
    <3> QED
      BY <2>1, <2>2, <3>1 DEF Chronological
  <2>4. t \in ts /\ t \in Nat /\ \A y \in ts : y \in Nat /\ t >= y
    BY <2>1, <2>2, <2>3
  <2>5. Latest(q, S) = Max(ts)
    BY <2>4 DEF Latest
  <2> HIDE DEF ts
  <2>6. Max(ts) \in ts /\ \A y \in ts : Max(ts) >= y
    BY <2>4 DEF Max
  <2> PICK x : x = Max(ts)
    OBVIOUS
  <2>7. x \in Nat /\ x >= t /\ t >= x
    BY <2>4, <2>6
  <2> QED
    BY <2>4, <2>5, <2>7
<1> QED
  BY <1>1, <1>2

LEMMA LastFacts ==
  ASSUME NEW q, NEW S, \A n \in S : q[n] \in Events, NEW t, IsLastTime(q, S, t)
  PROVE  /\ t \in Nat
         /\ t > 0 <=> S # {}
         /\ S # {} => \E n \in S : t = q[n].ts
<1>1. \A n \in S : q[n].ts \in Nat \ {0}
  BY BenchAssumption
<1>2. CASE S = {}
  BY <1>2 DEF IsLastTime
<1>3. CASE S # {}
  <2>1. PICK n \in S : t = q[n].ts
    BY <1>3 DEF IsLastTime
  <2> QED
    BY <1>1, <1>3, <2>1
<1> QED
  BY <1>2, <1>3

\* Nothing in a window has been trimmed, whatever the order of the purchases.
LEMMA KeptInWindow ==
  ASSUME NEW q, NEW bought, \A n \in bought : q[n].ts \in Int /\ Whole(q[n].ts),
         \A m, n \in bought : q[n].ts - q[m].ts # RetentionDays * Day,
         NEW now \in Int, \A n \in bought : q[n].ts <= now,
         NEW days \in 1 .. RetentionDays,
         NEW n \in bought, q[n].ts >= now - days * Day, NEW k \in bought
  PROVE  ~Trims(q, k, n)
<1> PICK a \in Int : a = q[n].ts /\ Whole(a)
  OBVIOUS
<1> PICK b \in Int : b = q[k].ts /\ Whole(b)
  OBVIOUS
<1> PICK r : r = RetentionDays * Day
  OBVIOUS
<1>1. RetentionDays \in Nat /\ Day \in Nat \ {0} /\ days \in Nat /\ days <= RetentionDays
  BY SegmentsAssumption
<1>2. r \in Int /\ Whole(r)
  BY <1>1, DaysIs
<1>3. days * Day <= r /\ days * Day \in Int
  BY <1>1, TimesOrdered
<1>4. b - r \in Int /\ Whole(b - r)
  BY <1>2, WholeMinus
<1>5. Sec(a) \in Int /\ Sec(b - r) \in Int /\ (Sec(a) <= Sec(b - r) <=> a <= b - r)
  BY <1>4, WholeIs, SecOrder
<1>6. b - a # r
  OBVIOUS
<1>7. ~(a <= b - r)
  <2>1. b <= now /\ a >= now - days * Day
    OBVIOUS
  <2> QED
    BY <1>2, <1>3, <1>6, <2>1
<1> QED
  BY <1>5, <1>7 DEF Trims

LEMMA WindowIs ==
  ASSUME NEW s, NEW q, NEW bought, HoldsPurchases(s.purch, q, bought),
         \A n \in bought : q[n] \in Events, \A n \in bought : Whole(q[n].ts),
         \A m, n \in bought : q[n].ts - q[m].ts # RetentionDays * Day,
         Unrepeated(q, bought),
         NEW now \in Int, Whole(now), \A n \in bought : q[n].ts <= now,
         NEW seg, seg.WindowDays \in 1 .. RetentionDays
  PROVE  \E f \in Bijection(Since(q, bought, now - seg.WindowDays * Day), InWindow(s, seg, now)) :
            \A n \in Since(q, bought, now - seg.WindowDays * Day) : f[n].price = q[n].price
<1> PICK days \in 1 .. RetentionDays : days = seg.WindowDays
  OBVIOUS
<1> PICK from : from = now - days * Day
  OBVIOUS
<1> DEFINE S == Since(q, bought, from)
           T == InWindow(s, seg, now)
           f == [n \in S |-> Member(q[n])]
<1>1. RetentionDays \in Nat /\ days \in Int
  BY SegmentsAssumption
<1>2. from \in Int /\ Whole(from)
  <2>1. days * Day \in Int /\ Whole(days * Day)
    BY <1>1, DaysIs
  <2> QED
    BY <2>1, WholeMinus
<1>3. \A n \in bought : q[n].ts \in Int
  BY BenchAssumption
<1>4. \A n \in bought : /\ Sec(from) <= Sec(q[n].ts) <=> from <= q[n].ts
                        /\ Sec(q[n].ts) <= Sec(now)
  BY <1>2, <1>3, SecOrder
<1>5. \A n \in S : n \in bought /\ q[n].ts >= from /\ from <= q[n].ts
  BY <1>2, <1>3 DEF Since
<1>6. \A e : Member(e).price = e.price /\ Member(e).id = e.id /\ Member(e).score = Sec(e.ts)
  BY DEF Member
<1>7. T = {m \in s.purch : Sec(from) <= m.score /\ m.score <= Sec(now)}
  BY DEF InWindow
<1>8. \A n \in S : Member(q[n]) \in T
  <2> SUFFICES ASSUME NEW n \in S PROVE Member(q[n]) \in T
    OBVIOUS
  <2>1. n \in bought /\ q[n].ts >= now - days * Day
    BY <1>5
  <2>2. \A k \in bought : ~Trims(q, k, n)
    BY <1>3, <2>1, KeptInWindow
  <2>3. Member(q[n]) \in s.purch
    BY <2>1, <2>2 DEF HoldsPurchases
  <2> HIDE DEF T
  <2> QED
    BY <1>4, <1>5, <1>6, <1>7, <2>3
<1>9. \A m \in T : \E n \in S : Member(q[n]) = m
  <2> SUFFICES ASSUME NEW m \in T PROVE \E n \in S : Member(q[n]) = m
    OBVIOUS
  <2>1. m \in s.purch /\ Sec(from) <= m.score
    BY <1>7
  <2>2. PICK n \in bought : m = Member(q[n])
    BY <2>1 DEF HoldsPurchases
  <2>3. from <= q[n].ts
    BY <1>4, <1>6, <2>1, <2>2
  <2>4. n \in S
    BY <1>2, <1>3, <2>3 DEF Since
  <2> QED
    BY <2>2, <2>4
<1>10. \A n, k \in S : Member(q[n]) = Member(q[k]) => n = k
  <2> SUFFICES ASSUME NEW n \in S, NEW k \in S, Member(q[n]) = Member(q[k]) PROVE n = k
    OBVIOUS
  <2>1. q[n].id = q[k].id
    BY <1>6
  <2>2. q[n] = q[k]
    BY <1>5, <2>1, BenchAssumption
  <2> QED
    BY <1>5, <2>2 DEF Unrepeated
<1> HIDE DEF S, T
<1>11. f \in [S -> T]
  BY <1>8
<1>12. f \in Injection(S, T)
  BY <1>10, <1>11, Zenon DEF Injection, IsInjective
<1>13. f \in Surjection(S, T)
  BY <1>9, <1>11 DEF Surjection
<1>14. f \in Bijection(S, T)
  BY <1>12, <1>13 DEF Bijection
<1>15. \A n \in S : f[n].price = q[n].price
  BY <1>6
<1> HIDE DEF f
<1> QED
  BY <1>14, <1>15 DEF S, T

\* What the families with a time in them need of the messages of a profile.
Groupable(q, group, now) ==
  /\ group \in SUBSET Nat /\ IsFiniteSet(group)
  /\ \A n \in group : q[n] \in Events /\ q[n].ts <= now
  /\ now \in Int

LEMMA SumsAreOne ==
  ASSUME NEW q, NEW S, IsFiniteSet(S), \A n \in S : q[n].price \in Int,
         NEW T, IsFiniteSet(T), NEW f \in Bijection(S, T), \A n \in S : f[n].price = q[n].price
  PROVE  /\ SumOfPrices(q, S) = MapThenSumSet(LAMBDA m : m.price, T)
         /\ S = {} => SumOfPrices(q, S) = 0
<1> PICK sum : sum = MapThenSumSet(LAMBDA m : m.price, T)
  OBVIOUS
<1>1. PICK g : Sums(q, S, g) /\ SumOfPrices(q, S) = g[S]
  BY SumOfPricesIs
<1>2. \E u, h : Sums(u, T, h) /\ sum = h[T] /\ \A m \in T : u[m] = m
  <2>1. PICK h : Sums([m \in T |-> m], T, h) /\ sum = h[T]
    BY SumOfMembersIs
  <2> PICK u : u = [m \in T |-> m]
    OBVIOUS
  <2>2. Sums(u, T, h) /\ sum = h[T]
    BY <2>1
  <2>3. \A m \in T : u[m] = m
    OBVIOUS
  <2> QED
    BY <2>2, <2>3, Zenon
<1>3. PICK u, h : Sums(u, T, h) /\ sum = h[T] /\ \A m \in T : u[m] = m
  BY <1>2
<1>4. \A n \in S : f[n] \in T
  BY DEF Bijection, Injection
<1>5. \A n \in S : u[f[n]].price = q[n].price
  BY <1>3, <1>4
<1>6. g[S] = h[T]
  BY <1>1, <1>3, <1>5, SumsThrough
<1>7. S = {} => g[S] = 0
  BY <1>1, SumsAt
<1> QED
  BY <1>1, <1>3, <1>6, <1>7

LEMMA PurchasesAgree ==
  ASSUME NEW s, NEW q, NEW group, Groupable(q, group, SimNow), Counts(s, q, group), History(s, q, group),
         NEW id \in IDs, Segments[id].family \in {"purchase_count_min", "purchase_value_min"},
         Comparable(Segments[id].family, q, group)
  PROVE  id \in EvaluateProfile(s, SimNow) <=> Having(q, group, Segments[id], SimNow)
<1> PICK now : now = SimNow
  OBVIOUS
<1> PICK seg : seg = Segments[id]
  OBVIOUS
<1> PICK bought : bought = OfType(q, group, "purchase")
  OBVIOUS
<1> DEFINE S == Since(q, bought, now - seg.WindowDays * Day)
           T == InWindow(s, seg, now)
<1>1. /\ bought \in SUBSET group /\ group \in SUBSET Nat /\ IsFiniteSet(group) /\ now \in Int
      /\ \A n \in group : q[n] \in Events /\ q[n].ts <= now
  BY DEF OfType, Groupable
<1>2. Unrepeated(q, group) /\ OnSeconds(q, group) /\ NoneAtRetention(q, group)
  BY DEF Comparable
<1>3. Unrepeated(q, bought)
  BY <1>1, <1>2 DEF Unrepeated
<1>4. Whole(now) /\ \A n \in bought : Whole(q[n].ts)
  BY <1>1, <1>2 DEF OnSeconds, Whole
<1>5. \A m, n \in bought : q[n].ts - q[m].ts # RetentionDays * Day
  BY <1>2 DEF NoneAtRetention
<1>6. Parameters(seg)
  BY SegmentsAssumption DEF IDs
<1>7. seg.WindowDays \in 1 .. RetentionDays
  BY <1>6 DEF Parameters
<1>8. HoldsPurchases(s.purch, q, bought)
  BY DEF History
<1>9. PICK f \in Bijection(S, T) : \A n \in S : f[n].price = q[n].price
  <2>1. \A n \in bought : q[n] \in Events
    BY <1>1
  <2>2. \A n \in bought : q[n].ts <= now
    BY <1>1
  <2>3. \A n \in bought : Whole(q[n].ts)
    BY <1>4
  <2>4. now \in Int /\ Whole(now)
    BY <1>1, <1>4
  <2> QED
    BY <1>3, <1>5, <1>7, <1>8, <2>1, <2>2, <2>3, <2>4, WindowIs
<1>10. S \in SUBSET group /\ IsFiniteSet(S) /\ \A n \in S : q[n].price \in Int
  <2>1. S \in SUBSET group
    BY <1>1 DEF Since
  <2> HIDE DEF S
  <2> QED
    BY <1>1, <2>1, FS_Subset, BenchAssumption
<1> HIDE DEF S, T
<1>11. IsFiniteSet(T) /\ Cardinality(T) = Cardinality(S)
  <2>1. ExistsBijection(S, T)
    BY <1>9 DEF ExistsBijection
  <2> QED
    BY <1>10, <2>1, FS_Bijection
<1>12. s.total = Cardinality(group) /\ (s.total = 0 <=> group = {})
  BY <1>1, FS_EmptySet DEF Counts
<1>13. id \in EvaluateProfile(s, now) <=> group # {} /\ Matches(s, seg, now)
  BY <1>12 DEF EvaluateProfile
<1>14. CASE seg.family = "purchase_count_min"
  <2>1. Matches(s, seg, now) <=> Cardinality(T) >= seg.MinCount
    BY <1>14 DEF Matches, T
  <2>2. Having(q, group, seg, now) <=> Cardinality(S) >= seg.MinCount
    BY <1>14 DEF Having, S
  <2>3. seg.MinCount \in Nat \ {0}
    BY <1>6, <1>14 DEF Parameters
  <2>4. group = {} => Cardinality(S) = 0
    BY <1>10, FS_EmptySet
  <2> QED
    BY <1>11, <1>13, <2>1, <2>2, <2>3, <2>4
<1>15. CASE seg.family = "purchase_value_min"
  <2> PICK sum : sum = MapThenSumSet(LAMBDA m : m.price, T)
    OBVIOUS
  <2>1. Matches(s, seg, now) <=> sum >= seg.MinValue
    BY <1>15 DEF Matches, T
  <2>2. Having(q, group, seg, now) <=> S # {} /\ SumOfPrices(q, S) >= seg.MinValue
    BY <1>15 DEF Having, S
  <2>3. seg.MinValue \in Nat \ {0}
    BY <1>6, <1>15 DEF Parameters
  <2>4. SumOfPrices(q, S) = sum /\ (S = {} => sum = 0)
    BY <1>9, <1>10, <1>11, SumsAreOne
  <2>5. S # {} => group # {}
    BY <1>10
  <2> QED
    BY <1>13, <2>1, <2>2, <2>3, <2>4, <2>5
<1> QED
  BY <1>14, <1>15

LEMMA CartsAgree ==
  ASSUME NEW s, NEW q, NEW group, Groupable(q, group, SimNow), Counts(s, q, group), History(s, q, group),
         NEW id \in IDs, Segments[id].family = "cart_abandon_days",
         Comparable(Segments[id].family, q, group)
  PROVE  id \in EvaluateProfile(s, SimNow) <=> Having(q, group, Segments[id], SimNow)
<1> PICK now : now = SimNow
  OBVIOUS
<1> PICK seg : seg = Segments[id]
  OBVIOUS
<1> PICK bought : bought = OfType(q, group, "purchase")
  OBVIOUS
<1> PICK carts : carts = OfType(q, group, "add_to_cart")
  OBVIOUS
<1>1. /\ bought \in SUBSET group /\ carts \in SUBSET group
      /\ group \in SUBSET Nat /\ IsFiniteSet(group) /\ now \in Int
      /\ \A n \in group : q[n] \in Events /\ q[n].ts <= now
  BY DEF OfType, Groupable
<1>2. Chronological(q, group) /\ OnSeconds(q, group)
  BY DEF Comparable
<1>3. Chronological(q, bought) /\ Chronological(q, carts)
  BY <1>1, <1>2 DEF Chronological
<1>4. Whole(now) /\ \A n \in carts : Whole(q[n].ts)
  BY <1>1, <1>2 DEF OnSeconds, Whole
<1>5. IsLastTime(q, carts, s.lastCart) /\ IsLastTime(q, bought, s.lastPurchase)
  BY DEF History
<1>6. Latest(q, carts) = s.lastCart
  BY <1>1, <1>3, <1>5, LastIsLatest
<1>7. Latest(q, bought) = s.lastPurchase
  BY <1>1, <1>3, <1>5, LastIsLatest
<1>8. /\ s.lastCart \in Nat
      /\ s.lastCart > 0 <=> carts # {}
      /\ carts # {} => \E n \in carts : s.lastCart = q[n].ts
  <2>1. (\A n \in carts : q[n] \in Events) /\ IsLastTime(q, carts, s.lastCart)
    BY <1>1, <1>5
  <2> QED
    BY <2>1, LastFacts
<1>9. s.lastPurchase \in Nat
  BY <1>1, <1>5, LastFacts
<1>10. seg.MinDays \in Nat
  BY SegmentsAssumption DEF IDs, Parameters
<1>11. s.lastCart > 0 =>
         (DaysPassed(s.lastCart, now, seg.MinDays) <=> now - s.lastCart >= seg.MinDays * Day)
  BY <1>1, <1>4, <1>8, <1>10, DaysPassedIs
<1>12. s.total = Cardinality(group) /\ (s.total = 0 <=> group = {})
  BY <1>1, FS_EmptySet DEF Counts
<1>13. id \in EvaluateProfile(s, now) <=> group # {} /\ Matches(s, seg, now)
  BY <1>12 DEF EvaluateProfile
<1>14. Matches(s, seg, now) <=> /\ s.lastCart > 0 /\ s.lastCart > s.lastPurchase
                                /\ now - s.lastCart >= seg.MinDays * Day
  BY DEF Matches, CartLeftBehind
<1>15. Having(q, group, seg, now) <=> /\ s.lastCart > s.lastPurchase
                                      /\ DaysPassed(s.lastCart, now, seg.MinDays)
  BY <1>6, <1>7 DEF Having
<1>16. s.lastCart > s.lastPurchase => s.lastCart > 0
  BY <1>8, <1>9
<1>17. s.lastCart > 0 => group # {}
  BY <1>1, <1>8
<1> QED
  BY <1>11, <1>13, <1>14, <1>15, <1>16, <1>17

LEMMA ActivityAgrees ==
  ASSUME NEW s, NEW q, NEW group, Groupable(q, group, SimNow), Counts(s, q, group), History(s, q, group),
         NEW id \in IDs, Segments[id].family \in {"recently_active_hours", "churn_risk_days"},
         Comparable(Segments[id].family, q, group)
  PROVE  id \in EvaluateProfile(s, SimNow) <=> Having(q, group, Segments[id], SimNow)
<1> PICK now : now = SimNow
  OBVIOUS
<1> PICK seg : seg = Segments[id]
  OBVIOUS
<1> PICK bought : bought = OfType(q, group, "purchase")
  OBVIOUS
<1>1. /\ bought \in SUBSET group /\ group \in SUBSET Nat /\ IsFiniteSet(group) /\ now \in Int
      /\ \A n \in group : q[n] \in Events /\ q[n].ts <= now
  BY DEF OfType, Groupable
<1>2. Chronological(q, group)
  BY DEF Comparable
<1>3. IsLastTime(q, group, s.last)
  BY DEF History
<1>4. Latest(q, group) = s.last
  BY <1>1, <1>2, <1>3, LastIsLatest
<1>5. /\ s.last \in Nat
      /\ s.last > 0 <=> group # {}
      /\ group # {} => \E n \in group : s.last = q[n].ts
  <2>1. (\A n \in group : q[n] \in Events) /\ IsLastTime(q, group, s.last)
    BY <1>1, <1>3
  <2> QED
    BY <2>1, LastFacts
<1>6. s.total = Cardinality(group) /\ (s.total = 0 <=> group = {})
  BY <1>1, FS_EmptySet DEF Counts
<1>7. id \in EvaluateProfile(s, now) <=> group # {} /\ Matches(s, seg, now)
  BY <1>6 DEF EvaluateProfile
<1>8. CASE seg.family = "recently_active_hours"
  <2> PICK span : span = seg.MinHours * Hour
    OBVIOUS
  <2>1. span \in Int
    BY <1>8, SegmentsAssumption DEF IDs, Parameters
  <2>2. Matches(s, seg, now) <=> s.last > 0 /\ now - s.last <= span
    BY <1>8 DEF Matches
  <2>3. Having(q, group, seg, now) <=> Since(q, group, now - span) # {}
    BY <1>8 DEF Having
  <2>4. \A n \in group : q[n].ts \in Int /\ q[n].ts <= s.last
    <3>1. \A n \in group : q[n].ts \in Int
      BY <1>1, BenchAssumption
    <3> QED
      BY <1>1, <1>4, <3>1, LatestBounds
  <2>5. Since(q, group, now - span) # {} <=> group # {} /\ now - s.last <= span
    <3>1. ASSUME NEW n \in Since(q, group, now - span) PROVE group # {} /\ now - s.last <= span
      <4>1. n \in group /\ q[n].ts >= now - span
        BY <3>1 DEF Since
      <4> QED
        BY <1>1, <1>5, <2>1, <2>4, <4>1
    <3>2. ASSUME group # {}, now - s.last <= span PROVE Since(q, group, now - span) # {}
      <4>1. PICK n \in group : s.last = q[n].ts
        BY <1>5, <3>2
      <4>2. q[n].ts >= now - span
        BY <1>1, <1>5, <2>1, <3>2, <4>1
      <4> QED
        BY <4>2 DEF Since
    <3> QED
      BY <3>1, <3>2
  <2> QED
    BY <1>5, <1>7, <2>2, <2>3, <2>5
<1>9. CASE seg.family = "churn_risk_days"
  <2>1. OnSeconds(q, group)
    BY <1>9 DEF Comparable
  <2>2. Whole(now) /\ \A n \in group : Whole(q[n].ts)
    BY <2>1 DEF OnSeconds, Whole
  <2>3. seg.MinDays \in Nat
    BY <1>9, SegmentsAssumption DEF IDs, Parameters
  <2>4. group # {} =>
          (DaysPassed(s.last, now, seg.MinDays) <=> now - s.last >= seg.MinDays * Day)
    BY <1>1, <1>5, <2>2, <2>3, DaysPassedIs
  <2>5. s.purchases > 0 <=> bought # {}
    <3>1. IsFiniteSet(bought)
      BY <1>1, FS_Subset
    <3>2. s.purchases = Cardinality(bought)
      BY DEF Counts
    <3> QED
      BY <3>1, <3>2, FS_EmptySet, FS_CardinalityType
  <2>6. Matches(s, seg, now) <=> s.purchases > 0 /\ s.last > 0 /\ now - s.last >= seg.MinDays * Day
    BY <1>9 DEF Matches
  <2>7. Having(q, group, seg, now) <=> bought # {} /\ DaysPassed(s.last, now, seg.MinDays)
    BY <1>4, <1>9 DEF Having
  <2> QED
    BY <1>1, <1>5, <1>7, <2>4, <2>5, <2>6, <2>7
<1> QED
  BY <1>8, <1>9

LEMMA TimedAgree ==
  ASSUME NEW s, NEW q, NEW group, Groupable(q, group, SimNow), Counts(s, q, group), History(s, q, group),
         NEW id \in IDs \ UntimedIDs, Comparable(Segments[id].family, q, group)
  PROVE  id \in EvaluateProfile(s, SimNow) <=> Having(q, group, Segments[id], SimNow)
<1>1. /\ id \in IDs
      /\ Segments[id].family \in {"purchase_count_min", "purchase_value_min", "cart_abandon_days",
                                  "recently_active_hours", "churn_risk_days"}
  BY SegmentsAssumption DEF UntimedIDs, Untimed, IDs, Parameters
<1> QED
  BY <1>1, PurchasesAgree, CartsAgree, ActivityAgrees

-----------------------------------------------------------------------------
(* The comparison, for every family.                                       *)

HistoryInv ==
  spent["redis"] = 0 => \A p \in Profiles : History(stats[p], topic, AppliedOf(p))

LEMMA HistoryKeeps ==
  ASSUME TypeInv, HandInv, HistoryInv, [Next]_vars
  PROVE  HistoryInv'
<1> SUFFICES ASSUME spent'["redis"] = 0, NEW p \in Profiles
             PROVE  History(stats[p], topic, AppliedOf(p))'
  BY DEF HistoryInv
<1> PICK group : group = AppliedOf(p)
  OBVIOUS
<1>1. History(stats[p], topic, group) /\ StatsOK(stats[p])
  BY RedisWorks DEF HistoryInv, TypeInv, RedisInv
<1>2. group \in SUBSET Nat /\ \A n \in group : topic'[n] = topic[n]
  BY AppliedMoves
<1>3. History(stats[p], topic', group)
  BY <1>1, <1>2, HistoryOfSame
<1>4. CASE stats'[p] = stats[p] /\ AppliedOf(p)' = group
  BY <1>3, <1>4
<1>5. CASE /\ stats'[p] = Applied(stats[p], Event) /\ AppliedOf(p)' = group \cup {taken}
           /\ taken \in Nat /\ \A n \in group : n < taken
           /\ Event \in Events /\ topic'[taken] = Event
  <2>1. History(Applied(stats[p], Event), topic', group \cup {taken})
    BY <1>1, <1>2, <1>3, <1>5, AppliedHistory
  <2> QED
    BY <1>5, <2>1
<1> QED
  BY <1>4, <1>5, AppliedMoves

\* The recompute of a fair comparison, over the topic instead of the table.
LEMMA ComparedHaving ==
  ASSUME TypeInv, SettledInv, HandInv, IdleInv, StoredInv, FairCompare,
         NEW p \in Profiles, NEW s \in IDs,
         Comparable(Segments[s].family, topic, OfProfile(topic, p))
  PROVE  /\ AppliedOf(p) = OfProfile(topic, p)
         /\ Groupable(topic, OfProfile(topic, p), SimNow)
         /\ p \in Recompute(rows, Segments[s], SimNow) <=>
              Having(topic, OfProfile(topic, p), Segments[s], SimNow)
<1> PICK seg : seg = Segments[s]
  OBVIOUS
<1> PICK now : now = SimNow
  OBVIOUS
<1>1. SameEvents(topic, rows) /\ AppliedTo = Len(topic)
  BY ComparedRows
<1>2. topic \in Seq(Events) /\ rows \in Seq(Events) /\ Len(topic) \in Nat /\ DOMAIN topic = 1 .. Len(topic)
  BY DEF TypeInv, FeedInv, StoreInv
<1>3. AppliedOf(p) = OfProfile(topic, p)
  BY <1>1, <1>2 DEF AppliedOf, OfProfile
<1>4. now \in Int /\ \A n \in DOMAIN topic : topic[n].ts <= now
  BY <1>2, SentBySimNow
<1>5. Groupable(topic, OfProfile(topic, p), now)
  <2>1. OfProfile(topic, p) \in SUBSET (1 .. Len(topic)) /\ IsFiniteSet(1 .. Len(topic))
    BY <1>2, FS_Interval DEF OfProfile
  <2>2. IsFiniteSet(OfProfile(topic, p))
    BY <2>1, FS_Subset
  <2>3. \A n \in OfProfile(topic, p) : n \in Nat /\ topic[n] \in Events /\ topic[n].ts <= now
    BY <1>2, <1>4, <2>1
  <2> QED
    BY <1>4, <2>2, <2>3 DEF Groupable
<1>6. UpTo(rows, OfProfile(rows, p), now) = OfProfile(rows, p)
  <2>1. OfProfile(rows, p) = Among(rows, EventsOf(p)) /\ EventsOf(p) \in SUBSET Events
    BY <1>2, GroupsAre DEF EventsOf
  <2>2. SameEvents(rows, topic)
    BY <1>1, SameBackwards
  <2>3. ASSUME NEW n \in OfProfile(rows, p) PROVE rows[n].ts <= now
    <3>1. \E k \in Among(topic, EventsOf(p)) : topic[k] = rows[n]
      BY <1>2, <2>1, <2>2, <2>3, SameValues
    <3> QED
      BY <1>4, <3>1 DEF Among
  <2> QED
    BY <2>3 DEF UpTo
<1>7. Parameters(seg)
  BY SegmentsAssumption DEF IDs
<1>8. seg.family = "purchase_value_min" => Unrepeated(topic, OfProfile(topic, p))
  BY DEF Comparable
<1>9. Having(topic, OfProfile(topic, p), seg, now) <=> Having(rows, OfProfile(rows, p), seg, now)
  BY <1>1, <1>2, <1>7, <1>8, SameHaving
<1>10. p \in Recompute(rows, seg, now) <=> Having(rows, OfProfile(rows, p), seg, now)
  BY <1>6 DEF Recompute
<1> QED
  BY <1>3, <1>5, <1>9, <1>10

\* "Recompute ... used only to check this one is right": for any stream, corpus,
\* segments and failures of the feed, a fair comparison finds in the segment's
\* set the profiles that the recompute over the table finds, for each family
\* under what it needs of the stream (ApplyEvent, Finalize, Recompute, DiffSets).
THEOREM AgreesWithRecomputeHolds == Spec => AgreesWithRecompute
<1> DEFINE Inv == EngineInv /\ HistoryInv /\ IdleInv /\ StoredInv
           Agreed == \A s \in IDs, p \in Profiles :
                       Comparable(Segments[s].family, topic, OfProfile(topic, p)) =>
                         (p \in members[s] <=> p \in Recompute(rows, Segments[s], SimNow))
<1>1. Init => Inv
  <2> SUFFICES ASSUME Init PROVE HistoryInv /\ IdleInv /\ StoredInv
    BY InitEngine
  <2>1. HistoryInv
    <3>1. AppliedTo = 0
      BY DEF Init, AppliedTo
    <3>2. \A p \in Profiles : AppliedOf(p) = {} /\ stats[p] = NoStats
      BY <3>1 DEF Init, AppliedOf
    <3> QED
      BY <3>2, NoHistory DEF HistoryInv
  <2>2. IdleInv
    BY DEF Init, IdleInv, Goroutines
  <2>3. StoredInv
    <3> SUFFICES ASSUME NEW E \in SUBSET Events PROVE Cardinality(TakenOf(E)) = Stored(E)
      BY DEF StoredInv
    <3>1. TakenOf(E) = {}
      BY DEF Init, TakenOf
    <3>2. rows = << >> /\ chBatch = << >> /\ inserting["consumer"] = << >> /\ inserting["main"] = << >>
      BY DEF Init, Goroutines
    <3>3. Stored(E) = 0 + 0 + 0 + 0
      BY <3>2, NumberOfNone DEF Stored
    <3> QED
      BY <3>1, <3>3, FS_EmptySet
  <2> QED
    BY <2>1, <2>2, <2>3
<1>2. Inv /\ [Next]_vars => Inv'
  <2> SUFFICES ASSUME Inv, [Next]_vars PROVE HistoryInv' /\ IdleInv' /\ StoredInv'
    BY EngineKeeps
  <2> USE DEF EngineInv
  <2>1. HistoryInv'
    BY HistoryKeeps
  <2>2. IdleInv' /\ StoredInv'
    BY IdleKeeps, StoredKeeps
  <2> QED
    BY <2>1, <2>2
<1>3. Inv => [FairCompare => Agreed]_vars
  <2> SUFFICES ASSUME Inv, FairCompare, NEW s \in IDs, NEW p \in Profiles,
                      Comparable(Segments[s].family, topic, OfProfile(topic, p))
               PROVE  p \in members[s] <=> p \in Recompute(rows, Segments[s], SimNow)
    OBVIOUS
  <2> USE DEF EngineInv
  <2> PICK group : group = OfProfile(topic, p)
    OBVIOUS
  <2>1. /\ AppliedOf(p) = group /\ Groupable(topic, group, SimNow)
    BY ComparedHaving
  <2>2. p \in Recompute(rows, Segments[s], SimNow) <=> Having(topic, group, Segments[s], SimNow)
    BY ComparedHaving
  <2>3. /\ main = "sweep" /\ todo = {} /\ settled /\ spent["redis"] = 0
    BY DEF FairCompare, Compare, NoErrors
  <2>4. Counts(stats[p], topic, group) /\ History(stats[p], topic, group)
    BY <2>1, <2>3 DEF CountInv, HistoryInv
  <2>5. s \in EvaluateProfile(stats[p], SimNow) <=> Having(topic, group, Segments[s], SimNow)
    <3>1. CASE s \in UntimedIDs
      <4>1. IsFiniteSet(group) /\ \A n \in group : topic[n].category \in Categories \cup {NoCategory}
        BY <2>1, BenchAssumption DEF Groupable
      <4> QED
        BY <2>4, <3>1, <4>1, UntimedAgree
    <3>2. CASE s \notin UntimedIDs
      BY <2>1, <2>4, <3>2, TimedAgree
    <3> QED
      BY <3>1, <3>2
  <2>6. segs[p] = EvaluateProfile(stats[p], SimNow)
    BY <2>3 DEF SweptInv, UpToDate
  <2>7. s \in segs[p] <=> p \in members[s]
    <3>1. Torn = {}
      BY <2>3, FS_CardinalityType, FS_EmptySet DEF TornInv
    <3>2. <<p, s>> \notin Torn
      BY <3>1
    <3> QED
      BY <3>2 DEF Torn
  <2> QED
    BY <2>2, <2>5, <2>6, <2>7
<1> QED
  BY <1>1, <1>2, <1>3, PTL DEF Spec, AgreesWithRecompute

=============================================================================
