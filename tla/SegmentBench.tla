----------------------------- MODULE SegmentBench -----------------------------
(***************************************************************************)
(* cmd/segmentbench up to its comparison: the corpus is sent through the   *)
(* edge to Kafka; the consumer goroutine collects batches for ClickHouse   *)
(* and applies each event to Redis (IncrementalEngine); the main goroutine *)
(* waits for it, sweeps all profiles (Finalize) and compares the           *)
(* membership in Redis with the recompute over the ClickHouse table.       *)
(*                                                                         *)
(* Profiles share no state but the topic, whose order across profiles is   *)
(* any; one partition is enough.  What a profile's evaluation reads in     *)
(* several round trips is read in one step.                                *)
(***************************************************************************)
EXTENDS Segments

CONSTANTS
  Events,        \* storefront events a corpus may hold
  CorpusSize,    \* bound of the model: events in a corpus
  Shuffled,      \* the stream is out of order, as cmd/eventgen delivers it
  BatchSize,     \* chBatchSize; 500 in the code
  Limit,         \* bound of the model: failures of each kind
  MaxFailures    \* bound of the model: failures of all kinds together

Kinds == {"produces", "resends", "redis", "store"}
Goroutines == {"consumer", "main"}

ASSUME BenchAssumption ==
  /\ BatchSize \in Nat \ {0}
  /\ CorpusSize \in Nat \ {0}
  /\ \A e \in Events :
       /\ e.profile \in Profiles /\ e.ts \in Nat \ {0} /\ e.price \in Int
       /\ e.category \in Categories \cup {NoCategory}
  /\ \A e, f \in Events : e.id = f.id => e = f
  /\ Shuffled \in BOOLEAN
  /\ Limit \in [Kinds -> Nat]
  /\ MaxFailures \in Nat

VARIABLES
  corpus,      \* the events main sends, in this order
  sent,        \* how many of them it has sent
  topic,       \* what Kafka holds
  taken,       \* messages the consumer has taken
  consumed,    \* the counter main waits for
  cons,        \* where the consumer is, and the events in its hand, one or none
  chBatch,     \* the batch both goroutines flush
  inserting,   \* inserting[g]: what g's InsertBatch is sending
  rows,        \* the events table
  stats,       \* stats[p]: stats, category views and purchases in Redis
  segs,        \* segs[p]: the set segments:p
  members,     \* members[s]: the set segmember:s
  delta,       \* delta[g]: the membership delta g is about to write
  main,        \* where main is
  todo,        \* profiles Finalize has still to evaluate
  settled,     \* all of the topic had been applied when main stopped waiting
  exact,       \* the segments found exact by the comparison
  spent        \* failures so far, by kind

feedVars == <<corpus, sent, topic>>
consumerVars == <<taken, consumed, cons>>
storeVars == <<chBatch, inserting, rows>>
redisVars == <<stats, segs, members>>
mainVars == <<main, todo, settled, exact>>
vars == <<feedVars, consumerVars, storeVars, redisVars, delta, mainVars, spent>>

Spend(kind) ==
  /\ spent[kind] < Limit[kind]
  /\ MapThenSumSet(LAMBDA k : spent[k], Kinds) < MaxFailures
  /\ spent' = [spent EXCEPT ![kind] = @ + 1]

Chronological(q, group) == \A m, n \in group : m < n => q[m].ts <= q[n].ts

\* Build: ids are unique, and each profile's events are in their own order.
Corpora ==
  {q \in [1..CorpusSize -> Events] :
     /\ IsInjective(q)
     /\ Shuffled \/ \A p \in Profiles : Chronological(q, OfProfile(q, p))}

\* The latest timestamp of the corpus: simNow.
SimNow == Latest(corpus, DOMAIN corpus)

NoDelta == [profile |-> {}, add |-> {}, remove |-> {}]

Init ==
  /\ corpus \in Corpora
  /\ sent = 0
  /\ topic = << >>
  /\ taken = 0
  /\ consumed = 0
  /\ cons = [at |-> "select", hand |-> << >>]
  /\ chBatch = << >>
  /\ inserting = [g \in Goroutines |-> << >>]
  /\ rows = << >>
  /\ stats = [p \in Profiles |-> NoStats]
  /\ segs = [p \in Profiles |-> {}]
  /\ members = [s \in IDs |-> {}]
  /\ delta = [g \in Goroutines |-> NoDelta]
  /\ main = "send"
  /\ todo = {}
  /\ settled = FALSE
  /\ exact = {}
  /\ spent = [k \in Kinds |-> 0]

-----------------------------------------------------------------------------
(* The producer.  An error of Ingest is only logged; the writer may store  *)
(* a message twice when the answer to its first attempt is lost.           *)

Produce(e) ==
  \/ topic' = Append(topic, e) /\ UNCHANGED spent
  \/ topic' = topic \o <<e, e>> /\ Spend("resends")
  \/ UNCHANGED topic /\ Spend("produces")

\* No id of the corpus is sent twice, so that the edge admits every event.
Send ==
  /\ main = "send"
  /\ Produce(corpus[sent + 1])
  /\ sent' = sent + 1
  /\ main' = IF sent' = Len(corpus) THEN "wait" ELSE "send"
  /\ UNCHANGED <<corpus, consumerVars, storeVars, redisVars, delta, todo, settled, exact>>

-----------------------------------------------------------------------------
(* The event store.                                                        *)

\* Deviation: the batch goes on being the batch.
FlushKeepsBatch(g, batch) ==
  inserting' = [inserting EXCEPT ![g] = batch] /\ chBatch' = batch

\* flushCH up to its insert.
Flush(g, batch) ==
  inserting' = [inserting EXCEPT ![g] = batch] /\ chBatch' = << >>

\* The end of InsertBatch: its error is only logged.
Inserted(g) ==
  /\ \/ rows' = rows \o inserting[g] /\ UNCHANGED spent
     \/ UNCHANGED rows /\ Spend("store")
  /\ inserting' = [inserting EXCEPT ![g] = << >>]
  /\ UNCHANGED chBatch

-----------------------------------------------------------------------------
(* reevaluate, by either goroutine.                                        *)

\* What EvaluateProfile and SMembers tell the goroutine of a profile.
Delta(p, now) ==
  LET want == EvaluateProfile(stats[p], now) IN
  [profile |-> {p}, add |-> want \ segs[p], remove |-> segs[p] \ want]

Changed(d) == d.add \cup d.remove # {}

\* The commands for the segments of inSegs reached segments:p, those for the
\* segments of inMembers reached segmember:id too.
Write(d, inSegs, inMembers) ==
  /\ segs' = [p \in Profiles |->
       IF p \in d.profile
       THEN (segs[p] \cup (d.add \cap inSegs)) \ (d.remove \cap inSegs) ELSE segs[p]]
  /\ members' = [s \in IDs |->
       CASE s \in d.add \cap inMembers -> members[s] \cup d.profile
         [] s \in d.remove \cap inMembers -> members[s] \ d.profile
         [] OTHER -> members[s]]

\* Deviation: a profile that leaves a segment stays in the segment's set.
DeltaWrittenOneSided(d) == Write(d, d.add \cup d.remove, d.add)

DeltaWritten(d) == Write(d, d.add \cup d.remove, d.add \cup d.remove)

\* The connection breaks inside the pipeline, which is no transaction.  The
\* additions come first, in the order of a map, and for each segment the
\* profile's set before the segment's.
DeltaCut(d) ==
  \E whole \in SUBSET (d.add \cup d.remove) :
    \E half \in SUBSET ((d.add \cup d.remove) \ whole) :
      /\ Cardinality(half) <= 1
      /\ d.remove \cap (whole \cup half) # {} => d.add \subseteq whole
      /\ Write(d, whole \cup half, whole)

-----------------------------------------------------------------------------
(* The consumer goroutine.                                                 *)

Event == cons.hand[1]

\* ApplyEvent has returned; an error is only logged.
Done ==
  /\ cons' = [at |-> "select", hand |-> << >>]
  /\ consumed' = consumed + 1
  /\ delta' = [delta EXCEPT !["consumer"] = NoDelta]

Receive ==
  /\ cons.at = "select"
  /\ taken < Len(topic)
  /\ taken' = taken + 1
  /\ LET e == topic[taken + 1]
         batch == Append(chBatch, e)
     IN IF Len(batch) >= BatchSize
        THEN Flush("consumer", batch) /\ cons' = [at |-> "inserting", hand |-> <<e>>]
        ELSE /\ chBatch' = batch
             /\ cons' = [at |-> "stats", hand |-> <<e>>]
             /\ UNCHANGED inserting
  /\ UNCHANGED <<feedVars, consumed, rows, redisVars, delta, mainVars, spent>>

FlushTick ==
  /\ cons.at = "select"
  /\ chBatch # << >>
  /\ Flush("consumer", chBatch)
  /\ cons' = [cons EXCEPT !.at = "inserting"]
  /\ UNCHANGED <<feedVars, taken, consumed, rows, redisVars, delta, mainVars, spent>>

ConsumerInserted ==
  /\ cons.at = "inserting"
  /\ Inserted("consumer")
  /\ cons' = [cons EXCEPT !.at = IF cons.hand = << >> THEN "select" ELSE "stats"]
  /\ UNCHANGED <<feedVars, taken, consumed, redisVars, delta, mainVars>>

\* The first pipeline of ApplyEvent.  The Redis client sends a pipeline again
\* when its connection breaks, so that it may have been carried out twice.
ApplyStats ==
  LET p == Event.profile
      once == Applied(stats[p], Event)
  IN /\ cons.at = "stats"
     /\ cons' = [cons EXCEPT !.at = "reevaluate"]
     /\ \/ stats' = [stats EXCEPT ![p] = once] /\ UNCHANGED spent
        \/ stats' = [stats EXCEPT ![p] = Applied(once, Event)] /\ Spend("redis")
     /\ UNCHANGED <<feedVars, taken, consumed, storeVars, segs, members, delta, mainVars>>

\* It ends with an error, carried out or not.
ApplyStatsFails ==
  LET p == Event.profile IN
  /\ cons.at = "stats"
  /\ Spend("redis")
  /\ stats' \in {stats, [stats EXCEPT ![p] = Applied(@, Event)]}
  /\ Done
  /\ UNCHANGED <<feedVars, taken, storeVars, segs, members, mainVars>>

Reevaluate ==
  LET d == Delta(Event.profile, Event.ts) IN
  /\ cons.at = "reevaluate"
  /\ IF Changed(d)
     THEN /\ delta' = [delta EXCEPT !["consumer"] = d]
          /\ cons' = [cons EXCEPT !.at = "writing"]
          /\ UNCHANGED consumed
     ELSE Done
  /\ UNCHANGED <<feedVars, taken, storeVars, redisVars, mainVars, spent>>

ReevaluateFails ==
  /\ cons.at = "reevaluate"
  /\ Spend("redis")
  /\ Done
  /\ UNCHANGED <<feedVars, taken, storeVars, redisVars, mainVars>>

WriteDelta ==
  /\ cons.at = "writing"
  /\ \/ DeltaWritten(delta["consumer"]) /\ UNCHANGED spent
     \/ DeltaCut(delta["consumer"]) /\ Spend("redis")
  /\ Done
  /\ UNCHANGED <<feedVars, taken, storeVars, stats, mainVars>>

-----------------------------------------------------------------------------
(* The main goroutine after it has sent the corpus.                        *)

\* The consumer has caught up, or the two minutes are over: time is not
\* modelled, so they may be over at any moment.
StopWaiting ==
  /\ main = "wait"
  /\ settled' = (consumed = Len(topic))
  /\ Flush("main", chBatch)
  /\ main' = IF chBatch = << >> THEN "touched" ELSE "inserting"
  /\ UNCHANGED <<feedVars, consumerVars, rows, redisVars, delta, todo, exact, spent>>

MainInserted ==
  /\ main = "inserting"
  /\ Inserted("main")
  /\ main' = "touched"
  /\ UNCHANGED <<feedVars, consumerVars, redisVars, delta, todo, settled, exact>>

\* Finalize reads touched_profiles, which the stats pipeline fills.
Touched ==
  /\ main = "touched"
  /\ todo' = {p \in Profiles : stats[p].total > 0}
  /\ main' = "sweep"
  /\ UNCHANGED <<feedVars, consumerVars, storeVars, redisVars, delta, settled, exact, spent>>

\* Deviation: what did not change since the event is not evaluated again.
SweepAtLastEvent(p) ==
  /\ main = "sweep"
  /\ p \in todo
  /\ LET d == Delta(p, stats[p].last) IN
     IF Changed(d)
     THEN /\ delta' = [delta EXCEPT !["main"] = d]
          /\ main' = "writing"
     ELSE UNCHANGED <<delta, main>>
  /\ todo' = todo \ {p}
  /\ UNCHANGED <<feedVars, consumerVars, storeVars, redisVars, settled, exact, spent>>

Sweep(p) ==
  /\ main = "sweep"
  /\ p \in todo
  /\ LET d == Delta(p, SimNow) IN
     IF Changed(d)
     THEN /\ delta' = [delta EXCEPT !["main"] = d]
          /\ main' = "writing"
     ELSE UNCHANGED <<delta, main>>
  /\ todo' = todo \ {p}
  /\ UNCHANGED <<feedVars, consumerVars, storeVars, redisVars, settled, exact, spent>>

SweepWrites ==
  /\ main = "writing"
  /\ DeltaWritten(delta["main"])
  /\ delta' = [delta EXCEPT !["main"] = NoDelta]
  /\ main' = "sweep"
  /\ UNCHANGED <<feedVars, consumerVars, storeVars, stats, todo, settled, exact, spent>>

\* log.Fatalf: an error of Finalize, or of the comparison, ends the process.
MainDies ==
  /\ \/ main \in {"touched", "sweep"} /\ UNCHANGED <<segs, members>>
     \/ main = "writing" /\ DeltaCut(delta["main"])
  /\ Spend("redis")
  /\ main' = "dead"
  /\ cons' = [cons EXCEPT !.at = "dead"]
  /\ delta' = [g \in Goroutines |-> NoDelta]
  /\ UNCHANGED <<feedVars, taken, consumed, storeVars, stats, todo, settled, exact>>

\* DiffSets finds no profile in MembersOf or Recompute only.
Exact(s) == members[s] = Recompute(rows, Segments[s], SimNow)

Compare ==
  /\ main = "sweep"
  /\ todo = {}
  /\ exact' = {s \in IDs : Exact(s)}
  /\ main' = "compared"
  /\ UNCHANGED <<feedVars, consumerVars, storeVars, redisVars, delta, todo, settled, spent>>

-----------------------------------------------------------------------------

Consume ==
  \/ Receive \/ FlushTick \/ ConsumerInserted
  \/ ApplyStats \/ ApplyStatsFails \/ Reevaluate \/ ReevaluateFails \/ WriteDelta

MainStep ==
  \/ Send \/ StopWaiting \/ MainInserted \/ Touched
  \/ \E p \in Profiles : Sweep(p)
  \/ SweepWrites \/ Compare

Next == Consume \/ MainStep \/ MainDies

Spec == Init /\ [][Next]_vars
-----------------------------------------------------------------------------

\* The values of the variables; a batch is flushed before it outgrows
\* BatchSize, and an event is in the consumer's hand until it is counted.
TypeOK ==
  /\ corpus \in Corpora
  /\ sent \in 0..Len(corpus)
  /\ topic \in Seq(Events)
  /\ taken \in 0..Len(topic)
  /\ consumed \in {taken, taken - 1}
  /\ cons.at \in {"select", "inserting", "stats", "reevaluate", "writing", "dead"}
  /\ consumed = taken <=> cons.hand = << >>
  /\ Len(chBatch) < BatchSize
  /\ \A g \in Goroutines : inserting[g] \in Seq(Events) /\ Len(inserting[g]) <= BatchSize
  /\ rows \in Seq(Events)
  /\ \A p \in Profiles : Cardinality(stats[p].purch) <= stats[p].purchases
  /\ segs \in [Profiles -> SUBSET IDs]
  /\ members \in [IDs -> SUBSET Profiles]
  /\ delta["consumer"] # NoDelta <=> cons.at = "writing"
  /\ main \in {"send", "wait", "inserting", "touched", "sweep", "writing", "compared", "dead"}
  /\ todo \subseteq Profiles
  /\ settled \in BOOLEAN
  /\ exact \subseteq IDs
  /\ spent \in [Kinds -> Nat]

\* No error of a store: repeated and missing messages do not count.
NoErrors == spent["redis"] = 0 /\ spent["store"] = 0

Unrepeated(q, group) == \A m, n \in group : q[m] = q[n] => m = n
Categorized(q, group) == \A n \in OfType(q, group, "page_view") : q[n].category # NoCategory
OnSeconds(q, group) == \A t \in {q[n].ts : n \in group} \cup {SimNow} : t % Second = 0
NoneAtRetention(q, group) ==
  \A m, n \in OfType(q, group, "purchase") : q[n].ts - q[m].ts # RetentionDays * Day

\* What a family asks of a profile's messages for both answers to be one.
Comparable(family, q, group) ==
  CASE family \in {"purchase_count_min", "purchase_value_min"} ->
         Unrepeated(q, group) /\ OnSeconds(q, group) /\ NoneAtRetention(q, group)
    [] family \in {"category_view_min", "never_purchased"} -> TRUE
    [] family = "multi_category_shopper_min" -> Categorized(q, group)
    [] family = "recently_active_hours" -> Chronological(q, group)
    [] family \in {"cart_abandon_days", "churn_risk_days"} ->
         Chronological(q, group) /\ OnSeconds(q, group)

\* Compare as it is meant to happen: main waited for everything, and the
\* consumer's last insert has ended.
FairCompare == Compare /\ settled /\ inserting["consumer"] = << >> /\ NoErrors

\* "Recompute ... used only to check this one is right": for each family, and
\* under what that family needs of the stream and no more, the membership kept
\* event by event and swept at the end is the recompute's.  Late and repeated
\* events, missing categories and boundaries matter to some families only.
AgreesWithRecompute ==
  [][FairCompare =>
       \A s \in IDs, p \in Profiles :
         Comparable(Segments[s].family, topic, OfProfile(topic, p)) =>
           (p \in members[s] <=> p \in Recompute(rows, Segments[s], SimNow))]_vars

\* "Finalize ... is what actually resolves every time-elapsed transition": when
\* the comparison starts, each profile's set is what its state says as of
\* SimNow, whatever pipelines broke before the sweep.
FinalizeResolves ==
  [][Compare /\ settled => \A p \in Profiles : segs[p] = EvaluateProfile(stats[p], SimNow)]_vars

\* The pairs of a profile and a segment on which the two sets differ.
Torn ==
  {pair \in Profiles \X IDs :
     (pair[2] \in segs[pair[1]]) # (pair[1] \in members[pair[2]])}

\* segments:p and segmember:id are two views of one relation, written by two
\* goroutines without a transaction: each error of Redis tears at most one
\* pair, and nothing else does.
SetsAgree == Cardinality(Torn) <= spent["redis"]

Untimed == {"category_view_min", "never_purchased", "multi_category_shopper_min"}

\* Membership lags behind the events only where time passes: between events,
\* the families without a time in them are up to date with what was applied.
\* (A sweep that overtakes the consumer may set a profile back.)
UntimedNeverLag ==
  cons.at \in {"select", "inserting"} /\ NoErrors /\ (settled \/ main \in {"send", "wait"}) =>
    LET applied == SubSeq(topic, 1, consumed) IN
    \A s \in {s \in IDs : Segments[s].family \in Untimed}, p \in Profiles :
      Comparable(Segments[s].family, applied, OfProfile(applied, p)) =>
        (p \in members[s] <=> p \in Recompute(applied, Segments[s], SimNow))

\* "membership identical to a full recompute on all 50 test segments", for a
\* corpus as Build makes it, without any failure.
IdenticalToRecompute ==
  [][FairCompare /\ (\A k \in Kinds : spent[k] = 0) => exact' = IDs]_vars

=============================================================================
