------------------------------ MODULE ScaleProofs ------------------------------
(***************************************************************************)
(* The scale benchmark with any number of workers, rows, batches and       *)
(* failures: the workers load every row once, and the verdict the program  *)
(* prints after a load is the truth about its two tables.                  *)
(***************************************************************************)
EXTENDS DeliveryScale, Integers, FiniteSetTheorems, TLAPS

-----------------------------------------------------------------------------
(* Batches share no row, and leave none out.                               *)

LEMMA BatchesDisjoint ==
  ASSUME NEW a \in Nat, NEW b \in Nat, a # b, NEW i \in BatchRows(a)
  PROVE  i \notin BatchRows(b)
<1>1. BatchSize \in Nat /\ i \in Nat
  BY ScaleAssumption DEF BatchRows, Rows
<1>2. ASSUME NEW m \in Nat, NEW n \in Nat, m < n
      PROVE  m * BatchSize + BatchSize <= n * BatchSize
  <2>1. PICK k \in Nat : n = m + 1 + k
    <3>1. n - m - 1 \in Nat /\ n = m + 1 + (n - m - 1)
      BY <1>2
    <3> QED
      BY <3>1
  <2>2. n * BatchSize = m * BatchSize + BatchSize + k * BatchSize
    BY <1>1, <2>1
  <2>3. k * BatchSize \in Nat /\ m * BatchSize \in Nat
    BY <1>1
  <2> QED
    BY <1>1, <2>2, <2>3
<1>3. a * BatchSize \in Nat /\ b * BatchSize \in Nat
  BY <1>1
<1>4. a * BatchSize < i /\ i <= a * BatchSize + BatchSize
  BY DEF BatchRows
<1>5. CASE a < b
  BY <1>1, <1>2, <1>3, <1>4, <1>5 DEF BatchRows
<1>6. CASE b < a
  <2>1. b * BatchSize + BatchSize <= a * BatchSize
    BY <1>2, <1>6
  <2>2. ~(i <= b * BatchSize + BatchSize)
    BY <1>1, <1>3, <1>4, <2>1
  <2> QED
    BY <2>2 DEF BatchRows
<1> QED
  BY <1>5, <1>6

LEMMA DivisionBounds ==
  ASSUME NEW n \in Nat, NEW d \in Nat \ {0}
  PROVE  /\ n \div d \in Nat
         /\ (n \div d) * d <= n /\ n < (n \div d) * d + d
<1>1. n = d * (n \div d) + (n % d) /\ n % d \in 0 .. d - 1
  OBVIOUS
<1>2. n \div d \in Nat
  OBVIOUS
<1> QED
  BY <1>1, <1>2

LEMMA RowsCovered ==
  ASSUME NEW i \in Rows
  PROVE  \E b \in Nat : b < numBatches /\ i \in BatchRows(b)
<1> DEFINE b == (i - 1) \div BatchSize
           m == numBatches
<1>1. /\ BatchSize \in Nat \ {0} /\ Total \in Nat /\ i \in Nat /\ 1 <= i /\ i <= Total
      /\ i - 1 \in Nat /\ Total + BatchSize - 1 \in Nat
  BY ScaleAssumption DEF Rows
<1>2. b \in Nat /\ b * BatchSize <= i - 1 /\ i - 1 < b * BatchSize + BatchSize
  BY <1>1, DivisionBounds
<1>3. m \in Nat /\ Total + BatchSize - 1 < m * BatchSize + BatchSize
  BY <1>1, DivisionBounds DEF numBatches
<1> HIDE DEF b, m
<1>4. b * BatchSize \in Nat /\ m * BatchSize \in Nat
  BY <1>1, <1>2, <1>3
<1>5. i \in BatchRows(b)
  BY <1>1, <1>2, <1>4 DEF BatchRows
<1>6. b * BatchSize < m * BatchSize
  BY <1>1, <1>2, <1>3, <1>4
<1>7. b < m
  <2>1. SUFFICES ASSUME m <= b PROVE FALSE
    BY <1>2, <1>3
  <2>2. b = m + (b - m) /\ b - m \in Nat
    BY <1>2, <1>3, <2>1
  <2>3. b * BatchSize = m * BatchSize + (b - m) * BatchSize /\ (b - m) * BatchSize \in Nat
    BY <1>1, <1>2, <1>3, <2>2
  <2> QED
    BY <1>4, <1>6, <2>3
<1> QED
  BY <1>2, <1>5, <1>7 DEF m

LEMMA BatchesAreFinite == numBatches \in Nat
<1>1. Total + BatchSize - 1 \in Nat /\ BatchSize \in Nat \ {0}
  BY ScaleAssumption
<1> QED
  BY <1>1, DivisionBounds DEF numBatches

LEMMA RowsAreFinite ==
  /\ IsFiniteSet(Rows) /\ Cardinality(Rows) = Total
  /\ \A b : IsFiniteSet(BatchRows(b)) /\ Cardinality(BatchRows(b)) \in Nat
<1>1. IsFiniteSet(Rows) /\ Cardinality(Rows) = Total
  BY ScaleAssumption, FS_Interval DEF Rows
<1>2. \A b : BatchRows(b) \subseteq Rows
  BY DEF BatchRows
<1> QED
  BY <1>1, <1>2, FS_Subset, FS_CardinalityType

-----------------------------------------------------------------------------
(* A sum of ones and zeros is the number of the ones.                      *)

\* Induction on finite sets, by a least counterexample.
LEMMA LeastSubset ==
  ASSUME NEW S, IsFiniteSet(S), NEW T, T \subseteq SUBSET S, T # {}
  PROVE  \E x \in T : \A y \in T : y \subseteq x => y = x
<1>1. IsWellFoundedOn(StrictSubsetOrdering(S), SUBSET S)
  BY FS_StrictSubsetOrderingWellFounded, FS_FiniteSubsetsOfFinite
<1>2. PICK x \in T : \A y \in T : ~(<<y, x>> \in StrictSubsetOrdering(S))
  BY <1>1, WFMin
<1> QED
  BY <1>2 DEF StrictSubsetOrdering

\* MapThenSumSet takes any element and goes on with the others.
LEMMA CountMarks ==
  ASSUME NEW S, IsFiniteSet(S), NEW t, \A i \in S : t[i] \in 0 .. 1
  PROVE  Count(t, S) = Cardinality({i \in S : t[i] > 0})
<1> DEFINE First(s) == CHOOSE x \in s : TRUE
           Sums(g) == g = [s \in SUBSET S |->
                             IF s = {} THEN 0 ELSE t[First(s)] + g[s \ {First(s)}]]
           Marked(s) == {i \in s : t[i] > 0}
           h == [s \in SUBSET S |-> Cardinality(Marked(s))]
<1>1. Count(t, S) = (CHOOSE g : Sums(g))[S]
  BY DEF Count, MapThenSumSet, MapThenFoldSet
<1>2. \A s \in SUBSET S : s # {} => First(s) \in s
  OBVIOUS
<1>3. \A s \in SUBSET S : IsFiniteSet(Marked(s)) /\ Cardinality(Marked(s)) \in Nat
  BY FS_Subset, FS_CardinalityType
<1> HIDE DEF First
<1>4. ASSUME NEW s \in SUBSET S, s # {}
      PROVE  Cardinality(Marked(s)) = t[First(s)] + Cardinality(Marked(s \ {First(s)}))
  <2> DEFINE x == First(s)
             r == Marked(s \ {x})
  <2>1. x \in s /\ t[x] \in 0 .. 1 /\ x \notin r
    BY <1>2, <1>4
  <2>2. IsFiniteSet(r) /\ Cardinality(r) \in Nat
    BY <1>3
  <2>3. CASE t[x] = 0
    <3>1. Marked(s) = r
      BY <2>3
    <3> QED
      BY <2>2, <2>3, <3>1
  <2>4. CASE t[x] = 1
    <3>1. Marked(s) = r \cup {x}
      BY <2>1, <2>4
    <3> HIDE DEF r, x, Marked
    <3>2. Cardinality(r \cup {x}) = Cardinality(r) + 1
      BY <2>1, <2>2, FS_AddElement
    <3> QED
      BY <2>2, <2>4, <3>1, <3>2 DEF x, r
  <2> QED
    BY <2>1, <2>3, <2>4
<1>5. Sums(h)
  <2>1. Cardinality(Marked({})) = 0
    <3>1. Marked({}) = {}
      OBVIOUS
    <3> QED
      BY <3>1, FS_EmptySet
  <2>2. ASSUME NEW s \in SUBSET S
        PROVE  h[s] = IF s = {} THEN 0 ELSE t[First(s)] + h[s \ {First(s)}]
    <3> HIDE DEF Marked
    <3>1. h[s] = Cardinality(Marked(s)) /\ h[s \ {First(s)}] = Cardinality(Marked(s \ {First(s)}))
      OBVIOUS
    <3> HIDE DEF h
    <3> QED
      BY <1>4, <2>1, <3>1
  <2>3. h = [s \in SUBSET S |-> h[s]]
    OBVIOUS
  <2> HIDE DEF h
  <2> QED
    BY <2>2, <2>3
<1>6. ASSUME NEW g, Sums(g)
      PROVE  g[S] = h[S]
  <2>1. SUFFICES ASSUME g[S] # h[S] PROVE FALSE
    OBVIOUS
  <2> DEFINE Bad == {s \in SUBSET S : g[s] # h[s]}
  <2> HIDE DEF h
  <2>2. PICK s \in Bad : \A y \in Bad : y \subseteq s => y = s
    <3>1. Bad \subseteq SUBSET S /\ Bad # {}
      BY <2>1
    <3> HIDE DEF Bad
    <3> QED
      BY <3>1, LeastSubset
  <2>3. g[s] = IF s = {} THEN 0 ELSE t[First(s)] + g[s \ {First(s)}]
    BY <1>6
  <2>4. h[s] = IF s = {} THEN 0 ELSE t[First(s)] + h[s \ {First(s)}]
    BY <1>5
  <2>5. s # {} /\ g[s \ {First(s)}] # h[s \ {First(s)}]
    BY <2>2, <2>3, <2>4
  <2>6. s \ {First(s)} \in Bad /\ s \ {First(s)} # s
    BY <1>2, <2>2, <2>5
  <2> QED
    BY <2>2, <2>6
<1>7. Sums(CHOOSE g : Sums(g))
  BY <1>5
<1>8. Count(t, S) = h[S]
  <2> HIDE DEF h, Sums
  <2> QED
    BY <1>1, <1>6, <1>7
<1> QED
  BY <1>8

-----------------------------------------------------------------------------
(* The inductive invariant.                                                *)

Mains ==
  {"truncate events", "truncate rollup", "load", "refresh", "fill", "recompute", "compare",
   "done", "fatal"}

TypeInv ==
  /\ skipLoad \in BOOLEAN /\ main \in Mains
  /\ raw \in [Rows -> Nat] /\ rollup \in [Rows -> Nat]
  /\ nextBatch \in Nat /\ worker \in [Workers -> SUBSET Nat] /\ returned \in SUBSET Workers
  /\ inserted \in Nat /\ failures \in Nat
  /\ lateInserts \in SUBSET Nat /\ stale \in BOOLEAN /\ drawn \in [Rows -> Drawn]

Busy(b) == \E w \in Workers : b \in worker[w]
Pending(b) == b \in lateInserts \/ Busy(b)

\* A claimed batch is with one worker, or with the store that was given up, or
\* settled; none is claimed before the load or held after it.
ClaimInv ==
  /\ \A w \in Workers : main # "load" \/ w \in returned => worker[w] = {}
  /\ \A w \in Workers : \A b \in worker[w] :
       /\ worker[w] = {b} /\ b < nextBatch /\ b < numBatches /\ b \notin lateInserts
       /\ \A v \in Workers : v # w => b \notin worker[v]
  /\ \A b \in lateInserts : b < nextBatch
  /\ main \in {"truncate events", "truncate rollup"} => nextBatch = 0 /\ returned = {} /\ inserted = 0
  /\ returned # {} => nextBatch >= numBatches
  /\ Loaded /\ main # "load" => returned = Workers

Truncated == ~skipLoad /\ main \notin {"truncate events", "fatal"}

\* Once the table was truncated a row is in it at most once, and only if its
\* batch was claimed and is not pending.
RawInv ==
  Truncated =>
    /\ \A i \in Rows : raw[i] <= 1
    /\ \A i \in Rows : raw[i] > 0 => \E b \in Nat : b < nextBatch /\ i \in BatchRows(b)
    /\ \A b \in Nat : Pending(b) => \A i \in BatchRows(b) : raw[i] = 0

\* Without a failure every claimed batch that no worker holds is in the table,
\* and inserted is the number of rows there.
CompleteInv ==
  Truncated /\ failures = 0 =>
    /\ lateInserts = {}
    /\ \A b \in Nat : b < nextBatch /\ b < numBatches => Busy(b) \/ \A i \in BatchRows(b) : raw[i] = 1
    /\ inserted = Cardinality({i \in Rows : raw[i] > 0})

\* From the filling of the rollup to the verdict.
FilledInv ==
  /\ main = "fill" => rollup = Empty
  /\ Loaded /\ ~stale /\ Filled => rollup = raw
  /\ Loaded /\ ~stale /\ main \in {"compare", "done"} =>
       recompute = [g \in Groups |-> Count(raw, RowsIn(g))]
  /\ Loaded /\ ~stale /\ main = "done" => exact

IInv == TypeInv /\ ClaimInv /\ RawInv /\ CompleteInv /\ FilledInv

LEMMA InitIInv == Init => IInv
<1> SUFFICES ASSUME Init PROVE IInv
  OBVIOUS
<1>1. /\ skipLoad \in BOOLEAN /\ main \in {"recompute", "truncate events"}
      /\ main = "recompute" <=> skipLoad
      /\ nextBatch = 0 /\ returned = {} /\ inserted = 0 /\ lateInserts = {} /\ failures = 0
      /\ stale = FALSE /\ \A w \in Workers : worker[w] = {}
  BY DEF Init
<1>2. TypeInv
  <2>1. raw \in [Rows -> Nat] /\ rollup \in [Rows -> Nat]
    <3>1. raw \in [Rows -> 0 .. 1]
      BY DEF Init
    <3>2. \A i \in Rows : raw[i] \in 0 .. 1
      BY <3>1
    <3>3. \A n \in 0 .. 1 : n \in Nat
      OBVIOUS
    <3>4. raw \in [Rows -> Nat]
      BY <3>1, <3>2, <3>3
    <3>5. rollup = Empty \/ rollup = raw \/ rollup = [i \in Rows |-> 1]
      BY DEF Init
    <3>6. Empty \in [Rows -> Nat] /\ [i \in Rows |-> 1] \in [Rows -> Nat]
      BY DEF Empty
    <3> QED
      BY <3>4, <3>5, <3>6
  <2>2. worker \in [Workers -> SUBSET Nat]
    BY DEF Init
  <2>3. drawn \in [Rows -> Drawn]
    BY DEF Init
  <2> QED
    BY <1>1, <2>1, <2>2, <2>3 DEF TypeInv, Mains
<1>3. ~Truncated /\ ~Loaded /\ main # "fill"
  BY <1>1 DEF Truncated, Loaded
<1>4. ClaimInv
  BY <1>1, <1>3 DEF ClaimInv
<1> QED
  BY <1>2, <1>3, <1>4 DEF IInv, RawInv, CompleteInv, FilledInv

\* Main goes on, and the load stays what it was.
LEMMA MainMoves ==
  ASSUME IInv,
         UNCHANGED <<raw, lateInserts, nextBatch, worker, returned, inserted, failures, skipLoad, drawn>>,
         main' \notin {"truncate events", "truncate rollup", "load"},
         main # "load" \/ returned = Workers,
         \/ main' = "fatal"
         \/ /\ main \notin {"truncate events", "truncate rollup", "fatal"}
            /\ skipLoad \/ returned = Workers
  PROVE  ClaimInv' /\ RawInv' /\ CompleteInv'
<1>1. \A w \in Workers : worker[w] = {}
  BY DEF IInv, ClaimInv
<1>2. ClaimInv'
  BY <1>1 DEF IInv, ClaimInv, Loaded
<1>3. Truncated' => Truncated
  BY DEF Truncated
<1>4. \A b : BatchRows(b)' = BatchRows(b) /\ (Busy(b)' <=> Busy(b)) /\ (Pending(b)' <=> Pending(b))
  BY DEF BatchRows, Busy, Pending
<1>5. RawInv'
  BY <1>3, <1>4 DEF IInv, RawInv
<1>6. CompleteInv'
  BY <1>3, <1>4 DEF IInv, CompleteInv
<1> QED
  BY <1>2, <1>5, <1>6

LEMMA TruncateEventsKeeps ==
  ASSUME IInv, TruncateEvents
  PROVE  IInv'
<1>1. /\ main = "truncate events" /\ main' = "truncate rollup" /\ raw' = Empty
      /\ UNCHANGED <<rollup, lateInserts, stale, nextBatch, worker, returned, inserted, failures>>
      /\ UNCHANGED <<skipLoad, drawn, recompute, exact>>
  BY DEF TruncateEvents, load, verdict, input
<1>2. \A i \in Rows : raw'[i] = 0
  BY <1>1 DEF Empty
<1>3. TypeInv'
  BY <1>1 DEF IInv, TypeInv, Mains, Empty
<1>4. nextBatch = 0 /\ inserted = 0 /\ lateInserts = {} /\ \A w \in Workers : worker[w] = {}
  <2>1. nextBatch = 0 /\ inserted = 0 /\ \A w \in Workers : worker[w] = {}
    BY <1>1 DEF IInv, ClaimInv
  <2>2. lateInserts \in SUBSET Nat /\ \A b \in lateInserts : b < nextBatch
    BY DEF IInv, TypeInv, ClaimInv
  <2>3. \A b \in Nat : ~(b < 0)
    OBVIOUS
  <2> QED
    BY <2>1, <2>2, <2>3
<1>5. ClaimInv'
  BY <1>1, <1>4 DEF IInv, ClaimInv, Loaded
<1>6. RawInv'
  <2>1. \A b : \A i \in BatchRows(b)' : i \in Rows
    BY DEF BatchRows
  <2>2. \A i \in Rows : raw'[i] <= 1 /\ ~(raw'[i] > 0)
    BY <1>2
  <2> QED
    BY <1>2, <2>1, <2>2 DEF RawInv
<1>7. CompleteInv'
  <2>1. {i \in Rows : raw'[i] > 0} = {}
    BY <1>2
  <2>2. nextBatch' = 0 /\ inserted' = 0 /\ lateInserts' = {}
    BY <1>1, <1>4
  <2>3. \A b \in Nat : ~(b < 0)
    OBVIOUS
  <2>4. Cardinality({i \in Rows : raw'[i] > 0}) = 0
    BY <2>1, FS_EmptySet
  <2> QED
    BY <2>2, <2>3, <2>4 DEF CompleteInv
<1>8. FilledInv'
  BY <1>1 DEF FilledInv, Filled
<1> QED
  BY <1>3, <1>5, <1>6, <1>7, <1>8 DEF IInv

LEMMA TruncateRollupKeeps ==
  ASSUME IInv, TruncateRollup
  PROVE  IInv'
<1>1. /\ main = "truncate rollup" /\ main' = "load" /\ rollup' = Empty
      /\ UNCHANGED <<raw, lateInserts, stale, nextBatch, worker, returned, inserted, failures>>
      /\ UNCHANGED <<skipLoad, drawn, recompute, exact>>
  BY DEF TruncateRollup, load, verdict, input
<1>2. TypeInv'
  BY <1>1 DEF IInv, TypeInv, Mains, Empty
<1>3. ClaimInv'
  BY <1>1 DEF IInv, ClaimInv, Loaded
<1>4. Truncated' => Truncated
  BY <1>1 DEF Truncated
<1>5. \A b : BatchRows(b)' = BatchRows(b) /\ (Busy(b)' <=> Busy(b)) /\ (Pending(b)' <=> Pending(b))
  BY <1>1 DEF BatchRows, Busy, Pending
<1>6. RawInv' /\ CompleteInv'
  BY <1>1, <1>4, <1>5 DEF IInv, RawInv, CompleteInv
<1>7. FilledInv'
  BY <1>1 DEF FilledInv, Filled
<1> QED
  BY <1>2, <1>3, <1>6, <1>7 DEF IInv

LEMMA ClaimBatchKeeps ==
  ASSUME IInv, NEW w \in Workers, ClaimBatch(w)
  PROVE  IInv'
<1>1. /\ main = "load" /\ worker[w] = {} /\ w \notin returned /\ nextBatch' = nextBatch + 1
      /\ UNCHANGED <<main, inserted, failures, raw, rollup, lateInserts, stale>>
      /\ UNCHANGED <<skipLoad, drawn, recompute, exact>>
      /\ \/ nextBatch < numBatches /\ worker' = [worker EXCEPT ![w] = {nextBatch}] /\ UNCHANGED returned
         \/ ~(nextBatch < numBatches) /\ returned' = returned \cup {w} /\ UNCHANGED worker
  BY DEF ClaimBatch, Claims, tables, verdict, input
<1>2. nextBatch \in Nat /\ numBatches \in Nat /\ worker \in [Workers -> SUBSET Nat] /\ lateInserts \in SUBSET Nat
  BY BatchesAreFinite DEF IInv, TypeInv
<1>3. TypeInv'
  BY <1>1, <1>2 DEF IInv, TypeInv
<1>4. \A b \in Nat : Pending(b) => b < nextBatch
  BY DEF IInv, ClaimInv, Pending, Busy
<1>5. ClaimInv'
  <2>1. CASE nextBatch < numBatches /\ worker' = [worker EXCEPT ![w] = {nextBatch}] /\ UNCHANGED returned
    <3>1. worker'[w] = {nextBatch} /\ \A v \in Workers : v # w => worker'[v] = worker[v]
      BY <1>2, <2>1
    <3>2. nextBatch \notin lateInserts /\ \A v \in Workers : nextBatch \notin worker[v]
      BY <1>2, <1>4 DEF Pending, Busy
    <3>3. \A v \in Workers : \A b \in worker'[v] :
            /\ worker'[v] = {b} /\ b < nextBatch' /\ b < numBatches /\ b \notin lateInserts'
            /\ \A u \in Workers : u # v => b \notin worker'[u]
      <4>1. SUFFICES ASSUME NEW v \in Workers, NEW b \in worker'[v]
                     PROVE  /\ worker'[v] = {b} /\ b < nextBatch' /\ b < numBatches /\ b \notin lateInserts'
                            /\ \A u \in Workers : u # v => b \notin worker'[u]
        OBVIOUS
      <4>2. CASE v = w
        BY <1>1, <1>2, <2>1, <3>1, <3>2, <4>1, <4>2
      <4>3. CASE v # w
        <5>1. b \in worker[v] /\ b \in Nat
          BY <1>2, <3>1, <4>1, <4>3
        <5>2. /\ worker[v] = {b} /\ b < nextBatch /\ b < numBatches /\ b \notin lateInserts
              /\ \A u \in Workers : u # v => b \notin worker[u]
          BY <5>1 DEF IInv, ClaimInv
        <5> QED
          BY <1>1, <1>2, <3>1, <4>3, <5>1, <5>2
      <4> QED
        BY <4>2, <4>3
    <3>4. \A v \in Workers : v \in returned => worker'[v] = {}
      BY <1>1, <3>1 DEF IInv, ClaimInv
    <3>5. \A b \in lateInserts : b < nextBatch'
      BY <1>1, <1>2 DEF IInv, ClaimInv
    <3>6. returned = {}
      <4>1. returned # {} => nextBatch >= numBatches
        BY DEF IInv, ClaimInv
      <4>2. ~(nextBatch >= numBatches)
        BY <1>2, <2>1
      <4> QED
        BY <4>1, <4>2
    <3> QED
      BY <1>1, <2>1, <3>3, <3>4, <3>5, <3>6 DEF ClaimInv
  <2>2. CASE ~(nextBatch < numBatches) /\ returned' = returned \cup {w} /\ UNCHANGED worker
    <3>1. nextBatch' >= numBatches
      BY <1>1, <1>2, <2>2
    <3>2. \A v \in Workers : \A b \in worker[v] : b \in Nat /\ b < nextBatch'
      BY <1>1, <1>2 DEF IInv, ClaimInv
    <3>3. \A b \in lateInserts : b < nextBatch'
      BY <1>1, <1>2 DEF IInv, ClaimInv
    <3> QED
      BY <1>1, <2>2, <3>1, <3>2, <3>3 DEF IInv, ClaimInv
  <2> QED
    BY <1>1, <2>1, <2>2
<1>6. Truncated' => Truncated
  BY <1>1 DEF Truncated
<1>7. \A b \in Nat : Busy(b)' => Busy(b) \/ b = nextBatch
  BY <1>1, <1>2 DEF Busy
<1>8. \A b \in Nat : Busy(b) => Busy(b)'
  BY <1>1, <1>2 DEF Busy
<1>9. RawInv'
  <2>1. SUFFICES ASSUME Truncated PROVE RawInv'
    BY <1>6 DEF RawInv
  <2>2. \A i \in Rows : raw[i] \in Nat /\ raw[i] <= 1
    BY <2>1 DEF IInv, TypeInv, RawInv
  <2>3. \A i \in Rows : raw[i] > 0 => \E b \in Nat : b < nextBatch /\ i \in BatchRows(b)
    BY <2>1 DEF IInv, RawInv
  <2>4. \A i \in BatchRows(nextBatch) : raw[i] = 0
    <3>1. SUFFICES ASSUME NEW i \in BatchRows(nextBatch), raw[i] > 0 PROVE FALSE
      BY <2>2 DEF BatchRows
    <3>2. PICK b \in Nat : b < nextBatch /\ i \in BatchRows(b)
      BY <2>3, <3>1 DEF BatchRows
    <3> QED
      BY <1>2, <3>1, <3>2, BatchesDisjoint
  <2>5. \A b \in Nat : Pending(b)' => Pending(b) \/ b = nextBatch
    BY <1>1, <1>7 DEF Pending
  <2>6. \A b \in Nat : Pending(b)' => \A i \in BatchRows(b) : raw[i] = 0
    BY <2>1, <2>4, <2>5 DEF IInv, RawInv
  <2>7. \A b \in Nat : b < nextBatch => b < nextBatch'
    BY <1>1, <1>2
  <2>8. \A b : BatchRows(b)' = BatchRows(b)
    BY DEF BatchRows
  <2> QED
    BY <1>1, <2>2, <2>3, <2>6, <2>7, <2>8 DEF RawInv
<1>10. CompleteInv'
  <2>1. SUFFICES ASSUME Truncated, failures = 0 PROVE CompleteInv'
    BY <1>1, <1>6 DEF CompleteInv
  <2>2. ASSUME NEW b \in Nat, b < nextBatch', b < numBatches
        PROVE  Busy(b)' \/ \A i \in BatchRows(b) : raw[i] = 1
    <3>1. CASE b < nextBatch
      BY <1>8, <2>1, <2>2, <3>1 DEF IInv, CompleteInv
    <3>2. CASE ~(b < nextBatch)
      <4>1. b = nextBatch
        BY <1>1, <1>2, <2>2, <3>2
      <4>2. worker'[w] = {nextBatch}
        BY <1>1, <1>2, <2>2, <4>1
      <4> QED
        BY <4>1, <4>2 DEF Busy
    <3> QED
      BY <3>1, <3>2
  <2> QED
    BY <1>1, <2>1, <2>2 DEF IInv, CompleteInv
<1>11. FilledInv'
  BY <1>1 DEF FilledInv, Filled
<1> QED
  BY <1>3, <1>5, <1>9, <1>10, <1>11 DEF IInv

-----------------------------------------------------------------------------
(* An insert ends: with the worker, or late.                               *)

LEMMA LandFacts ==
  ASSUME NEW b, raw \in [Rows -> Nat], \A i \in BatchRows(b) : raw[i] = 0,
         NEW t, t = InsertBatch(raw, b)
  PROVE  /\ \A i \in Rows : i \in BatchRows(b) => t[i] = 1
         /\ \A i \in Rows : i \notin BatchRows(b) => t[i] = raw[i]
<1>1. \A i \in Rows : t[i] = raw[i] + (IF i \in BatchRows(b) THEN 1 ELSE 0)
  BY DEF InsertBatch
<1>2. \A i \in Rows : raw[i] \in Nat
  OBVIOUS
<1> QED
  BY <1>1, <1>2

LEMMA InsertBatchType ==
  ASSUME NEW b, raw \in [Rows -> Nat]
  PROVE  InsertBatch(raw, b) \in [Rows -> Nat]
<1>1. \A i \in Rows : raw[i] + (IF i \in BatchRows(b) THEN 1 ELSE 0) \in Nat
  OBVIOUS
<1> QED
  BY <1>1 DEF InsertBatch

LEMMA RawKeeps ==
  ASSUME IInv, UNCHANGED <<main, skipLoad, nextBatch>>,
         NEW b \in Nat, Pending(b),
         raw' = raw \/ (raw' = InsertBatch(raw, b) /\ ~Pending(b)'),
         \A c \in Nat : Pending(c)' => Pending(c)
  PROVE  RawInv'
<1>1. SUFFICES ASSUME Truncated PROVE RawInv'
  BY DEF RawInv, Truncated
<1>2. \A c : BatchRows(c)' = BatchRows(c) /\ BatchRows(c) \subseteq Rows
  BY DEF BatchRows
<1>3. CASE raw' = raw
  BY <1>1, <1>2, <1>3 DEF IInv, RawInv
<1>4. CASE raw' = InsertBatch(raw, b) /\ ~Pending(b)'
  <2>1. raw \in [Rows -> Nat] /\ \A i \in BatchRows(b) : raw[i] = 0
    BY <1>1 DEF IInv, TypeInv, RawInv
  <2>2. /\ \A i \in Rows : i \in BatchRows(b) => raw'[i] = 1
        /\ \A i \in Rows : i \notin BatchRows(b) => raw'[i] = raw[i]
    BY <1>4, <2>1, LandFacts
  <2>3. \A i \in Rows : raw'[i] <= 1
    BY <1>1, <2>2 DEF IInv, RawInv
  <2>4. b < nextBatch
    BY DEF IInv, ClaimInv, Pending, Busy
  <2>5. \A i \in Rows : raw'[i] > 0 => \E c \in Nat : c < nextBatch /\ i \in BatchRows(c)
    BY <1>1, <2>2, <2>4 DEF IInv, RawInv
  <2>6. ASSUME NEW c \in Nat, Pending(c)', NEW i \in BatchRows(c)
        PROVE  raw'[i] = 0
    <3>1. c # b /\ Pending(c) /\ i \in Rows
      BY <1>2, <1>4, <2>6
    <3>2. i \notin BatchRows(b)
      BY <3>1, <2>6, BatchesDisjoint
    <3>3. raw[i] = 0
      BY <1>1, <2>6, <3>1 DEF IInv, RawInv
    <3> QED
      BY <2>2, <3>1, <3>2, <3>3
  <2> QED
    BY <1>2, <2>3, <2>5, <2>6 DEF RawInv
<1> QED
  BY <1>3, <1>4

LEMMA WorkerDone ==
  ASSUME IInv, NEW w \in Workers, NEW b \in worker[w], worker' = [worker EXCEPT ![w] = {}],
         UNCHANGED <<main, skipLoad, nextBatch, returned>>,
         lateInserts' = lateInserts \/ lateInserts' = lateInserts \cup {b}
  PROVE  /\ ClaimInv' /\ main = "load" /\ b \in Nat /\ b < nextBatch /\ b < numBatches
         /\ worker' \in [Workers -> SUBSET Nat] /\ ~Busy(b)' /\ b \notin lateInserts
         /\ \A c : Busy(c)' => Busy(c)
         /\ \A c : Busy(c) /\ c # b => Busy(c)'
<1>1. /\ main = "load" /\ worker[w] = {b} /\ b < nextBatch /\ b < numBatches /\ b \notin lateInserts
      /\ \A v \in Workers : v # w => b \notin worker[v]
  BY DEF IInv, ClaimInv
<1>2. worker \in [Workers -> SUBSET Nat] /\ b \in Nat
  BY DEF IInv, TypeInv
<1>3. worker'[w] = {} /\ \A v \in Workers : v # w => worker'[v] = worker[v]
  BY <1>2
<1>4. \A v \in Workers : worker'[v] \subseteq worker[v] /\ b \notin worker'[v]
  BY <1>1, <1>3
<1>5. \A v \in Workers : main # "load" \/ v \in returned => worker'[v] = {}
  BY <1>4 DEF IInv, ClaimInv
<1>6. \A v \in Workers : \A c \in worker'[v] :
        /\ worker'[v] = {c} /\ c < nextBatch /\ c < numBatches /\ c \notin lateInserts'
        /\ \A u \in Workers : u # v => c \notin worker'[u]
  <2>1. SUFFICES ASSUME NEW v \in Workers, NEW c \in worker'[v]
                 PROVE  /\ worker'[v] = {c} /\ c < nextBatch /\ c < numBatches /\ c \notin lateInserts'
                        /\ \A u \in Workers : u # v => c \notin worker'[u]
    OBVIOUS
  <2>2. v # w /\ c # b /\ c \in worker[v] /\ worker'[v] = worker[v]
    BY <1>3, <1>4
  <2>3. /\ worker[v] = {c} /\ c < nextBatch /\ c < numBatches /\ c \notin lateInserts
        /\ \A u \in Workers : u # v => c \notin worker[u]
    BY <2>2 DEF IInv, ClaimInv
  <2>4. \A u \in Workers : u # v => c \notin worker'[u]
    BY <1>4, <2>3
  <2> QED
    BY <2>2, <2>3, <2>4
<1>7. \A c \in lateInserts' : c < nextBatch
  BY <1>1 DEF IInv, ClaimInv
<1>8. ClaimInv'
  BY <1>1, <1>5, <1>6, <1>7 DEF IInv, ClaimInv, Loaded
<1>9. ~Busy(b)' /\ (\A c : Busy(c)' => Busy(c)) /\ \A c : Busy(c) /\ c # b => Busy(c)'
  BY <1>1, <1>3, <1>4 DEF Busy
<1> QED
  BY <1>1, <1>2, <1>8, <1>9

LEMMA InsertStoresKeeps ==
  ASSUME IInv, NEW w \in Workers, InsertStores(w)
  PROVE  IInv'
<1>1. PICK b \in worker[w] :
        /\ raw' = InsertBatch(raw, b)
        /\ inserted' = inserted + Cardinality(BatchRows(b))
        /\ worker' = [worker EXCEPT ![w] = {}]
        /\ UNCHANGED <<main, nextBatch, returned, failures, rollup, lateInserts, stale>>
        /\ UNCHANGED <<skipLoad, drawn, recompute, exact>>
  BY DEF InsertStores, verdict, input
<1>2. /\ ClaimInv' /\ main = "load" /\ b \in Nat /\ b < nextBatch /\ b < numBatches
      /\ worker' \in [Workers -> SUBSET Nat] /\ ~Busy(b)' /\ b \notin lateInserts
      /\ \A c : Busy(c)' => Busy(c)
      /\ \A c : Busy(c) /\ c # b => Busy(c)'
  BY <1>1, WorkerDone
<1>3. raw \in [Rows -> Nat] /\ inserted \in Nat
  BY DEF IInv, TypeInv
<1>4. TypeInv'
  <2>1. raw' \in [Rows -> Nat]
    BY <1>1, <1>3, InsertBatchType
  <2>2. inserted' \in Nat
    BY <1>1, <1>3, RowsAreFinite
  <2>3. Rows' = Rows
    BY DEF Rows
  <2> QED
    BY <1>1, <1>2, <2>1, <2>2, <2>3 DEF IInv, TypeInv
<1>5. RawInv'
  <2>1. Pending(b) /\ ~Pending(b)' /\ \A c \in Nat : Pending(c)' => Pending(c)
    BY <1>1, <1>2 DEF Pending, Busy
  <2> QED
    BY <1>1, <1>2, <2>1, RawKeeps
<1>6. CompleteInv'
  <2>1. SUFFICES ASSUME Truncated, failures = 0 PROVE CompleteInv'
    BY <1>1 DEF CompleteInv, Truncated
  <2>2. \A i \in BatchRows(b) : raw[i] = 0
    BY <1>2, <2>1 DEF IInv, RawInv, Pending, Busy
  <2>3. /\ \A i \in Rows : i \in BatchRows(b) => raw'[i] = 1
        /\ \A i \in Rows : i \notin BatchRows(b) => raw'[i] = raw[i]
    BY <1>1, <1>3, <2>2, LandFacts
  <2>4. ASSUME NEW c \in Nat, c < nextBatch, c < numBatches
        PROVE  Busy(c)' \/ \A i \in BatchRows(c) : raw'[i] = 1
    <3>1. CASE c = b
      BY <2>3, <3>1 DEF BatchRows
    <3>2. CASE c # b
      <4>1. Busy(c) \/ \A i \in BatchRows(c) : raw[i] = 1
        BY <2>1, <2>4 DEF IInv, CompleteInv
      <4>2. \A i \in BatchRows(c) : i \in Rows /\ i \notin BatchRows(b)
        BY <1>2, <2>4, <3>2, BatchesDisjoint DEF BatchRows
      <4> QED
        BY <1>2, <2>3, <3>2, <4>1, <4>2
    <3> QED
      BY <3>1, <3>2
  <2>5. inserted' = Cardinality({i \in Rows : raw'[i] > 0})
    <3> DEFINE In == {i \in Rows : raw[i] > 0}
    <3>1. {i \in Rows : raw'[i] > 0} = In \cup BatchRows(b)
      <4>1. \A i \in Rows : raw'[i] > 0 <=> (raw[i] > 0 \/ i \in BatchRows(b))
        BY <2>2, <2>3
      <4> QED
        BY <4>1 DEF BatchRows
    <3>2. In \cap BatchRows(b) = {}
      BY <2>2
    <3>3. In \subseteq Rows /\ inserted = Cardinality(In)
      BY <2>1 DEF IInv, CompleteInv
    <3> HIDE DEF In
    <3>4. IsFiniteSet(In) /\ IsFiniteSet(BatchRows(b)) /\ Cardinality(In) \in Nat /\ Cardinality(BatchRows(b)) \in Nat
      BY <3>3, RowsAreFinite, FS_Subset, FS_CardinalityType
    <3>5. Cardinality(In \cup BatchRows(b)) = Cardinality(In) + Cardinality(BatchRows(b)) - Cardinality({})
      BY <3>2, <3>4, FS_Union
    <3>6. Cardinality({}) = 0
      BY FS_EmptySet
    <3>7. Cardinality(In \cup BatchRows(b)) = Cardinality(In) + Cardinality(BatchRows(b))
      BY <3>4, <3>5, <3>6
    <3>8. inserted' = Cardinality(In \cup BatchRows(b))
      BY <1>1, <3>3, <3>7
    <3> QED
      BY <3>1, <3>8
  <2>6. lateInserts' = {}
    BY <1>1, <2>1 DEF IInv, CompleteInv
  <2>7. \A c : BatchRows(c)' = BatchRows(c)
    BY DEF BatchRows
  <2> QED
    BY <1>1, <2>4, <2>5, <2>6, <2>7 DEF CompleteInv
<1>7. FilledInv'
  BY <1>1, <1>2 DEF FilledInv, Filled
<1> QED
  BY <1>2, <1>4, <1>5, <1>6, <1>7 DEF IInv

LEMMA InsertFailsKeeps ==
  ASSUME IInv, NEW w \in Workers, InsertFails(w)
  PROVE  IInv'
<1>1. PICK b \in worker[w] :
        \/ raw' \in {raw, InsertBatch(raw, b)} /\ UNCHANGED lateInserts
        \/ lateInserts' = lateInserts \cup {b} /\ UNCHANGED raw
  BY DEF InsertFails
<1>2. /\ failures' = failures + 1 /\ worker' = [worker EXCEPT ![w] = {}]
      /\ UNCHANGED <<main, nextBatch, returned, inserted, rollup, stale>>
      /\ UNCHANGED <<skipLoad, drawn, recompute, exact>>
  BY DEF InsertFails, verdict, input
<1>3. /\ ClaimInv' /\ main = "load" /\ b \in Nat /\ b < nextBatch /\ b < numBatches
      /\ worker' \in [Workers -> SUBSET Nat] /\ ~Busy(b)' /\ b \notin lateInserts
      /\ \A c : Busy(c)' => Busy(c)
      /\ \A c : Busy(c) /\ c # b => Busy(c)'
  <2>1. lateInserts' = lateInserts \/ lateInserts' = lateInserts \cup {b}
    BY <1>1
  <2> QED
    BY <1>2, <2>1, WorkerDone
<1>4. TypeInv'
  <2>1. raw' \in [Rows -> Nat]
    BY <1>1, InsertBatchType DEF IInv, TypeInv
  <2>2. lateInserts' \in SUBSET Nat
    BY <1>1, <1>3 DEF IInv, TypeInv
  <2>3. failures' \in Nat
    BY <1>2 DEF IInv, TypeInv
  <2>4. Rows' = Rows
    BY DEF Rows
  <2> QED
    BY <1>2, <1>3, <2>1, <2>2, <2>3, <2>4 DEF IInv, TypeInv
<1>5. RawInv'
  <2>1. Pending(b)
    BY DEF Pending, Busy
  <2>2. \A c \in Nat : Pending(c)' => Pending(c)
    BY <1>1, <1>3, <2>1 DEF Pending
  <2>3. raw' = raw \/ (raw' = InsertBatch(raw, b) /\ ~Pending(b)')
    BY <1>1, <1>3 DEF Pending
  <2> QED
    BY <1>2, <1>3, <2>1, <2>2, <2>3, RawKeeps
<1>6. CompleteInv'
  <2>1. failures' # 0
    BY <1>2 DEF IInv, TypeInv
  <2> QED
    BY <2>1 DEF CompleteInv
<1>7. FilledInv'
  BY <1>2, <1>3 DEF FilledInv, Filled
<1> QED
  BY <1>3, <1>4, <1>5, <1>6, <1>7 DEF IInv

LEMMA InsertEndsLateKeeps ==
  ASSUME IInv, NEW b \in lateInserts, InsertEndsLate(b)
  PROVE  IInv'
<1>1. /\ raw' = InsertBatch(raw, b) /\ lateInserts' = lateInserts \ {b} /\ stale' = (stale \/ Filled)
      /\ UNCHANGED <<main, rollup, nextBatch, worker, returned, inserted, failures>>
      /\ UNCHANGED <<skipLoad, drawn, recompute, exact>>
  BY DEF InsertEndsLate, load, verdict, input
<1>2. b \in Nat
  BY DEF IInv, TypeInv
<1>3. TypeInv'
  <2>1. raw' \in [Rows -> Nat]
    BY <1>1, InsertBatchType DEF IInv, TypeInv
  <2>2. stale' \in BOOLEAN
    BY <1>1 DEF IInv, TypeInv, Filled
  <2>3. Rows' = Rows
    BY DEF Rows
  <2> QED
    BY <1>1, <2>1, <2>2, <2>3 DEF IInv, TypeInv
<1>4. ClaimInv'
  BY <1>1 DEF IInv, ClaimInv, Loaded
<1>5. RawInv'
  <2>1. ~Busy(b)
    BY DEF IInv, ClaimInv, Busy
  <2>2. Pending(b) /\ ~Pending(b)' /\ \A c \in Nat : Pending(c)' => Pending(c)
    BY <1>1, <2>1 DEF Pending, Busy
  <2> QED
    BY <1>1, <1>2, <2>2, RawKeeps
<1>6. CompleteInv'
  BY <1>1 DEF IInv, CompleteInv, Truncated
<1>7. FilledInv'
  BY <1>1 DEF IInv, FilledInv, Filled, Loaded
<1> QED
  BY <1>3, <1>4, <1>5, <1>6, <1>7 DEF IInv

-----------------------------------------------------------------------------
(* Main fills the rollup and compares.                                     *)

LEMMA LoadEndsKeeps ==
  ASSUME IInv, LoadEnds
  PROVE  IInv'
<1>1. /\ main = "load" /\ main' = "refresh" /\ returned = Workers
      /\ UNCHANGED <<raw, rollup, lateInserts, stale, nextBatch, worker, returned, inserted, failures>>
      /\ UNCHANGED <<skipLoad, drawn, recompute, exact>>
  BY DEF LoadEnds, tables, load, verdict, input
<1>2. TypeInv'
  BY <1>1 DEF IInv, TypeInv, Mains
<1>3. ClaimInv' /\ RawInv' /\ CompleteInv'
  BY <1>1, MainMoves
<1>4. FilledInv'
  BY <1>1 DEF FilledInv, Filled
<1> QED
  BY <1>2, <1>3, <1>4 DEF IInv

LEMMA RefreshTruncatesKeeps ==
  ASSUME IInv, RefreshTruncates
  PROVE  IInv'
<1>1. /\ main = "refresh" /\ main' = "fill" /\ rollup' = Empty
      /\ UNCHANGED <<raw, lateInserts, stale, nextBatch, worker, returned, inserted, failures>>
      /\ UNCHANGED <<skipLoad, drawn, recompute, exact>>
  BY DEF RefreshTruncates, load, verdict, input
<1>2. TypeInv'
  BY <1>1 DEF IInv, TypeInv, Mains, Empty
<1>3. skipLoad \/ returned = Workers
  BY <1>1 DEF IInv, ClaimInv, Loaded
<1>4. ClaimInv' /\ RawInv' /\ CompleteInv'
  BY <1>1, <1>3, MainMoves
<1>5. FilledInv'
  BY <1>1 DEF FilledInv, Filled, Empty
<1> QED
  BY <1>2, <1>4, <1>5 DEF IInv

LEMMA RefreshFillsKeeps ==
  ASSUME IInv, RefreshFills
  PROVE  IInv'
<1>1. /\ main = "fill" /\ main' = "recompute" /\ rollup' = [i \in Rows |-> rollup[i] + raw[i]]
      /\ UNCHANGED <<raw, lateInserts, stale, nextBatch, worker, returned, inserted, failures>>
      /\ UNCHANGED <<skipLoad, drawn, recompute, exact>>
  BY DEF RefreshFills, load, verdict, input
<1>2. rollup' = raw
  <2>1. raw \in [Rows -> Nat] /\ \A i \in Rows : rollup[i] = 0
    BY <1>1 DEF IInv, TypeInv, FilledInv, Empty
  <2>2. \A i \in Rows : rollup[i] + raw[i] = raw[i]
    BY <2>1
  <2>3. raw = [i \in Rows |-> raw[i]]
    BY <2>1
  <2> QED
    BY <1>1, <2>2, <2>3
<1>3. TypeInv'
  <2>1. rollup' \in [Rows -> Nat]
    BY <1>2 DEF IInv, TypeInv
  <2>2. Rows' = Rows
    BY DEF Rows
  <2> QED
    BY <1>1, <2>1, <2>2 DEF IInv, TypeInv, Mains
<1>4. skipLoad \/ returned = Workers
  BY <1>1 DEF IInv, ClaimInv, Loaded
<1>5. ClaimInv' /\ RawInv' /\ CompleteInv'
  BY <1>1, <1>4, MainMoves
<1>6. FilledInv'
  BY <1>1, <1>2 DEF FilledInv
<1> QED
  BY <1>3, <1>5, <1>6 DEF IInv

LEMMA RecomputeKeeps ==
  ASSUME IInv, RecomputeChannelStatusCounts
  PROVE  IInv'
<1>1. /\ main = "recompute" /\ main' = "compare"
      /\ recompute' = [g \in Groups |-> Count(raw, RowsIn(g))]
      /\ UNCHANGED <<raw, rollup, lateInserts, stale, nextBatch, worker, returned, inserted, failures>>
      /\ UNCHANGED <<skipLoad, drawn, exact>>
  BY DEF RecomputeChannelStatusCounts, tables, load, input
<1>2. TypeInv'
  BY <1>1 DEF IInv, TypeInv, Mains
<1>3. skipLoad \/ returned = Workers
  BY <1>1 DEF IInv, ClaimInv, Loaded
<1>4. ClaimInv' /\ RawInv' /\ CompleteInv'
  BY <1>1, <1>3, MainMoves
<1>5. [g \in Groups |-> Count(raw, RowsIn(g))]' = [g \in Groups |-> Count(raw, RowsIn(g))]
  <2>1. \A g : RowsIn(g)' = RowsIn(g)
    BY <1>1 DEF RowsIn, Rows
  <2> QED
    BY <1>1, <2>1
<1>6. Loaded' => Loaded
  BY <1>1 DEF Loaded
<1>7. FilledInv'
  BY <1>1, <1>5, <1>6 DEF IInv, FilledInv, Filled
<1> QED
  BY <1>2, <1>4, <1>7 DEF IInv

LEMMA CompareKeeps ==
  ASSUME IInv, Compare
  PROVE  IInv'
<1>1. /\ main = "compare" /\ main' = "done"
      /\ exact' = \A g \in Groups : recompute[g] > 0 => Count(rollup, RowsIn(g)) = recompute[g]
      /\ UNCHANGED <<raw, rollup, lateInserts, stale, nextBatch, worker, returned, inserted, failures>>
      /\ UNCHANGED <<skipLoad, drawn, recompute>>
  BY DEF Compare, tables, load, input
<1>2. TypeInv'
  BY <1>1 DEF IInv, TypeInv, Mains
<1>3. skipLoad \/ returned = Workers
  BY <1>1 DEF IInv, ClaimInv, Loaded
<1>4. ClaimInv' /\ RawInv' /\ CompleteInv'
  BY <1>1, <1>3, MainMoves
<1>5. [g \in Groups |-> Count(raw, RowsIn(g))]' = [g \in Groups |-> Count(raw, RowsIn(g))]
  <2>1. \A g : RowsIn(g)' = RowsIn(g)
    BY <1>1 DEF RowsIn, Rows
  <2> QED
    BY <1>1, <2>1
<1>6. (Loaded' => Loaded) /\ Filled
  BY <1>1 DEF Loaded, Filled
<1>7. Loaded /\ ~stale => rollup = raw /\ recompute = [g \in Groups |-> Count(raw, RowsIn(g))]
  BY <1>1, <1>6 DEF IInv, FilledInv
<1>8. Loaded /\ ~stale => exact'
  <2>1. SUFFICES ASSUME Loaded, ~stale PROVE exact'
    OBVIOUS
  <2>2. \A g \in Groups : Count(rollup, RowsIn(g)) = recompute[g]
    BY <1>7, <2>1
  <2> QED
    BY <1>1, <2>2
<1>9. FilledInv'
  BY <1>1, <1>5, <1>6, <1>7, <1>8 DEF FilledInv
<1> QED
  BY <1>2, <1>4, <1>9 DEF IInv

LEMMA FatalKeeps ==
  ASSUME IInv, Fatal
  PROVE  IInv'
<1>1. /\ main \notin {"load", "done", "fatal"} /\ main' = "fatal"
      /\ UNCHANGED <<raw, rollup, lateInserts, stale, nextBatch, worker, returned, inserted, failures>>
      /\ UNCHANGED <<skipLoad, drawn, recompute, exact>>
  BY DEF Fatal, tables, load, verdict, input
<1>2. TypeInv'
  BY <1>1 DEF IInv, TypeInv, Mains
<1>3. ClaimInv' /\ RawInv' /\ CompleteInv'
  BY <1>1, MainMoves
<1>4. FilledInv'
  BY <1>1 DEF FilledInv, Filled
<1> QED
  BY <1>2, <1>3, <1>4 DEF IInv

LEMMA NextKeeps ==
  ASSUME IInv, [Next]_vars
  PROVE  IInv'
<1>1. CASE UNCHANGED vars
  <2>1. UNCHANGED <<main, raw, rollup, lateInserts, stale, nextBatch, worker, returned, inserted,
                    failures, recompute, exact, skipLoad, drawn>>
    BY <1>1 DEF vars, tables, load, verdict, input
  <2>2. /\ (Truncated' <=> Truncated) /\ (Loaded' <=> Loaded) /\ (Filled' <=> Filled)
        /\ \A b : BatchRows(b)' = BatchRows(b) /\ (Busy(b)' <=> Busy(b)) /\ (Pending(b)' <=> Pending(b))
        /\ \A g : RowsIn(g)' = RowsIn(g)
    BY <2>1 DEF Truncated, Loaded, Filled, BatchRows, Busy, Pending, RowsIn, Rows
  <2>3. TypeInv' /\ ClaimInv'
    BY <2>1, <2>2 DEF IInv, TypeInv, ClaimInv
  <2>4. RawInv' /\ CompleteInv'
    BY <2>1, <2>2 DEF IInv, RawInv, CompleteInv
  <2>5. [g \in Groups |-> Count(raw, RowsIn(g))]' = [g \in Groups |-> Count(raw, RowsIn(g))]
    BY <2>1, <2>2
  <2>6. FilledInv'
    BY <2>1, <2>2, <2>5 DEF IInv, FilledInv, Empty
  <2> QED
    BY <2>3, <2>4, <2>6 DEF IInv
<1>2. CASE Next
  <2>1. ASSUME NEW w \in Workers, ClaimBatch(w) \/ InsertStores(w) \/ InsertFails(w)
        PROVE  IInv'
    BY <2>1, ClaimBatchKeeps, InsertStoresKeeps, InsertFailsKeeps
  <2>2. ASSUME NEW b \in lateInserts, InsertEndsLate(b)
        PROVE  IInv'
    BY <2>2, InsertEndsLateKeeps
  <2> QED
    BY <1>2, <2>1, <2>2, TruncateEventsKeeps, TruncateRollupKeeps, LoadEndsKeeps,
       RefreshTruncatesKeeps, RefreshFillsKeeps, RecomputeKeeps, CompareKeeps, FatalKeeps DEF Next
<1> QED
  BY <1>1, <1>2

LEMMA IInvHolds == Spec => []IInv
<1>1. Init => IInv
  BY InitIInv
<1>2. IInv /\ [Next]_vars => IInv'
  BY NextKeeps
<1> QED
  BY <1>1, <1>2, PTL DEF Spec

\* Workers that share a counter load every row once, and none twice, however
\* their steps interleave and whatever an earlier run left (main's insert
\* workers).  There has to be a worker: with -insert-workers 0 main goes on
\* with nothing loaded.
THEOREM LoadedOnceHolds ==
  ASSUME Workers # {}
  PROVE  Spec => []LoadedOnce
<1>1. ASSUME IInv PROVE LoadedOnce
  <2>1. SUFFICES ASSUME Loaded PROVE LoadedOnce
    BY DEF LoadedOnce
  <2>2. Truncated
    BY <2>1 DEF Loaded, Truncated
  <2>3. \A i \in Rows : raw[i] <= 1
    BY <1>1, <2>2 DEF IInv, RawInv
  <2>4. ASSUME main # "load", failures = 0
        PROVE  inserted = Total /\ \A i \in Rows : raw[i] = 1
    <3>1. numBatches \in Nat /\ nextBatch \in Nat /\ nextBatch >= numBatches
      BY <1>1, <2>1, <2>4, BatchesAreFinite DEF IInv, TypeInv, ClaimInv
    <3>2. \A b \in Nat : ~Busy(b)
      BY <1>1, <2>4 DEF IInv, ClaimInv, Busy
    <3>3. ASSUME NEW i \in Rows PROVE raw[i] = 1
      <4>1. PICK b \in Nat : b < numBatches /\ i \in BatchRows(b)
        BY RowsCovered
      <4>2. b < nextBatch
        BY <3>1, <4>1
      <4> QED
        BY <1>1, <2>2, <2>4, <3>2, <4>1, <4>2 DEF IInv, CompleteInv
    <3>4. {i \in Rows : raw[i] > 0} = Rows
      BY <3>3
    <3> QED
      BY <1>1, <2>2, <2>4, <3>3, <3>4, RowsAreFinite DEF IInv, CompleteInv
  <2> QED
    BY <2>3, <2>4 DEF LoadedOnce
<1> QED
  BY <1>1, IInvHolds, PTL

\* The word "exact" that the program prints after a load is the truth about
\* both tables, groups it never compared included (main's comparison), for any
\* rows, failures and order of the inserts the store ends late.
THEOREM ExactAfterLoadHolds == Spec => []ExactAfterLoad
<1>1. ASSUME IInv PROVE ExactAfterLoad
  <2>1. SUFFICES ASSUME Loaded, main = "done", ~stale
                 PROVE  exact /\ \A g \in Groups : Count(rollup, RowsIn(g)) = Count(raw, RowsIn(g))
    BY DEF ExactAfterLoad
  <2>2. exact /\ rollup = raw
    BY <1>1, <2>1 DEF IInv, FilledInv, Filled
  <2> QED
    BY <2>2
<1> QED
  BY <1>1, IInvHolds, PTL

\* For every whole minute of the window the dashboard reads the same numbers
\* from the rollup as from the raw log (the two queries of the store), whatever
\* the times, the windows and the way the minutes cut them.
THEOREM WholeMinutesAgreeHolds == Spec => []WholeMinutesAgree
<1>1. ASSUME IInv PROVE WholeMinutesAgree
  <2>1. SUFFICES ASSUME Loaded, main = "done", ~stale, NEW m \in Minutes, NEW g \in Groups,
                        m >= windowStart
                 PROVE  Count(rollup, RowsOf(m, g)) = DashboardRawQuery(m, g)
    BY DEF WholeMinutesAgree, DashboardRollupQuery
  <2>2. rollup = raw /\ \A i \in Rows : raw[i] \in 0 .. 1
    <3>1. rollup = raw
      BY <1>1, <2>1 DEF IInv, FilledInv, Filled
    <3>2. \A i \in Rows : raw[i] \in Nat /\ raw[i] <= 1
      BY <1>1, <2>1 DEF IInv, TypeInv, RawInv, Loaded, Truncated
    <3> QED
      BY <3>1, <3>2
  <2>3. RowsOf(m, g) \subseteq Rows /\ IsFiniteSet(RowsOf(m, g))
    BY RowsAreFinite, FS_Subset DEF RowsOf, RowsIn
  <2>4. \A i \in RowsOf(m, g) : drawn[i][2] >= windowStart
    <3>1. SUFFICES ASSUME NEW i \in RowsOf(m, g) PROVE drawn[i][2] >= windowStart
      OBVIOUS
    <3>2. drawn[i][2] \in Nat
      <4>1. drawn[i] \in Drawn
        BY <1>1, <2>3 DEF IInv, TypeInv
      <4>2. PICK h \in Groups, t \in Stamps : drawn[i] = <<h, t>>
        BY <4>1, ScaleAssumption
      <4> QED
        BY <4>2, ScaleAssumption
    <3> DEFINE d == drawn[i][2]
    <3>3. m = (d \div Steps) * Steps
      BY DEF RowsOf, toStartOfMinute
    <3> HIDE DEF d
    <3>4. d \in Nat /\ Steps \in Nat \ {0} /\ windowStart \in Nat
      BY <3>2, ScaleAssumption DEF d
    <3>5. d \div Steps \in Nat /\ m <= d
      BY <3>3, <3>4, DivisionBounds
    <3>6. m \in Nat
      BY <3>3, <3>4, <3>5
    <3>7. d >= windowStart
      BY <2>1, <3>4, <3>5, <3>6
    <3> QED
      BY <3>7 DEF d
  <2>5. {i \in RowsOf(m, g) : raw[i] > 0 /\ drawn[i][2] >= windowStart} = {i \in RowsOf(m, g) : raw[i] > 0}
    BY <2>4
  <2>6. Count(raw, RowsOf(m, g)) = Cardinality({i \in RowsOf(m, g) : raw[i] > 0})
    BY <2>2, <2>3, CountMarks
  <2> QED
    BY <2>2, <2>5, <2>6 DEF DashboardRawQuery
<1> QED
  BY <1>1, IInvHolds, PTL

=============================================================================
