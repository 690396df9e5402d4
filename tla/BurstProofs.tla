----------------------------- MODULE BurstProofs ------------------------------
(***************************************************************************)
(* The burst benchmark, for any number of workers, webhooks and partitions *)
(* and any capacity: what a lag of zero says about the webhooks accepted,  *)
(* and what is still missing from the table when the benchmark ends.       *)
(***************************************************************************)
EXTENDS Burst, PipelineProofs

-----------------------------------------------------------------------------
(* Sums over a finite set, as MapThenSumSet adds them up.                  *)

\* Induction on finite sets, by a least counterexample.
LEMMA LeastSubset ==
  ASSUME NEW S, IsFiniteSet(S), NEW T, T \subseteq SUBSET S, T # {}
  PROVE  \E x \in T : \A y \in T : y \subseteq x => y = x
<1>1. IsWellFoundedOn(StrictSubsetOrdering(S), SUBSET S)
  BY FS_StrictSubsetOrderingWellFounded, FS_FiniteSubsetsOfFinite
<1>2. PICK x \in T : \A y \in T : ~(<<y, x>> \in StrictSubsetOrdering(S))
  BY <1>1, WFMin
<1> QED
  BY <1>2 DEF StrictSubsetOrdering

Total(t, S) == MapThenSumSet(LAMBDA i : t[i], S)

First(s) == CHOOSE x \in s : TRUE

\* g adds up t over the subsets of S, one element after the other.
Sums(t, S, g) ==
  g = [s \in SUBSET S |-> IF s = {} THEN 0 ELSE t[First(s)] + g[s \ {First(s)}]]

LEMMA SumsAt ==
  ASSUME NEW t, NEW S, NEW g, Sums(t, S, g), NEW s \in SUBSET S
  PROVE  /\ g[s] = IF s = {} THEN 0 ELSE t[First(s)] + g[s \ {First(s)}]
         /\ s # {} => First(s) \in s /\ s \ {First(s)} \in SUBSET S /\ s \ {First(s)} # s
<1>1. g[s] = IF s = {} THEN 0 ELSE t[First(s)] + g[s \ {First(s)}]
  BY DEF Sums
<1>2. s # {} => First(s) \in s
  BY DEF First
<1> QED
  BY <1>1, <1>2

\* Two such functions agree where both are defined.
LEMMA SumsAgree ==
  ASSUME NEW t, NEW S, IsFiniteSet(S), NEW T \in SUBSET S,
         NEW g, Sums(t, S, g), NEW h, Sums(t, T, h)
  PROVE  \A s \in SUBSET T : g[s] = h[s]
<1> DEFINE Bad == {s \in SUBSET T : g[s] # h[s]}
<1>1. SUFFICES ASSUME Bad # {} PROVE FALSE
  OBVIOUS
<1>2. IsFiniteSet(T) /\ Bad \subseteq SUBSET T
  BY FS_Subset
<1>3. PICK s \in Bad : \A y \in Bad : y \subseteq s => y = s
  <2> HIDE DEF Bad
  <2> QED
    BY <1>1, <1>2, LeastSubset
<1>4. s \in SUBSET T /\ s \in SUBSET S /\ g[s] # h[s]
  OBVIOUS
<1>5. /\ g[s] = IF s = {} THEN 0 ELSE t[First(s)] + g[s \ {First(s)}]
      /\ h[s] = IF s = {} THEN 0 ELSE t[First(s)] + h[s \ {First(s)}]
      /\ s # {} => First(s) \in s /\ s \ {First(s)} # s
  <2> HIDE DEF Bad
  <2>1. /\ g[s] = IF s = {} THEN 0 ELSE t[First(s)] + g[s \ {First(s)}]
        /\ s # {} => First(s) \in s /\ s \ {First(s)} # s
    BY <1>4, SumsAt
  <2>2. h[s] = IF s = {} THEN 0 ELSE t[First(s)] + h[s \ {First(s)}]
    BY <1>4, SumsAt
  <2> QED
    BY <2>1, <2>2
<1>6. s # {} /\ s \ {First(s)} \in SUBSET T /\ g[s \ {First(s)}] # h[s \ {First(s)}]
  BY <1>4, <1>5
<1> QED
  BY <1>3, <1>5, <1>6

LEMMA SumsExist ==
  ASSUME NEW t, NEW S, IsFiniteSet(S)
  PROVE  \E g : Sums(t, S, g)
<1> DEFINE Bad == {T \in SUBSET S : ~\E g : Sums(t, T, g)}
<1>1. SUFFICES ASSUME Bad # {} PROVE FALSE
  OBVIOUS
<1>2. Bad \subseteq SUBSET S
  OBVIOUS
<1>3. PICK T \in Bad : \A y \in Bad : y \subseteq T => y = T
  <2> HIDE DEF Bad
  <2> QED
    BY <1>1, <1>2, LeastSubset
<1>4. T \in SUBSET S /\ ~\E g : Sums(t, T, g)
  OBVIOUS
<1> DEFINE G(U) == CHOOSE g : Sums(t, U, g)
<1>5. \A U \in SUBSET T : U # T => Sums(t, U, G(U)) /\ IsFiniteSet(U)
  <2>1. SUFFICES ASSUME NEW U \in SUBSET T, U # T PROVE Sums(t, U, G(U)) /\ IsFiniteSet(U)
    OBVIOUS
  <2>2. U \in SUBSET S /\ U \notin Bad
    BY <1>3, <1>4, <2>1
  <2>3. \E g : Sums(t, U, g)
    BY <2>2
  <2> QED
    BY <2>2, <2>3, FS_Subset
<1> HIDE DEF G, Bad
<1> DEFINE h == [s \in SUBSET T |-> IF s = {} THEN 0 ELSE t[First(s)] + G(s \ {First(s)})[s \ {First(s)}]]
<1>6. ASSUME NEW r \in SUBSET T, r # T PROVE h[r] = G(r)[r]
  <2>1. G(r)[r] = IF r = {} THEN 0 ELSE t[First(r)] + G(r)[r \ {First(r)}]
    BY <1>5, <1>6, SumsAt
  <2>2. h[r] = IF r = {} THEN 0 ELSE t[First(r)] + G(r \ {First(r)})[r \ {First(r)}]
    OBVIOUS
  <2> HIDE DEF h
  <2>3. CASE r = {}
    BY <2>1, <2>2, <2>3
  <2>4. CASE r # {}
    <3> DEFINE q == r \ {First(r)}
    <3>1. First(r) \in r
      BY <2>4 DEF First
    <3>2. q \in SUBSET r /\ q \in SUBSET T /\ q # T
      BY <3>1
    <3> HIDE DEF q
    <3>3. \A s \in SUBSET q : G(r)[s] = G(q)[s]
      BY <1>5, <1>6, <3>2, SumsAgree
    <3>4. G(r)[q] = G(q)[q]
      BY <3>3
    <3> QED
      BY <2>1, <2>2, <2>4, <3>4 DEF q
  <2> QED
    BY <2>3, <2>4
<1>7. h = [s \in SUBSET T |-> IF s = {} THEN 0 ELSE t[First(s)] + h[s \ {First(s)}]]
  <2>1. ASSUME NEW s \in SUBSET T, s # {}
        PROVE  h[s] = t[First(s)] + h[s \ {First(s)}]
    <3>1. h[s] = t[First(s)] + G(s \ {First(s)})[s \ {First(s)}]
      BY <2>1
    <3> HIDE DEF h
    <3>2. First(s) \in s
      BY <2>1 DEF First
    <3>3. s \ {First(s)} \in SUBSET T /\ s \ {First(s)} # T
      BY <3>2
    <3> QED
      BY <1>6, <3>1, <3>3
  <2>2. h[{}] = 0
    OBVIOUS
  <2>3. h = [s \in SUBSET T |-> h[s]]
    OBVIOUS
  <2> HIDE DEF h
  <2>4. \A s \in SUBSET T : h[s] = IF s = {} THEN 0 ELSE t[First(s)] + h[s \ {First(s)}]
    BY <2>1, <2>2
  <2> QED
    BY <2>3, <2>4
<1> HIDE DEF h
<1> QED
  BY <1>4, <1>7 DEF Sums

LEMMA TotalIs ==
  ASSUME NEW t, NEW S, IsFiniteSet(S)
  PROVE  \E g : Sums(t, S, g) /\ Total(t, S) = g[S]
<1>1. Total(t, S) = (CHOOSE g : Sums(t, S, g))[S]
  BY DEF Total, MapThenSumSet, MapThenFoldSet, Sums, First
<1>2. Sums(t, S, CHOOSE g : Sums(t, S, g))
  BY SumsExist
<1> QED
  BY <1>1, <1>2

\* A sum of numbers is a number, and zero only if all of them are.
LEMMA SumsOfNumbers ==
  ASSUME NEW t, NEW S, IsFiniteSet(S), \A i \in S : t[i] \in Nat, NEW g, Sums(t, S, g)
  PROVE  g[S] \in Nat /\ (g[S] = 0 => \A i \in S : t[i] = 0)
<1> DEFINE Fits(s) == g[s] \in Nat /\ (g[s] = 0 => \A i \in s : t[i] = 0)
           Bad == {s \in SUBSET S : ~Fits(s)}
<1>2. SUFFICES ASSUME Bad # {} PROVE FALSE
  OBVIOUS
<1>3. Bad \subseteq SUBSET S
  OBVIOUS
<1>4. PICK s \in Bad : \A y \in Bad : y \subseteq s => y = s
  <2> HIDE DEF Bad
  <2> QED
    BY <1>2, <1>3, LeastSubset
<1>5. s \in SUBSET S /\ ~Fits(s)
  OBVIOUS
<1> DEFINE x == First(s)
           r == s \ {x}
<1>6. /\ g[s] = IF s = {} THEN 0 ELSE t[x] + g[r]
      /\ s # {} => x \in s /\ r \in SUBSET S /\ r # s
  <2> HIDE DEF Bad, Fits
  <2> QED
    BY <1>5, SumsAt
<1>7. s # {}
  BY <1>5, <1>6
<1>8. Fits(r)
  <2>1. r \notin Bad
    <3> HIDE DEF Bad, Fits
    <3> QED
      BY <1>4, <1>6, <1>7
  <2> QED
    BY <1>6, <1>7, <2>1
<1> HIDE DEF Bad, x
<1>9. t[x] \in Nat /\ g[r] \in Nat /\ g[s] = t[x] + g[r] /\ s = r \cup {x}
  BY <1>5, <1>6, <1>7, <1>8
<1>10. g[s] \in Nat /\ (g[s] = 0 => t[x] = 0 /\ g[r] = 0)
  BY <1>9
<1>11. g[s] = 0 => \A i \in s : t[i] = 0
  BY <1>8, <1>9, <1>10
<1> QED
  BY <1>5, <1>10, <1>11

LEMMA TotalIsNumber ==
  ASSUME NEW t, NEW S, IsFiniteSet(S), \A i \in S : t[i] \in Nat
  PROVE  Total(t, S) \in Nat
BY TotalIs, SumsOfNumbers

LEMMA TotalOfZeros ==
  ASSUME NEW t, NEW S, IsFiniteSet(S), \A i \in S : t[i] = 0
  PROVE  Total(t, S) = 0
<1>1. PICK g : Sums(t, S, g) /\ Total(t, S) = g[S]
  BY TotalIs
<1> DEFINE Bad == {s \in SUBSET S : g[s] # 0}
<1>2. SUFFICES ASSUME Bad # {} PROVE FALSE
  BY <1>1
<1>3. Bad \subseteq SUBSET S
  OBVIOUS
<1>4. PICK s \in Bad : \A y \in Bad : y \subseteq s => y = s
  <2> HIDE DEF Bad
  <2> QED
    BY <1>2, <1>3, LeastSubset
<1>5. s \in SUBSET S /\ g[s] # 0
  OBVIOUS
<1> DEFINE x == First(s)
           r == s \ {x}
<1>6. /\ g[s] = IF s = {} THEN 0 ELSE t[x] + g[r]
      /\ s # {} => x \in s /\ r \in SUBSET S /\ r # s
  <2> HIDE DEF Bad
  <2> QED
    BY <1>1, <1>5, SumsAt
<1>7. s # {} /\ g[r] = 0
  BY <1>4, <1>5, <1>6
<1>8. t[x] = 0
  BY <1>5, <1>6, <1>7
<1> QED
  BY <1>5, <1>6, <1>7, <1>8

\* Every message of a sequence is counted for one id.
LEMMA TotalPlus ==
  ASSUME NEW q \in Seq(Ids), rows \in [Ids -> Nat]
  PROVE  Total(Plus(rows, q), Ids) = Total(rows, Ids) + Len(q)
<1> DEFINE n == Plus(rows, q)
           Of(s) == {k \in DOMAIN q : q[k] \in s}
<1>1. PICK g : Sums(rows, Ids, g) /\ Total(rows, Ids) = g[Ids]
  BY TotalIs, BurstAssumption
<1>2. PICK h : Sums(n, Ids, h) /\ Total(n, Ids) = h[Ids]
  BY TotalIs, BurstAssumption
<1>2a. Sums(n, Ids, h)
  BY <1>2
<1>2b. \A s \in SUBSET Ids : h[s] = IF s = {} THEN 0 ELSE n[First(s)] + h[s \ {First(s)}]
  <2> HIDE DEF n, Of
  <2>1. h = [s \in SUBSET Ids |-> IF s = {} THEN 0 ELSE n[First(s)] + h[s \ {First(s)}]]
    BY <1>2a DEF Sums
  <2> QED
    BY <2>1
<1>3. \A i \in Ids : CountIn(q, i) \in Nat
  BY CountInIsCountAfter
<1>4. \A i \in Ids : n[i] = rows[i] + CountIn(q, i)
  BY DEF Plus
<1> HIDE DEF n
<1>5. \A s : IsFiniteSet(Of(s)) /\ Cardinality(Of(s)) \in Nat
  <2>1. IsFiniteSet(1 .. Len(q))
    BY FS_Interval
  <2>2. \A s : Of(s) \in SUBSET (1 .. Len(q))
    OBVIOUS
  <2> HIDE DEF Of
  <2> QED
    BY <2>1, <2>2, FS_Subset, FS_CardinalityType
<1>6. ASSUME NEW s \in SUBSET Ids, NEW x \in s
      PROVE  Cardinality(Of(s)) = Cardinality(Of(s \ {x})) + CountIn(q, x)
  <2> DEFINE r == Of(s \ {x})
             c == {k \in DOMAIN q : q[k] = x}
  <2>1. Of(s) = r \cup c /\ r \cap c = {}
    OBVIOUS
  <2>2. c = Of({x}) /\ CountIn(q, x) = Cardinality(c)
    BY DEF CountIn
  <2> HIDE DEF c, r
  <2>3. IsFiniteSet(r) /\ IsFiniteSet(c) /\ Cardinality(r) \in Nat /\ Cardinality(c) \in Nat
    <3> HIDE DEF Of
    <3> QED
      BY <1>5, <2>2 DEF r
  <2>4. Cardinality(r \cup c) = Cardinality(r) + Cardinality(c) - Cardinality({})
    BY <2>1, <2>3, FS_Union
  <2>5. Cardinality({}) = 0
    BY FS_EmptySet
  <2>6. Cardinality(r \cup c) = Cardinality(r) + Cardinality(c)
    BY <2>3, <2>4, <2>5
  <2> QED
    BY <2>1, <2>2, <2>6 DEF r
<1> DEFINE Fits(s) == g[s] \in Int /\ h[s] = g[s] + Cardinality(Of(s))
           Bad == {s \in SUBSET Ids : ~Fits(s)}
<1>7. ASSUME Bad # {} PROVE FALSE
  <2>1. Bad \subseteq SUBSET Ids /\ IsFiniteSet(Ids)
    BY BurstAssumption
  <2>2. PICK s \in Bad : \A y \in Bad : y \subseteq s => y = s
    <3> HIDE DEF Bad
    <3> QED
      BY <1>7, <2>1, LeastSubset
  <2>3. s \in SUBSET Ids /\ ~Fits(s)
    OBVIOUS
  <2> DEFINE x == First(s)
             r == s \ {x}
  <2>4. /\ g[s] = IF s = {} THEN 0 ELSE rows[x] + g[r]
        /\ s # {} => x \in s /\ r \in SUBSET Ids /\ r # s
    <3> HIDE DEF Bad, Fits
    <3> QED
      BY <1>1, <2>3, SumsAt
  <2>5. h[s] = IF s = {} THEN 0 ELSE n[x] + h[r]
    <3> HIDE DEF Bad, Fits, x, r
    <3>1. h[s] = IF s = {} THEN 0 ELSE n[First(s)] + h[s \ {First(s)}]
      BY <1>2b, <2>3
    <3> QED
      BY <3>1 DEF x, r
  <2>6. Cardinality(Of({})) = 0
    <3>1. Of({}) = {}
      OBVIOUS
    <3> QED
      BY <3>1, FS_EmptySet
  <2>7. s # {}
    <3>1. SUFFICES ASSUME s = {} PROVE FALSE
      OBVIOUS
    <3> HIDE DEF Of, Bad, x, r
    <3>2. g[s] = 0 /\ h[s] = 0 /\ Cardinality(Of(s)) = 0
      BY <2>4, <2>5, <2>6, <3>1
    <3>3. Fits(s)
      BY <3>2
    <3> QED
      BY <2>3, <3>3
  <2>8. Fits(r)
    <3>1. r \notin Bad
      <4> HIDE DEF Bad, Fits
      <4> QED
        BY <2>2, <2>4, <2>7
    <3> QED
      BY <2>4, <2>7, <3>1
  <2> HIDE DEF Bad, Of
  <2>9. x \in s /\ x \in Ids
    BY <2>3, <2>4, <2>7
  <2>10. Cardinality(Of(s)) = Cardinality(Of(r)) + CountIn(q, x)
    BY <1>6, <2>3, <2>9
  <2> HIDE DEF x, r
  <2>11. /\ g[s] = rows[x] + g[r] /\ h[s] = n[x] + h[r] /\ n[x] = rows[x] + CountIn(q, x)
         /\ rows[x] \in Nat /\ CountIn(q, x) \in Nat /\ Cardinality(Of(r)) \in Nat
         /\ g[r] \in Int /\ h[r] = g[r] + Cardinality(Of(r))
    BY <1>3, <1>4, <1>5, <2>4, <2>5, <2>7, <2>8, <2>9
  <2>12. Fits(s)
    BY <2>10, <2>11
  <2> QED
    BY <2>3, <2>12
<1>8. Fits(Ids)
  BY <1>7
<1>9. Cardinality(Of(Ids)) = Len(q)
  <2>1. Of(Ids) = 1 .. Len(q)
    OBVIOUS
  <2>2. Cardinality(1 .. Len(q)) = Len(q)
    <3> DEFINE n0 == Len(q)
    <3>1. n0 \in Nat
      OBVIOUS
    <3> HIDE DEF n0
    <3>2. Cardinality(1 .. n0) = n0
      BY <3>1, FS_Interval
    <3> QED
      BY <3>2 DEF n0
  <2> QED
    BY <2>1, <2>2
<1> HIDE DEF Of
<1> QED
  BY <1>1, <1>2, <1>8, <1>9 DEF n

\* What main computes as its lag.
LEMMA LagFacts ==
  ASSUME bounds \in [Partitions -> Int], offset \in [Partitions -> Nat]
  PROVE  Lag \in Nat /\ (Lag = 0 => \A p \in Partitions : bounds[p] <= CurrentOffsets(p))
<1> DEFINE lag(p) == Max({0, bounds[p] - CurrentOffsets(p)})
           t == [p \in Partitions |-> lag(p)]
           D(g) == g = [s \in SUBSET Partitions |-> IF s = {} THEN 0 ELSE lag(First(s)) + g[s \ {First(s)}]]
<1>1. Lag = (CHOOSE g : D(g))[Partitions]
  BY DEF Lag, MapThenSumSet, MapThenFoldSet, First
<1>2. ASSUME NEW p \in Partitions
      PROVE  lag(p) \in Nat /\ (lag(p) = 0 => bounds[p] <= CurrentOffsets(p))
  <2> DEFINE d == bounds[p] - CurrentOffsets(p)
  <2>1. bounds[p] \in Int /\ CurrentOffsets(p) \in Int
    BY DEF CurrentOffsets, FirstOffset
  <2>2. d \in Int /\ (d <= 0 => bounds[p] <= CurrentOffsets(p))
    BY <2>1
  <2> HIDE DEF d
  <2>3. Max({0, d}) \in {0, d} /\ Max({0, d}) >= 0 /\ Max({0, d}) >= d
    <3>1. \E m \in {0, d} : \A n \in {0, d} : m >= n
      BY <2>2
    <3> QED
      BY <3>1 DEF Max
  <2>4. Max({0, d}) \in Nat /\ (Max({0, d}) = 0 => d <= 0)
    BY <2>2, <2>3
  <2> QED
    BY <2>2, <2>4 DEF d
<1> HIDE DEF lag
<1>3. ASSUME NEW g PROVE D(g) <=> Sums(t, Partitions, g)
  <2>1. ASSUME NEW s \in SUBSET Partitions
        PROVE  (IF s = {} THEN 0 ELSE lag(First(s)) + g[s \ {First(s)}])
                 = IF s = {} THEN 0 ELSE t[First(s)] + g[s \ {First(s)}]
    <3>1. s # {} => First(s) \in Partitions
      BY DEF First
    <3> QED
      BY <3>1
  <2>2. [s \in SUBSET Partitions |-> IF s = {} THEN 0 ELSE lag(First(s)) + g[s \ {First(s)}]]
          = [s \in SUBSET Partitions |-> IF s = {} THEN 0 ELSE t[First(s)] + g[s \ {First(s)}]]
    BY <2>1
  <2> HIDE DEF t
  <2> QED
    BY <2>2 DEF Sums
<1>4. \E g : D(g)
  <2>1. \E g : Sums(t, Partitions, g)
    BY SumsExist, BurstAssumption
  <2> HIDE DEF D, t
  <2> QED
    BY <1>3, <2>1
<1> DEFINE g0 == CHOOSE g : D(g)
<1>5. Sums(t, Partitions, g0)
  <2> HIDE DEF D, t
  <2>1. D(g0)
    BY <1>4
  <2> QED
    BY <1>3, <2>1
<1>6. \A p \in Partitions : t[p] \in Nat /\ (t[p] = 0 => bounds[p] <= CurrentOffsets(p))
  BY <1>2
<1>7. IsFiniteSet(Partitions)
  BY BurstAssumption
<1> HIDE DEF g0, t
<1>8. g0[Partitions] \in Nat /\ (g0[Partitions] = 0 => \A p \in Partitions : t[p] = 0)
  BY <1>5, <1>6, <1>7, SumsOfNumbers
<1> QED
  BY <1>1, <1>6, <1>8 DEF g0

-----------------------------------------------------------------------------
(* The inductive invariant.                                                *)

BurstTypes ==
  /\ main \in {"baseline", "burst", "drain", "cancelled", "done"}
  /\ posted \in Nat /\ returned \in SUBSET Senders
  /\ consumer \in {"runs", "stops"} /\ consumed \in Nat
  /\ bounds \in [Partitions -> Int] /\ finalLag \in Int

\* A webhook is sent once: it is unsent, with a worker, or answered, and only
\* one the edge failed is left to the writer.
PostInv ==
  /\ \A i \in Ids : i > posted => ~InCall(i) /\ late[i] = 0 /\ answers[i] = {}
  /\ \A s \in Senders : \A i \in call[s] :
       late[i] = 0 /\ answers[i] = {} /\ \A t \in Senders : t # s => i \notin call[t]
  /\ \A i \in Accepted : late[i] = 0 /\ ~InCall(i) /\ answers[i] = {"accepted"}

\* The barrier: no worker is still sending once main asks for the lag.
SendingInv == \A s \in Senders : ~Sending \/ s \in returned => call[s] = {}

\* A reader that holds a message runs; the consumer stops with an empty batch.
EndsInv ==
  /\ \A p \in Partitions : hand[p] # << >> => alive[p]
  /\ consumer = "stops" => Cancelled /\ chBatch = << >>
  /\ main = "done" => consumerDone

ReadOff(i) == \A n \in CopiesOf(i) : n <= offset[Home[i]]

\* A bound that main was told covers what was accepted, and a lag of zero
\* means that all of that was read.
LagInv ==
  /\ Sending => bounds = NoBounds /\ finalLag # 0
  /\ \A p \in Partitions : bounds[p] # NotAsked =>
       bounds[p] >= 0 /\ \A i \in Accepted : Home[i] = p => \A n \in CopiesOf(i) : n <= bounds[p]
  /\ finalLag = 0 => \A i \in Accepted : ReadOff(i)

\* Until the consumer is cancelled nothing is dropped.
LedgerInv ==
  "insert" \notin failed /\ ~Cancelled => \A i \in Ids : Ledger(i) = InTopic(i)

\* After that a reader drops at most the message it holds.
Missing(i) == rows[i] = 0 /\ InFlight(i) = 0
MissingInv ==
  "insert" \notin failed /\ Cancelled /\ finalLag = 0 =>
    /\ \A i \in Accepted : Missing(i) => ~alive[Home[i]]
    /\ \A i, j \in Accepted : Missing(i) /\ Missing(j) /\ Home[i] = Home[j] => i = j

\* The counter is ahead of the table by the batches on their way there.
ConsumedInv ==
  "insert" \notin failed => Total(rows, Ids) + Len(inserting) + Len(chBatch) = consumed

IInv ==
  /\ EdgeInv /\ EdgeData /\ ConsumerInv /\ BurstTypes
  /\ PostInv /\ SendingInv /\ EndsInv /\ LagInv /\ LedgerInv /\ MissingInv /\ ConsumedInv

-----------------------------------------------------------------------------
(* The workers and the edge.                                               *)

EdgePart == (\E s \in Senders : WorkerPosts(s) \/ WorkerAnswered(s)) \/ Writer

LEMMA EdgePartFrame ==
  ASSUME EdgePart
  PROVE  EdgeNext /\ UNCHANGED <<consumerVars, drainVars, main, returned, consumer, consumed>>
<1>1. ASSUME NEW s \in Senders, WorkerPosts(s)
      PROVE  EdgeNext /\ UNCHANGED <<consumerVars, drainVars, main, returned, consumer, consumed>>
  BY <1>1 DEF WorkerPosts, EdgeNext
<1>2. ASSUME NEW s \in Senders, WorkerAnswered(s)
      PROVE  EdgeNext /\ UNCHANGED <<consumerVars, drainVars, main, returned, consumer, consumed>>
  BY <1>2 DEF WorkerAnswered, EdgeNext
<1>3. ASSUME Writer
      PROVE  EdgeNext /\ UNCHANGED <<consumerVars, drainVars, main, returned, consumer, consumed>>
  BY <1>3 DEF Writer, benchVars, EdgeNext
<1> QED
  BY <1>1, <1>2, <1>3 DEF EdgePart

LEMMA OtherPartFrame ==
  [Next]_vars => EdgePart \/ UNCHANGED <<edgeVars, posted>>
<1>1. ASSUME NEW s \in Senders, WorkerReturns(s) PROVE UNCHANGED <<edgeVars, posted>>
  BY <1>1 DEF WorkerReturns
<1>2. ASSUME NEW p \in Partitions, ReaderStep(p) \/ ReaderStops(p) PROVE UNCHANGED <<edgeVars, posted>>
  BY <1>2 DEF ReaderStep, ReaderStops, benchVars
<1>3. PhaseEnds \/ Collect \/ InsertEnds \/ CollectorStops => UNCHANGED <<edgeVars, posted>>
  BY DEF PhaseEnds, Collect, InsertEnds, CollectorStops
<1>4. Draining \/ TimeIsUp \/ cancelConsume \/ MainEnds => UNCHANGED <<edgeVars, posted>>
  BY DEF Draining, TimeIsUp, cancelConsume, MainEnds, benchVars
<1>5. UNCHANGED vars => UNCHANGED <<edgeVars, posted>>
  BY DEF vars, benchVars
<1> QED
  BY <1>1, <1>2, <1>3, <1>4, <1>5 DEF Next, EdgePart

LEMMA EdgeTypesKept ==
  ASSUME EdgeInv, EdgeData, [Next]_vars
  PROVE  EdgeInv' /\ EdgeData'
<1>1. EdgeNext \/ UNCHANGED edgeVars
  BY EdgePartFrame, OtherPartFrame
<1> QED
  BY <1>1, EdgeKeepsInv, EdgeKeepsData

LEMMA PostKept ==
  ASSUME EdgeInv, EdgeData, posted \in Nat, PostInv, [Next]_vars
  PROVE  PostInv' /\ posted' \in Nat
<1>0. /\ call \in [Senders -> {{}} \cup {{i} : i \in Ids}] /\ answers \in [Ids -> SUBSET Answers]
      /\ late \in [Ids -> Nat] /\ Ids \subseteq Nat
  BY BurstAssumption DEF EdgeInv, EdgeData, CallTypes
<1>1. ASSUME NEW s \in Senders, WorkerPosts(s) PROVE PostInv' /\ posted' \in Nat
  <2> DEFINE i == posted + 1
  <2>1. /\ i \in Ids /\ call[s] = {} /\ call' = [call EXCEPT ![s] = {i}] /\ posted' = i
        /\ UNCHANGED <<answers, late>>
    BY <1>1 DEF WorkerPosts, PostNew
  <2>2. i \in Nat /\ i > posted /\ \A j \in Ids : j > i => j > posted /\ j # i
    BY <1>0
  <2> HIDE DEF i
  <2>3. ~InCall(i) /\ late[i] = 0 /\ answers[i] = {}
    BY <2>1, <2>2 DEF PostInv
  <2>4. call'[s] = {i} /\ \A t \in Senders : t # s => call'[t] = call[t]
    BY <1>0, <2>1
  <2>5. \A j \in Ids : InCall(j)' => InCall(j) \/ j = i
    BY <2>4 DEF InCall
  <2>6. \A j \in Ids : j > posted' => ~InCall(j)' /\ late'[j] = 0 /\ answers'[j] = {}
    BY <2>1, <2>2, <2>5 DEF PostInv
  <2>7. \A t \in Senders : \A j \in call'[t] :
          late'[j] = 0 /\ answers'[j] = {} /\ \A u \in Senders : u # t => j \notin call'[u]
    BY <2>1, <2>3, <2>4 DEF PostInv, InCall
  <2>8. \A j \in Accepted' : late'[j] = 0 /\ ~InCall(j)' /\ answers'[j] = {"accepted"}
    BY <2>1, <2>3, <2>5 DEF PostInv, Accepted
  <2> QED
    BY <2>1, <2>2, <2>6, <2>7, <2>8 DEF PostInv
<1>2. ASSUME NEW s \in Senders, WorkerAnswered(s) PROVE PostInv' /\ posted' \in Nat
  <2>1. PICK i \in call[s], a \in {"accepted", "failed"} :
          /\ answers' = [answers EXCEPT ![i] = @ \cup {a}]
          /\ call' = [call EXCEPT ![s] = {}]
          /\ late' = late \/ (a = "failed" /\ late' = [late EXCEPT ![i] = @ + 1])
    BY <1>2, Zenon DEF WorkerAnswered, ProduceAcked, ProduceFails, Told
  <2>2. posted' = posted
    BY <1>2 DEF WorkerAnswered
  <2>3. i \in Ids /\ call[s] = {i} /\ late[i] = 0 /\ answers[i] = {}
        /\ \A t \in Senders : t # s => i \notin call[t]
    BY <1>0 DEF PostInv
  <2>4. call'[s] = {} /\ \A t \in Senders : t # s => call'[t] = call[t]
    BY <1>0, <2>1
  <2>5. answers'[i] = {a} /\ \A j \in Ids : j # i => answers'[j] = answers[j] /\ late'[j] = late[j]
    BY <1>0, <2>1, <2>3
  <2>6. a = "accepted" => late'[i] = 0
    BY <2>1, <2>3
  <2>7. ~InCall(i)' /\ \A j \in Ids : InCall(j)' => InCall(j)
    BY <2>3, <2>4 DEF InCall
  <2>8. InCall(i)
    BY DEF InCall
  <2>9. \A j \in Ids : j > posted' => ~InCall(j)' /\ late'[j] = 0 /\ answers'[j] = {}
    BY <2>2, <2>3, <2>5, <2>7, <2>8 DEF PostInv
  <2>10. \A t \in Senders : \A j \in call'[t] :
          late'[j] = 0 /\ answers'[j] = {} /\ \A u \in Senders : u # t => j \notin call'[u]
    <3>1. SUFFICES ASSUME NEW t \in Senders, NEW j \in call'[t]
                   PROVE  late'[j] = 0 /\ answers'[j] = {} /\ \A u \in Senders : u # t => j \notin call'[u]
      OBVIOUS
    <3>2. t # s /\ j \in call[t] /\ j # i /\ j \in Ids
      BY <1>0, <2>3, <2>4
    <3> QED
      BY <2>4, <2>5, <3>2 DEF PostInv
  <2>11. \A j \in Accepted' : late'[j] = 0 /\ ~InCall(j)' /\ answers'[j] = {"accepted"}
    BY <2>5, <2>6, <2>7 DEF PostInv, Accepted
  <2> QED
    BY <2>2, <2>9, <2>10, <2>11 DEF PostInv
<1>3. ASSUME Writer PROVE PostInv' /\ posted' \in Nat
  <2>1. PICK i \in Ids : late[i] > 0 /\ late' = [late EXCEPT ![i] = @ - 1] /\ UNCHANGED <<call, answers, posted>>
    BY <1>3 DEF Writer, LateWrite, LateDrop, benchVars
  <2>2. \A j \in Ids : j # i => late'[j] = late[j]
    BY <1>0, <2>1
  <2>3. \A j \in Ids : late[j] = 0 => j # i /\ late'[j] = 0
    BY <2>1, <2>2
  <2>4. \A j \in Ids : InCall(j)' <=> InCall(j)
    BY <2>1 DEF InCall
  <2>5. \A t \in Senders : \A j \in call[t] : j \in Ids
    BY <1>0
  <2> QED
    BY <2>1, <2>3, <2>4, <2>5 DEF PostInv, Accepted
<1>4. CASE UNCHANGED <<edgeVars, posted>>
  BY <1>4 DEF edgeVars, PostInv, InCall, Accepted
<1> QED
  BY <1>1, <1>2, <1>3, <1>4, OtherPartFrame DEF EdgePart

-----------------------------------------------------------------------------
(* The kinds of step, by what they do to the messages on their way.        *)

FlushBatch == Waiting /\ Flush(chBatch) /\ UNCHANGED <<readerVars, rows>>

\* Messages are passed on; one that is received is counted.
Passes ==
  \/ Receive /\ consumed' = consumed + 1
  \/ ((\E p \in Partitions : Reads(p)) \/ FlushBatch \/ InsertStores) /\ consumed' = consumed

\* Nothing moves; at most a reader with nothing in hand returns.
Rests ==
  /\ UNCHANGED <<offset, hand, chan, chBatch, inserting, rows, consumed, consumer>>
  /\ alive' = alive \/ \E p \in Partitions : hand[p] = << >> /\ alive' = [alive EXCEPT ![p] = FALSE]
  /\ \/ UNCHANGED <<bounds, finalLag, main>>
     \/ Draining
     \/ PhaseEnds
     \/ UNCHANGED <<bounds, finalLag>> /\ (cancelConsume \/ MainEnds)

LEMMA Kinds ==
  ASSUME [Next]_vars
  PROVE  \/ EdgePart
         \/ UNCHANGED edgeVars /\ Passes /\ UNCHANGED <<drainVars, main, failed>>
         \/ UNCHANGED edgeVars /\ InsertFails /\ "insert" \in failed' /\ UNCHANGED <<drainVars, main, consumed, consumer>>
         \/ \E p \in Partitions : ReaderStops(p)
         \/ UNCHANGED edgeVars /\ Rests
<1>1. ASSUME NEW s \in Senders, WorkerReturns(s) PROVE UNCHANGED edgeVars /\ Rests
  BY <1>1 DEF WorkerReturns, Rests, consumerVars, readerVars, drainVars
<1>2. ASSUME NEW p \in Partitions, ReaderStep(p)
      PROVE  \/ UNCHANGED edgeVars /\ Passes /\ UNCHANGED <<drainVars, main, failed>>
             \/ UNCHANGED edgeVars /\ Rests
  BY <1>2 DEF ReaderStep, ReaderReturns, Passes, Rests, drainVars
<1>3. Collect => UNCHANGED edgeVars /\ Passes /\ UNCHANGED <<drainVars, main, failed>>
  BY DEF Collect, Passes, FlushTick, FlushBatch
<1>4. CollectorStops => UNCHANGED edgeVars /\ Passes /\ UNCHANGED <<drainVars, main, failed>>
  BY DEF CollectorStops, Passes, FlushBatch
<1>5. ASSUME InsertEnds
      PROVE  \/ UNCHANGED edgeVars /\ Passes /\ UNCHANGED <<drainVars, main, failed>>
             \/ UNCHANGED edgeVars /\ InsertFails /\ "insert" \in failed' /\ UNCHANGED <<drainVars, main, consumed, consumer>>
  BY <1>5 DEF InsertEnds, Passes, Fail
<1>6. Draining => UNCHANGED edgeVars /\ Rests
  BY DEF Draining, Rests, consumerVars, readerVars
<1>7. PhaseEnds => UNCHANGED edgeVars /\ Rests
  BY DEF PhaseEnds, Rests, consumerVars, readerVars
<1>8. TimeIsUp => UNCHANGED edgeVars /\ Rests
  BY DEF TimeIsUp, Rests, consumerVars, readerVars, benchVars, DeadlinePasses
<1>9. cancelConsume \/ MainEnds => UNCHANGED edgeVars /\ Rests
  BY DEF cancelConsume, MainEnds, Rests, consumerVars, readerVars, drainVars
<1>10. UNCHANGED vars => UNCHANGED edgeVars /\ Rests
  BY DEF vars, Rests, consumerVars, readerVars, drainVars, benchVars
<1> QED
  BY <1>1, <1>2, <1>3, <1>4, <1>5, <1>6, <1>7, <1>8, <1>9, <1>10 DEF Next, EdgePart

LEMMA FailedGrows ==
  ASSUME [Next]_vars
  PROVE  failed \subseteq failed'
<1>1. ASSUME NEW s \in Senders, WorkerPosts(s) \/ WorkerAnswered(s) \/ WorkerReturns(s)
      PROVE  failed \subseteq failed'
  BY <1>1 DEF WorkerPosts, WorkerAnswered, WorkerReturns, Fail
<1>2. ASSUME NEW p \in Partitions, ReaderStep(p) \/ ReaderStops(p) PROVE failed \subseteq failed'
  BY <1>2 DEF ReaderStep, ReaderStops, Fail, benchVars
<1>3. Writer \/ PhaseEnds \/ Collect \/ InsertEnds \/ CollectorStops => failed \subseteq failed'
  BY DEF Writer, PhaseEnds, Collect, InsertEnds, CollectorStops, Fail, benchVars
<1>4. Draining \/ TimeIsUp \/ cancelConsume \/ MainEnds => failed \subseteq failed'
  BY DEF Draining, TimeIsUp, cancelConsume, MainEnds, Fail, benchVars
<1>5. UNCHANGED vars => failed \subseteq failed'
  BY DEF vars, benchVars
<1> QED
  BY <1>1, <1>2, <1>3, <1>4, <1>5 DEF Next

\* What passes on neither comes nor goes.
LEMMA PassesBalanced ==
  ASSUME ConsumerInv, UNCHANGED edgeVars, Passes
  PROVE  ConsumerInv' /\ Balanced
<1>0. UNCHANGED part
  BY DEF edgeVars
<1>1. CASE Receive
  BY <1>0, <1>1, ReceiveBalanced
<1>2. ASSUME NEW p \in Partitions, Reads(p) PROVE ConsumerInv' /\ Balanced
  BY <1>0, <1>2, ReadMessageBalanced, SendBalanced DEF Reads
<1>3. CASE FlushBatch
  <2>1. CASE chBatch # << >>
    BY <1>0, <1>3, <2>1, BatchBalanced DEF FlushBatch
  <2>2. CASE chBatch = << >>
    <3>1. UNCHANGED <<offset, hand, alive, chan, chBatch, inserting, rows>>
      BY <1>3, <2>2 DEF FlushBatch, Waiting, Flush, readerVars
    <3>2. ConsumerInv'
      BY <1>0, <3>1 DEF ConsumerInv, CollectorTypes, StreamTypes, Placed
    <3>3. Balanced
      BY <1>0, <3>1 DEF Balanced, Ledger, InFlight, Unread, InTopic, CopiesOf
    <3> QED
      BY <3>2, <3>3
  <2> QED
    BY <2>1, <2>2
<1>4. CASE InsertStores
  <2>1. /\ inserting' = << >> /\ UNCHANGED <<part, readerVars, chBatch>>
        /\ rows' = Plus(rows, inserting)
    BY <1>0, <1>4 DEF InsertStores
  <2>2. ASSUME NEW i \in Ids
        PROVE  ConsumerInv' /\ Ledger(i)' = Ledger(i) /\ InTopic(i)' = InTopic(i)
    <3>1. /\ ConsumerInv' /\ InTopic(i)' = InTopic(i)
          /\ Ledger(i)' = Ledger(i) - CountIn(inserting, i) + (rows'[i] - rows[i])
      BY <2>1, InsertLeaves
    <3>2. rows'[i] = rows[i] + CountIn(inserting, i)
      BY <2>1 DEF Plus
    <3>3. rows[i] \in Nat /\ CountIn(inserting, i) \in Nat /\ Ledger(i) \in Nat
      BY Countable
    <3> QED
      BY <3>1, <3>2, <3>3
  <2>3. ConsumerInv'
    <3>1. rows' \in [Ids -> Nat]
      <4>1. \A i \in Ids : rows[i] \in Nat /\ CountIn(inserting, i) \in Nat
        BY Countable
      <4> QED
        BY <2>1, <4>1 DEF Plus
    <3>2. inserting' \in Seq(Ids) /\ Len(inserting') <= BatchSize
      BY <2>1, CollectorAssumption
    <3> QED
      BY <2>1, <3>1, <3>2 DEF ConsumerInv, CollectorTypes, StreamTypes, Placed, readerVars
  <2> QED
    BY <2>2, <2>3 DEF Balanced
<1> QED
  BY <1>1, <1>2, <1>3, <1>4 DEF Passes

\* The edge brings messages to the topic, and takes none away.
LEMMA EdgePartGrows ==
  ASSUME EdgeInv, ConsumerInv, EdgePart
  PROVE  ConsumerInv' /\ Grows
<1>1. UNCHANGED consumerVars
  BY EdgePartFrame
<1>2. ASSUME NEW i \in Ids, Stored(i) PROVE ConsumerInv' /\ Grows
  BY <1>1, <1>2, StoredGrows
<1>3. ASSUME UNCHANGED part PROVE ConsumerInv' /\ Grows
  <2>1. /\ UNCHANGED <<part, offset, hand, chan, chBatch, inserting, rows>>
        /\ alive' \in [Partitions -> BOOLEAN]
    BY <1>1, <1>3 DEF consumerVars, readerVars, ConsumerInv, CollectorTypes, StreamTypes
  <2> QED
    BY <2>1, QuietStep
<1>4. ASSUME NEW s \in Senders, WorkerPosts(s) PROVE UNCHANGED part
  BY <1>4 DEF WorkerPosts, PostNew
<1>5. ASSUME NEW s \in Senders, WorkerAnswered(s) PROVE UNCHANGED part \/ \E i \in Ids : Stored(i)
  <2>1. \A i \in call[s] : i \in Ids
    BY DEF EdgeInv, CallTypes
  <2> QED
    BY <1>5, <2>1 DEF WorkerAnswered, ProduceAcked, ProduceFails
<1>6. ASSUME Writer PROVE UNCHANGED part \/ \E i \in Ids : Stored(i)
  BY <1>6 DEF Writer, LateWrite, LateDrop
<1> QED
  BY <1>2, <1>3, <1>4, <1>5, <1>6 DEF EdgePart

LEMMA ConsumerKept ==
  ASSUME EdgeInv, ConsumerInv, [Next]_vars
  PROVE  ConsumerInv'
<1>1. CASE EdgePart
  BY <1>1, EdgePartGrows
<1>2. CASE UNCHANGED edgeVars /\ Passes
  BY <1>2, PassesBalanced
<1>3. CASE UNCHANGED edgeVars /\ InsertFails
  <2>1. /\ inserting' = << >> /\ UNCHANGED <<part, readerVars, chBatch>>
        /\ rows' = rows \/ rows' = Plus(rows, inserting)
    BY <1>3 DEF InsertFails, edgeVars
  <2>2. rows' \in [Ids -> Nat]
    <3>1. \A i \in Ids : rows[i] \in Nat /\ CountIn(inserting, i) \in Nat
      BY Countable
    <3> QED
      BY <2>1, <3>1 DEF Plus, ConsumerInv, CollectorTypes
  <2>3. inserting' \in Seq(Ids) /\ Len(inserting') <= BatchSize
    BY <2>1, CollectorAssumption
  <2> QED
    BY <2>1, <2>2, <2>3 DEF ConsumerInv, CollectorTypes, StreamTypes, Placed, readerVars
<1>4. ASSUME NEW p \in Partitions, ReaderStops(p) PROVE ConsumerInv'
  <2>1. /\ UNCHANGED <<part, offset, chan, chBatch, inserting, rows>>
        /\ alive' = [alive EXCEPT ![p] = FALSE] /\ hand' = [hand EXCEPT ![p] = << >>]
    BY <1>4 DEF ReaderStops, ReaderCancelled, edgeVars
  <2>2. alive' \in [Partitions -> BOOLEAN] /\ hand' \in [Partitions -> {<< >>} \cup {<<i>> : i \in Ids}]
    BY <2>1 DEF ConsumerInv, CollectorTypes, StreamTypes
  <2>3. \A r \in Partitions : hand'[r] = << >> \/ hand'[r] = hand[r]
    BY <2>1 DEF ConsumerInv, CollectorTypes, StreamTypes
  <2> QED
    BY <2>1, <2>2, <2>3 DEF ConsumerInv, CollectorTypes, StreamTypes, Placed
<1>5. CASE UNCHANGED edgeVars /\ Rests
  <2>1. /\ UNCHANGED <<part, offset, hand, chan, chBatch, inserting, rows>>
        /\ alive' \in [Partitions -> BOOLEAN]
    BY <1>5 DEF Rests, edgeVars, ConsumerInv, CollectorTypes, StreamTypes
  <2> QED
    BY <2>1, QuietStep
<1> QED
  BY <1>1, <1>2, <1>3, <1>4, <1>5, Kinds

-----------------------------------------------------------------------------
(* main, the barrier of the workers, and the ends of the goroutines.       *)

LEMMA TypesKept ==
  ASSUME ConsumerInv, BurstTypes, posted' \in Nat, [Next]_vars
  PROVE  BurstTypes'
<1>1. part \in [Partitions -> Seq(Ids)] /\ offset \in [Partitions -> Nat]
  BY DEF ConsumerInv
<1>2. ASSUME NEW s \in Senders, WorkerPosts(s) \/ WorkerAnswered(s) \/ WorkerReturns(s)
      PROVE  BurstTypes'
  BY <1>2 DEF WorkerPosts, WorkerAnswered, WorkerReturns, BurstTypes, drainVars
<1>3. ASSUME NEW p \in Partitions, ReaderStep(p) \/ ReaderStops(p) PROVE BurstTypes'
  BY <1>3 DEF ReaderStep, ReaderStops, BurstTypes, drainVars, benchVars
<1>4. Writer \/ PhaseEnds \/ Collect \/ InsertEnds \/ CollectorStops => BurstTypes'
  BY DEF Writer, PhaseEnds, Collect, InsertEnds, CollectorStops, BurstTypes, drainVars, benchVars
<1>5. ASSUME Draining PROVE BurstTypes'
  <2>1. UNCHANGED <<main, posted, returned, consumer, consumed>>
    BY <1>5 DEF Draining
  <2>2. bounds' \in [Partitions -> Int] /\ finalLag' \in Int
    <3>1. NoBounds \in [Partitions -> Int]
      BY DEF NoBounds, NotAsked
    <3>2. ASSUME NEW p \in Partitions, AskOffset(p) PROVE bounds' \in [Partitions -> Int] /\ finalLag' \in Int
      BY <1>1, <3>2 DEF AskOffset, BurstTypes
    <3>3. Measure => bounds' \in [Partitions -> Int] /\ finalLag' \in Int
      BY <1>1, <3>1, LagFacts DEF Measure, BurstTypes
    <3>4. AskFails => bounds' \in [Partitions -> Int] /\ finalLag' \in Int
      BY <3>1 DEF AskFails, BurstTypes
    <3> QED
      BY <1>5, <3>2, <3>3, <3>4 DEF Draining
  <2> QED
    BY <2>1, <2>2 DEF BurstTypes
<1>6. TimeIsUp \/ cancelConsume \/ MainEnds => BurstTypes'
  BY DEF TimeIsUp, DeadlinePasses, cancelConsume, MainEnds, BurstTypes, drainVars, benchVars
<1>7. UNCHANGED vars => BurstTypes'
  BY DEF vars, drainVars, benchVars, BurstTypes
<1> QED
  BY <1>2, <1>3, <1>4, <1>5, <1>6, <1>7 DEF Next

LEMMA SendingKept ==
  ASSUME EdgeInv, BurstTypes, SendingInv, [Next]_vars
  PROVE  SendingInv'
<1>0. call \in [Senders -> {{}} \cup {{i} : i \in Ids}]
  BY DEF EdgeInv, CallTypes
<1>1. ASSUME NEW s \in Senders, WorkerPosts(s) PROVE SendingInv'
  <2>1. /\ Sending /\ s \notin returned /\ UNCHANGED <<main, returned>>
        /\ call' = [call EXCEPT ![s] = {posted + 1}]
    BY <1>1 DEF WorkerPosts, PostNew
  <2>2. \A t \in Senders : t # s => call'[t] = call[t]
    BY <1>0, <2>1
  <2> QED
    BY <2>1, <2>2 DEF SendingInv, Sending
<1>2. ASSUME NEW s \in Senders, WorkerAnswered(s) PROVE SendingInv'
  <2>1. UNCHANGED <<main, returned>> /\ call' = [call EXCEPT ![s] = {}]
    BY <1>2 DEF WorkerAnswered, ProduceAcked, ProduceFails
  <2>2. \A t \in Senders : call'[t] = {} \/ call'[t] = call[t]
    BY <1>0, <2>1
  <2> QED
    BY <2>1, <2>2 DEF SendingInv, Sending
<1>3. ASSUME NEW s \in Senders, WorkerReturns(s) PROVE SendingInv'
  BY <1>3 DEF WorkerReturns, SendingInv, Sending, edgeVars
<1>4. ASSUME PhaseEnds PROVE SendingInv'
  BY <1>4 DEF PhaseEnds, SendingInv, Sending, edgeVars
<1>5. Writer => SendingInv'
  BY DEF Writer, LateWrite, LateDrop, benchVars, SendingInv, Sending
<1>6. ASSUME NEW p \in Partitions, ReaderStep(p) \/ ReaderStops(p) PROVE SendingInv'
  BY <1>6 DEF ReaderStep, ReaderStops, SendingInv, Sending, edgeVars, benchVars
<1>7. Collect \/ InsertEnds \/ CollectorStops \/ Draining \/ TimeIsUp => SendingInv'
  BY DEF Collect, InsertEnds, CollectorStops, Draining, TimeIsUp, SendingInv, Sending, edgeVars, benchVars
<1>8. cancelConsume \/ MainEnds => SendingInv'
  BY DEF cancelConsume, MainEnds, SendingInv, Sending, edgeVars
<1>9. UNCHANGED vars => SendingInv'
  BY DEF vars, SendingInv, Sending, edgeVars, benchVars
<1> QED
  BY <1>1, <1>2, <1>3, <1>4, <1>5, <1>6, <1>7, <1>8, <1>9 DEF Next

LEMMA EndsKept ==
  ASSUME ConsumerInv, EndsInv, [Next]_vars
  PROVE  EndsInv'
<1>0. /\ hand \in [Partitions -> {<< >>} \cup {<<i>> : i \in Ids}]
      /\ alive \in [Partitions -> BOOLEAN]
  BY DEF ConsumerInv, CollectorTypes, StreamTypes
<1>1. CASE EdgePart
  <2>1. UNCHANGED <<hand, alive, chBatch, inserting, main, consumer>>
    BY <1>1, EdgePartFrame DEF consumerVars, readerVars
  <2> QED
    BY <2>1 DEF EndsInv, Cancelled, consumerDone, Waiting
<1>2. ASSUME NEW p \in Partitions, ReaderStep(p) PROVE EndsInv'
  <2>1. UNCHANGED <<chBatch, inserting, main, consumer>>
    BY <1>2 DEF ReaderStep, Reads
  <2>2. \/ alive[p] /\ alive' = alive /\ \E x : hand' = [hand EXCEPT ![p] = x]
        \/ alive' = alive /\ hand' = [hand EXCEPT ![p] = << >>]
        \/ hand[p] = << >> /\ hand' = hand /\ alive' = [alive EXCEPT ![p] = FALSE]
    BY <1>2 DEF ReaderStep, Reads, ReadMessage, Send, ReaderReturns
  <2>3. \A q \in Partitions : hand'[q] # << >> => alive'[q]
    BY <1>0, <2>2 DEF EndsInv
  <2> QED
    BY <2>1, <2>3 DEF EndsInv, Cancelled, consumerDone, Waiting
<1>3. ASSUME NEW p \in Partitions, ReaderStops(p) PROVE EndsInv'
  <2>1. /\ UNCHANGED <<chBatch, inserting, main, consumer>>
        /\ hand' = [hand EXCEPT ![p] = << >>] /\ alive' = [alive EXCEPT ![p] = FALSE]
    BY <1>3 DEF ReaderStops, ReaderCancelled, benchVars
  <2>2. \A q \in Partitions : hand'[q] # << >> => alive'[q]
    BY <1>0, <2>1 DEF EndsInv
  <2> QED
    BY <2>1, <2>2 DEF EndsInv, Cancelled, consumerDone, Waiting
<1>4. Collect => EndsInv'
  BY DEF Collect, Receive, FlushTick, readerVars, EndsInv, Cancelled, consumerDone, Waiting
<1>5. InsertEnds => EndsInv'
  BY DEF InsertEnds, InsertStores, InsertFails, readerVars, EndsInv, Cancelled, consumerDone, Waiting
<1>6. CollectorStops => EndsInv'
  BY DEF CollectorStops, Flush, readerVars, EndsInv, Cancelled, consumerDone, Waiting
<1>7. ASSUME NEW s \in Senders, WorkerReturns(s) PROVE EndsInv'
  BY <1>7 DEF WorkerReturns, consumerVars, readerVars, EndsInv, Cancelled, consumerDone, Waiting
<1>8. PhaseEnds => EndsInv'
  BY DEF PhaseEnds, Sending, consumerVars, readerVars, EndsInv, Cancelled, consumerDone, Waiting
<1>9. Draining \/ TimeIsUp \/ cancelConsume \/ MainEnds => EndsInv'
  BY DEF Draining, TimeIsUp, cancelConsume, MainEnds, consumerVars, readerVars, benchVars,
         EndsInv, Cancelled, consumerDone, Waiting
<1>10. UNCHANGED vars => EndsInv'
  BY DEF vars, consumerVars, readerVars, benchVars, EndsInv, Cancelled, consumerDone, Waiting
<1> QED
  BY <1>1, <1>2, <1>3, <1>4, <1>5, <1>6, <1>7, <1>8, <1>9, <1>10 DEF Next, EdgePart

-----------------------------------------------------------------------------
(* The counter, and the messages that are neither lost nor stored.         *)

LEMMA ConsumedKept ==
  ASSUME ConsumerInv, BurstTypes, ConsumedInv, [Next]_vars
  PROVE  ConsumedInv'
<1> DEFINE t == Total(rows, Ids)
           t1 == Total(rows', Ids)
<1>0. SUFFICES ASSUME "insert" \notin failed'
               PROVE  t1 + Len(inserting') + Len(chBatch') = consumed'
  BY DEF ConsumedInv
<1>1. /\ chBatch \in Seq(Ids) /\ inserting \in Seq(Ids) /\ rows \in [Ids -> Nat]
      /\ chan \in Seq(Ids) /\ consumed \in Nat /\ Len(<< >>) = 0
  BY DEF ConsumerInv, CollectorTypes, StreamTypes, BurstTypes
<1>2. t \in Nat /\ t + Len(inserting) + Len(chBatch) = consumed
  BY <1>0, <1>1, FailedGrows, TotalIsNumber, BurstAssumption DEF ConsumedInv
<1>3. CASE UNCHANGED <<rows, inserting, chBatch, consumed>>
  BY <1>2, <1>3
<1>4. CASE EdgePart
  BY <1>3, <1>4, EdgePartFrame DEF consumerVars
<1>5. CASE Receive /\ consumed' = consumed + 1
  <2> DEFINE batch == Append(chBatch, Head(chan))
  <2>1. chan # << >> /\ inserting = << >> /\ t1 = t
    BY <1>5 DEF Receive, Waiting
  <2>2. Len(batch) = Len(chBatch) + 1 /\ Len(chBatch) \in Nat
    BY <1>1, <2>1
  <2>3. \/ inserting' = batch /\ chBatch' = << >>
        \/ inserting' = inserting /\ chBatch' = batch
    BY <1>5 DEF Receive, Flush
  <2> HIDE DEF batch, t, t1
  <2> QED
    BY <1>1, <1>2, <1>5, <2>1, <2>2, <2>3
<1>6. ASSUME NEW p \in Partitions, Reads(p), consumed' = consumed
      PROVE  UNCHANGED <<rows, inserting, chBatch, consumed>>
  BY <1>6 DEF Reads
<1>7. CASE FlushBatch /\ consumed' = consumed
  <2>1. inserting = << >> /\ inserting' = chBatch /\ chBatch' = << >> /\ t1 = t
    BY <1>7 DEF FlushBatch, Flush, Waiting
  <2> HIDE DEF t, t1
  <2> QED
    BY <1>1, <1>2, <1>7, <2>1
<1>8. CASE InsertStores /\ consumed' = consumed
  <2>1. inserting' = << >> /\ chBatch' = chBatch /\ rows' = Plus(rows, inserting)
    BY <1>8 DEF InsertStores
  <2>2. Total(Plus(rows, inserting), Ids) = t + Len(inserting)
    BY <1>1, TotalPlus
  <2>3. t1 = t + Len(inserting)
    BY <2>1, <2>2
  <2> HIDE DEF t, t1
  <2> QED
    BY <1>1, <1>2, <1>8, <2>1, <2>3
<1>9. ASSUME NEW p \in Partitions, ReaderStops(p)
      PROVE  UNCHANGED <<rows, inserting, chBatch, consumed>>
  BY <1>9 DEF ReaderStops, benchVars
<1>10. Rests => UNCHANGED <<rows, inserting, chBatch, consumed>>
  BY DEF Rests
<1> HIDE DEF t, t1
<1> QED
  BY <1>0, <1>3, <1>4, <1>5, <1>6, <1>7, <1>8, <1>9, <1>10, Kinds DEF Passes

LEMMA LedgerKept ==
  ASSUME EdgeInv, ConsumerInv, LedgerInv, [Next]_vars
  PROVE  LedgerInv'
<1>1. SUFFICES ASSUME "insert" \notin failed', ~Cancelled', NEW i \in Ids
               PROVE  Ledger(i)' = InTopic(i)'
  BY DEF LedgerInv
<1>2. ASSUME ~Cancelled PROVE Ledger(i) = InTopic(i) /\ Ledger(i) \in Nat
  BY <1>1, <1>2, FailedGrows, Countable DEF LedgerInv
<1>3. ASSUME Grows, ~Cancelled PROVE Ledger(i)' = InTopic(i)'
  <2>1. PICK k \in Nat : Ledger(i)' = Ledger(i) + k /\ InTopic(i)' = InTopic(i) + k
    BY <1>3 DEF Grows
  <2> QED
    BY <1>2, <1>3, <2>1
<1>4. CASE EdgePart
  <2>1. ~Cancelled
    BY <1>1, <1>4, EdgePartFrame DEF Cancelled
  <2> QED
    BY <1>3, <1>4, <2>1, EdgePartGrows
<1>5. CASE UNCHANGED edgeVars /\ Passes /\ UNCHANGED main
  <2>1. ~Cancelled
    BY <1>1, <1>5 DEF Cancelled
  <2> QED
    BY <1>2, <1>5, <2>1, PassesBalanced DEF Balanced
<1>6. ASSUME NEW p \in Partitions, ReaderStops(p) PROVE FALSE
  BY <1>1, <1>6 DEF ReaderStops, Cancelled, benchVars
<1>7. CASE UNCHANGED edgeVars /\ Rests
  <2>1. /\ UNCHANGED <<part, offset, hand, chan, chBatch, inserting, rows>>
        /\ alive' \in [Partitions -> BOOLEAN]
    BY <1>7 DEF Rests, edgeVars, ConsumerInv, CollectorTypes, StreamTypes
  <2>2. ~Cancelled
    BY <1>1, <1>7 DEF Rests, Draining, PhaseEnds, Sending, cancelConsume, MainEnds, Cancelled
  <2> QED
    BY <1>3, <2>1, <2>2, QuietStep
<1> QED
  BY <1>1, <1>4, <1>5, <1>6, <1>7, Kinds

\* Once the workers have been waited for, no webhook is accepted any more, and
\* what the writer still sends is not one that was.
LEMMA Steady ==
  ASSUME EdgeInv, EdgeData, ConsumerInv, PostInv, SendingInv, ~Sending, [Next]_vars
  PROVE  /\ Accepted' = Accepted /\ ~Sending'
         /\ \A i \in Accepted : CopiesOf(i)' \subseteq CopiesOf(i)
<1>0. /\ part \in [Partitions -> Seq(Ids)]
      /\ \A s \in Senders : call[s] = {}
  BY DEF ConsumerInv, SendingInv
<1>1. CASE UNCHANGED edgeVars
  <2>1. ~Sending'
    <3>1. ASSUME NEW s \in Senders, WorkerPosts(s) \/ WorkerAnswered(s) \/ WorkerReturns(s) PROVE main' = main
      BY <3>1 DEF WorkerPosts, WorkerAnswered, WorkerReturns
    <3>2. ASSUME NEW p \in Partitions, ReaderStep(p) \/ ReaderStops(p) PROVE main' = main
      BY <3>2 DEF ReaderStep, ReaderStops, benchVars
    <3>3. Writer \/ Collect \/ InsertEnds \/ CollectorStops \/ Draining \/ TimeIsUp => main' = main
      BY DEF Writer, Collect, InsertEnds, CollectorStops, Draining, TimeIsUp, benchVars
    <3>4. PhaseEnds => FALSE
      BY DEF PhaseEnds
    <3>5. cancelConsume \/ MainEnds => ~Sending'
      BY DEF cancelConsume, MainEnds, Sending
    <3>6. UNCHANGED vars => main' = main
      BY DEF vars, benchVars
    <3> QED
      BY <3>1, <3>2, <3>3, <3>4, <3>5, <3>6 DEF Next, Sending
  <2> QED
    BY <1>1, <2>1 DEF edgeVars, Accepted, CopiesOf
<1>2. ASSUME NEW s \in Senders, WorkerPosts(s) \/ WorkerAnswered(s) PROVE FALSE
  <2>1. WorkerPosts(s) => FALSE
    BY DEF WorkerPosts
  <2>2. WorkerAnswered(s) => FALSE
    BY <1>0 DEF WorkerAnswered, ProduceAcked, ProduceFails
  <2> QED
    BY <1>2, <2>1, <2>2
<1>3. ASSUME NEW j \in Ids, LateWrite(j) \/ LateDrop(j), UNCHANGED benchVars
      PROVE  /\ Accepted' = Accepted /\ ~Sending'
             /\ \A i \in Accepted : CopiesOf(i)' \subseteq CopiesOf(i)
  <2>1. late[j] > 0 /\ answers' = answers /\ main' = main /\ (part' = part \/ Stored(j))
    BY <1>3 DEF LateWrite, LateDrop, benchVars
  <2>2. Accepted' = Accepted /\ ~Sending'
    BY <2>1 DEF Accepted, Sending
  <2>3. \A i \in Accepted : i \in Ids /\ i # j
    BY <2>1 DEF PostInv, Accepted
  <2>4. CASE part' = part
    BY <2>2, <2>4 DEF CopiesOf
  <2>5. CASE Stored(j)
    <3> DEFINE h == Home[j]
               new == part'[h]
    <3>1. h \in Partitions /\ part[h] \in Seq(Ids)
      BY <1>0, TopicAssumption
    <3>2. StoredIn(part[h], j, new) /\ part' = [part EXCEPT ![h] = new]
      BY <1>0, <2>5, <3>1 DEF Stored, StoredIn
    <3> HIDE DEF h, new
    <3>3. \A n \in DOMAIN new : (n \in DOMAIN part[h] /\ new[n] = part[h][n]) \/ new[n] = j
      BY <3>1, <3>2, StoredSeq
    <3>4. ASSUME NEW i \in Accepted PROVE CopiesOf(i)' \subseteq CopiesOf(i)
      <4>1. i \in Ids /\ i # j /\ Home[i] \in Partitions
        BY <2>3, TopicAssumption
      <4>2. CASE Home[i] = h
        <5>1. part'[h] = new
          BY <1>0, <3>1, <3>2
        <5> QED
          BY <3>3, <4>1, <4>2, <5>1 DEF CopiesOf
      <4>3. CASE Home[i] # h
        <5>1. part'[Home[i]] = part[Home[i]]
          BY <1>0, <3>2, <4>1, <4>3
        <5> QED
          BY <5>1 DEF CopiesOf
      <4> QED
        BY <4>2, <4>3
    <3> QED
      BY <2>2, <3>4
  <2> QED
    BY <2>1, <2>4, <2>5
<1>4. Writer => \E j \in Ids : (LateWrite(j) \/ LateDrop(j)) /\ UNCHANGED benchVars
  BY DEF Writer
<1> QED
  BY <1>1, <1>2, <1>3, <1>4, OtherPartFrame DEF EdgePart

LEMMA OffsetsGrow ==
  ASSUME ConsumerInv, [Next]_vars, NEW p \in Partitions
  PROVE  offset[p] \in Nat /\ offset[p] <= offset'[p] /\ offset'[p] \in Nat
<1>0. offset \in [Partitions -> Nat]
  BY DEF ConsumerInv
<1>1. CASE offset' = offset
  BY <1>0, <1>1
<1>2. CASE EdgePart
  BY <1>1, <1>2, EdgePartFrame DEF consumerVars, readerVars
<1>3. ASSUME NEW q \in Partitions, Reads(q)
      PROVE  offset'[p] \in {offset[p], offset[p] + 1}
  BY <1>0, <1>3 DEF Reads, ReadMessage, Send
<1>4. Receive \/ FlushBatch \/ InsertStores \/ InsertFails => offset' = offset
  BY DEF Receive, FlushBatch, InsertStores, InsertFails, readerVars
<1>5. ASSUME NEW q \in Partitions, ReaderStops(q) PROVE offset' = offset
  BY <1>5 DEF ReaderStops, ReaderCancelled
<1>6. Rests => offset' = offset
  BY DEF Rests
<1>7. (\E q \in Partitions : Reads(q)) => offset'[p] \in {offset[p], offset[p] + 1}
  BY <1>3
<1> QED
  BY <1>0, <1>1, <1>2, <1>4, <1>5, <1>6, <1>7, Kinds DEF Passes

\* What is answered by the time a bound is asked for lies before that bound.
LEMMA LagKept ==
  ASSUME EdgeInv, EdgeData, ConsumerInv, BurstTypes, PostInv, SendingInv, LagInv, [Next]_vars
  PROVE  LagInv'
<1>0. /\ \A p \in Partitions : NoBounds[p] = NotAsked
      /\ offset \in [Partitions -> Nat] /\ bounds \in [Partitions -> Int]
      /\ Home \in [Ids -> Partitions] /\ part \in [Partitions -> Seq(Ids)]
  BY TopicAssumption DEF NoBounds, ConsumerInv, BurstTypes
<1>1. \/ UNCHANGED <<bounds, finalLag>> /\ (UNCHANGED main \/ PhaseEnds \/ cancelConsume \/ MainEnds)
      \/ Draining
  <2>1. EdgePart => UNCHANGED <<bounds, finalLag, main>>
    BY EdgePartFrame DEF drainVars
  <2>2. ASSUME NEW p \in Partitions, ReaderStops(p) PROVE UNCHANGED <<bounds, finalLag, main>>
    BY <2>2 DEF ReaderStops, drainVars, benchVars
  <2>3. PhaseEnds => UNCHANGED <<bounds, finalLag>>
    BY DEF PhaseEnds, drainVars
  <2> QED
    BY <2>1, <2>2, <2>3, Kinds DEF drainVars, Rests
<1>2. CASE Sending
  <2>1. bounds' = NoBounds /\ finalLag' # 0
    BY <1>1, <1>2 DEF LagInv, Draining, Sending
  <2> QED
    BY <1>0, <2>1 DEF LagInv, NoBounds
<1>3. CASE ~Sending
  <2>1. Accepted' = Accepted /\ ~Sending' /\ \A i \in Accepted : CopiesOf(i)' \subseteq CopiesOf(i)
    BY <1>3, Steady
  <2>2. /\ \A p \in Partitions : bounds[p] # NotAsked =>
             bounds[p] >= 0 /\ \A i \in Accepted : Home[i] = p => \A n \in CopiesOf(i) : n <= bounds[p]
        /\ finalLag = 0 => \A i \in Accepted : ReadOff(i)
    BY DEF LagInv
  <2>3. ASSUME NEW i \in Accepted, ReadOff(i) PROVE ReadOff(i)'
    <3>1. Home[i] \in Partitions /\ \A n \in CopiesOf(i) : n \in Nat
      BY <1>0 DEF Accepted, CopiesOf
    <3>2. offset[Home[i]] <= offset'[Home[i]] /\ offset[Home[i]] \in Nat /\ offset'[Home[i]] \in Nat
      BY <3>1, OffsetsGrow
    <3> QED
      BY <2>1, <2>3, <3>1, <3>2 DEF ReadOff
  <2>4. CASE UNCHANGED <<bounds, finalLag>>
    BY <2>1, <2>2, <2>3, <2>4 DEF LagInv
  <2>5. CASE Draining
    <3>1. UNCHANGED <<part, offset>>
      BY <2>5 DEF Draining, edgeVars, consumerVars, readerVars
    <3>2. ASSUME NEW p \in Partitions, AskOffset(p) PROVE LagInv'
      <4>1. bounds' = [bounds EXCEPT ![p] = Len(part[p])] /\ finalLag' = finalLag
        BY <3>2 DEF AskOffset
      <4>2. Len(part[p]) \in Nat /\ \A i \in Ids : Home[i] = p => \A n \in CopiesOf(i) : n <= Len(part[p])
        BY <1>0 DEF CopiesOf
      <4>3. bounds'[p] = Len(part[p]) /\ \A q \in Partitions : q # p => bounds'[q] = bounds[q]
        BY <1>0, <4>1
      <4>4. \A q \in Partitions : bounds'[q] # NotAsked =>
             bounds'[q] >= 0 /\ \A i \in Accepted : Home[i] = q => \A n \in CopiesOf(i) : n <= bounds'[q]
        <5>1. \A i \in Accepted : i \in Ids
          BY DEF Accepted
        <5>2. Len(part[p]) >= 0
          BY <4>2
        <5> QED
          BY <2>2, <4>2, <4>3, <5>1, <5>2
      <4> QED
        BY <2>1, <2>2, <2>3, <4>1, <4>4 DEF LagInv
    <3>3. ASSUME Measure PROVE LagInv'
      <4>1. finalLag' = Lag /\ bounds' = NoBounds /\ \A p \in Partitions : bounds[p] # NotAsked
        BY <3>3 DEF Measure, Asked
      <4>2. ASSUME Lag = 0, NEW i \in Accepted PROVE ReadOff(i)'
        <5> DEFINE p == Home[i]
        <5>1. p \in Partitions /\ \A n \in CopiesOf(i) : n \in Nat
          BY <1>0 DEF Accepted, CopiesOf
        <5>2. bounds[p] <= CurrentOffsets(p)
          BY <1>0, <4>2, <5>1, LagFacts
        <5>3. bounds[p] >= 0 /\ \A n \in CopiesOf(i) : n <= bounds[p]
          BY <2>2, <4>1, <5>1
        <5>4. offset[p] \in Nat /\ bounds[p] \in Int
          BY <1>0, <5>1
        <5> HIDE DEF p
        <5>5. bounds[p] <= offset[p]
          BY <5>2, <5>3, <5>4 DEF CurrentOffsets, FirstOffset
        <5>6. \A n \in CopiesOf(i) : n <= offset[p]
          BY <5>1, <5>3, <5>4, <5>5
        <5> QED
          BY <2>3, <5>6 DEF ReadOff, p
      <4> QED
        BY <1>0, <2>1, <4>1, <4>2 DEF LagInv
    <3>4. AskFails => LagInv'
      BY <1>0, <2>1, <2>2, <2>3 DEF AskFails, LagInv
    <3> QED
      BY <2>5, <3>2, <3>3, <3>4 DEF Draining
  <2> QED
    BY <1>1, <2>4, <2>5
<1> QED
  BY <1>2, <1>3

\* A message that was read off is not unread.
LEMMA ReadOffIsRead ==
  ASSUME ConsumerInv, NEW i \in Ids, ReadOff(i)
  PROVE  Unread(i) = 0
<1>1. offset[Home[i]] \in Nat /\ CopiesOf(i) \subseteq Nat
  BY TopicAssumption DEF ConsumerInv, CopiesOf
<1>2. {n \in CopiesOf(i) : n > offset[Home[i]]} = {}
  BY <1>1 DEF ReadOff
<1> QED
  BY <1>2, FS_EmptySet DEF Unread

\* While nothing has been dropped, what is read off is stored or on its way.
LEMMA NothingMissing ==
  ASSUME EdgeInv, ConsumerInv, PostInv, LagInv, LedgerInv,
         "insert" \notin failed, ~Cancelled, finalLag = 0, NEW i \in Accepted
  PROVE  ~Missing(i)
<1>1. i \in Ids /\ answers[i] = {"accepted"} /\ ~InCall(i)
  BY DEF Accepted, PostInv
<1>2. Landed(i)
  BY <1>1 DEF EdgeInv, NoSilentLoss
<1>3. Unread(i) = 0
  BY <1>1, ReadOffIsRead DEF LagInv
<1>4. InTopic(i) # 0
  <2>1. IsFiniteSet(CopiesOf(i))
    <3>1. part[Home[i]] \in Seq(Ids)
      BY <1>1, TopicAssumption DEF ConsumerInv
    <3>2. IsFiniteSet(1 .. Len(part[Home[i]]))
      BY <3>1, FS_Interval
    <3>3. CopiesOf(i) \in SUBSET (1 .. Len(part[Home[i]]))
      BY <3>1 DEF CopiesOf
    <3> QED
      BY <3>2, <3>3, FS_Subset
  <2>2. Cardinality(CopiesOf(i)) = 0 => CopiesOf(i) = {}
    BY <2>1, FS_EmptySet
  <2> QED
    BY <1>2, <2>2 DEF Landed, InTopic
<1>5. rows[i] \in Nat /\ InFlight(i) \in Nat /\ rows[i] + InFlight(i) + Unread(i) = InTopic(i)
  BY <1>1, Countable DEF LedgerInv, Ledger
<1> QED
  BY <1>3, <1>4, <1>5 DEF Missing

\* When the consumer is cancelled nothing is missing; a reader that ends then
\* drops what it holds, and holds nothing after that.
LEMMA MissingKept ==
  ASSUME EdgeInv, EdgeData, ConsumerInv, BurstTypes, PostInv, SendingInv, EndsInv,
         LagInv, LedgerInv, MissingInv, [Next]_vars
  PROVE  MissingInv'
<1>0. SUFFICES ASSUME "insert" \notin failed', Cancelled', finalLag' = 0
               PROVE  /\ \A i \in Accepted' : Missing(i)' => ~alive'[Home[i]]
                      /\ \A i, j \in Accepted' : Missing(i)' /\ Missing(j)' /\ Home[i] = Home[j] => i = j
  BY DEF MissingInv
<1>1. "insert" \notin failed
  BY <1>0, FailedGrows
<1>2. /\ hand \in [Partitions -> {<< >>} \cup {<<i>> : i \in Ids}]
      /\ alive \in [Partitions -> BOOLEAN]
      /\ \A i \in Accepted : i \in Ids /\ Home[i] \in Partitions
  BY TopicAssumption DEF ConsumerInv, CollectorTypes, StreamTypes, Accepted
\* Where main stood, and what it had measured, before the step.
<1>3. ~Sending /\ finalLag = 0
  <2>1. EdgePart => UNCHANGED <<finalLag, main>>
    BY EdgePartFrame DEF drainVars
  <2>2. ASSUME NEW p \in Partitions, ReaderStops(p) PROVE UNCHANGED <<finalLag, main>>
    BY <2>2 DEF ReaderStops, drainVars, benchVars
  <2>3. UNCHANGED <<finalLag, main>> => ~Sending /\ finalLag = 0
    BY <1>0 DEF Cancelled, Sending
  <2>4. Draining => FALSE
    BY <1>0 DEF Draining, Cancelled
  <2>5. PhaseEnds => FALSE
    BY <1>0 DEF PhaseEnds, Cancelled
  <2>6. UNCHANGED finalLag /\ (cancelConsume \/ MainEnds) => ~Sending /\ finalLag = 0
    BY <1>0 DEF cancelConsume, MainEnds, Sending
  <2> QED
    BY <2>1, <2>2, <2>3, <2>4, <2>5, <2>6, Kinds DEF Rests, drainVars
<1>4. Accepted' = Accepted
  BY <1>3, Steady
<1>5. /\ \A i \in Accepted : Missing(i) => Cancelled /\ ~alive[Home[i]]
      /\ \A i, j \in Accepted : Missing(i) /\ Missing(j) /\ Home[i] = Home[j] => i = j
  <2>1. CASE Cancelled
    BY <1>1, <1>3, <2>1 DEF MissingInv
  <2>2. CASE ~Cancelled
    BY <1>1, <1>3, <2>2, NothingMissing
  <2> QED
    BY <2>1, <2>2
<1>6. ASSUME \A i \in Accepted : Missing(i)' => Missing(i),
             \A p \in Partitions : alive'[p] => alive[p]
      PROVE  /\ \A i \in Accepted' : Missing(i)' => ~alive'[Home[i]]
             /\ \A i, j \in Accepted' : Missing(i)' /\ Missing(j)' /\ Home[i] = Home[j] => i = j
  BY <1>2, <1>4, <1>5, <1>6
<1>7. CASE EdgePart
  <2>1. UNCHANGED consumerVars
    BY <1>7, EdgePartFrame
  <2> QED
    BY <1>6, <2>1 DEF consumerVars, readerVars, Missing, InFlight
<1>8. CASE UNCHANGED edgeVars /\ Passes
  <2>1. ConsumerInv' /\ Balanced
    BY <1>8, PassesBalanced
  <2>2. LagInv'
    BY LagKept
  <2>3. ASSUME NEW i \in Accepted PROVE Missing(i)' => Missing(i)
    <3>1. i \in Ids /\ Ledger(i)' = Ledger(i)
      BY <1>2, <2>1 DEF Balanced
    <3>2. Unread(i) = 0
      BY <1>3, <3>1, ReadOffIsRead DEF LagInv
    <3>3. ReadOff(i)'
      BY <1>0, <1>4, <2>2 DEF LagInv
    <3>4. Unread(i)' = 0
      <4>1. {n \in CopiesOf(i)' : n > offset'[Home[i]]} = {}
        <5>1. offset'[Home[i]] \in Nat /\ CopiesOf(i)' \subseteq Nat
          BY <1>2, <2>1 DEF ConsumerInv, CopiesOf
        <5> QED
          BY <3>3, <5>1 DEF ReadOff
      <4> QED
        BY <4>1, FS_EmptySet DEF Unread
    <3>5. rows[i] \in Nat /\ InFlight(i) \in Nat
      BY <3>1, Countable
    <3>6. Ledger(i)' = rows'[i] + InFlight(i)' + Unread(i)' /\ Ledger(i) = rows[i] + InFlight(i) + Unread(i)
      BY DEF Ledger
    <3>7. rows'[i] + InFlight(i)' + 0 = rows[i] + InFlight(i) + 0
      BY <3>1, <3>2, <3>4, <3>6
    <3>8. rows'[i] = 0 /\ InFlight(i)' = 0 => rows[i] = 0 /\ InFlight(i) = 0
      BY <3>5, <3>7
    <3> QED
      BY <3>8 DEF Missing
  <2>4. alive' = alive
    BY <1>8 DEF Passes, Receive, Reads, ReadMessage, Send, FlushBatch, InsertStores, readerVars
  <2> QED
    BY <1>6, <2>3, <2>4
<1>9. ASSUME NEW p \in Partitions, ReaderStops(p)
      PROVE  /\ \A i \in Accepted' : Missing(i)' => ~alive'[Home[i]]
             /\ \A i, j \in Accepted' : Missing(i)' /\ Missing(j)' /\ Home[i] = Home[j] => i = j
  <2>1. /\ alive[p] /\ alive' = [alive EXCEPT ![p] = FALSE] /\ hand' = [hand EXCEPT ![p] = << >>]
        /\ UNCHANGED <<chan, chBatch, inserting, rows>>
    BY <1>9 DEF ReaderStops, ReaderCancelled
  <2>2. /\ ~alive'[p] /\ hand'[p] = << >>
        /\ \A q \in Partitions : q # p => alive'[q] = alive[q] /\ hand'[q] = hand[q]
    BY <1>2, <2>1
  <2>3. ASSUME NEW i \in Accepted, Missing(i)', ~Missing(i) PROVE Home[i] = p /\ hand[p] = <<i>>
    <3>1. Home[i] = p
      BY <1>2, <2>1, <2>2, <2>3 DEF Missing, InFlight
    <3>2. hand[p] # << >>
      BY <2>1, <2>2, <2>3, <3>1 DEF Missing, InFlight
    <3>3. PICK x \in Ids : hand[p] = <<x>>
      BY <1>2, <3>2
    <3>4. x = i
      <4>1. SUFFICES ASSUME x # i PROVE FALSE
        OBVIOUS
      <4>2. CountIn(hand[p], i) = 0 /\ CountIn(hand'[p], i) = 0
        BY <2>2, <3>3, <4>1, SingleCount, CountEmpty DEF One
      <4> QED
        BY <2>1, <2>3, <3>1, <4>2 DEF Missing, InFlight
    <3> QED
      BY <3>1, <3>3, <3>4
  <2>4. \A i \in Accepted : Missing(i) => Home[i] # p
    BY <1>5, <2>1
  <2>5. \A i \in Accepted : Missing(i)' => Missing(i) \/ (Home[i] = p /\ hand[p] = <<i>>)
    BY <2>3
  <2>6. \A i \in Accepted : Missing(i)' => ~alive'[Home[i]]
    BY <1>2, <1>5, <2>2, <2>5
  <2>7. \A i, j \in Accepted : <<i>> = <<j>> => i = j
    OBVIOUS
  <2>8. \A i, j \in Accepted : Missing(i)' /\ Missing(j)' /\ Home[i] = Home[j] => i = j
    BY <1>5, <2>4, <2>5, <2>7
  <2> QED
    BY <1>4, <2>6, <2>8
<1>10. CASE Rests
  <2>1. \A i \in Accepted : Missing(i)' => Missing(i)
    BY <1>10 DEF Rests, Missing, InFlight
  <2>2. \A p \in Partitions : alive'[p] => alive[p]
    BY <1>2, <1>10 DEF Rests
  <2> QED
    BY <1>6, <2>1, <2>2
<1>11. EdgePart \/ (UNCHANGED edgeVars /\ Passes) \/ (\E p \in Partitions : ReaderStops(p)) \/ Rests
  BY <1>0, Kinds
<1> QED
  BY <1>7, <1>8, <1>9, <1>10, <1>11

-----------------------------------------------------------------------------
(* The invariant holds.                                                    *)

LEMMA InitIInv == Init => IInv
<1> SUFFICES ASSUME Init PROVE IInv
  OBVIOUS
<1>1. EdgeInv /\ EdgeData
  BY InitEdgeInv, InitEdgeData DEF Init
<1>2. /\ call = [s \in Senders |-> {}] /\ answers = [i \in Ids |-> {}] /\ late = [i \in Ids |-> 0]
      /\ part = [p \in Partitions |-> << >>]
      /\ offset = [p \in Partitions |-> 0] /\ hand = [p \in Partitions |-> << >>]
      /\ alive = [p \in Partitions |-> TRUE] /\ chan = << >>
      /\ chBatch = << >> /\ inserting = << >> /\ rows = [i \in Ids |-> 0]
      /\ bounds = NoBounds /\ finalLag = -1 /\ main = "baseline" /\ posted = 0 /\ returned = {}
      /\ consumer = "runs" /\ consumed = 0 /\ failed = {}
  BY DEF Init, EdgeInit, NewPipeline, EnsureTopic, CollectorInit, StreamInit, FromFirst, NoneInHand,
         Nothing, DrainInit
<1>3. ConsumerInv
  <2>1. << >> \in Seq(Ids) /\ Len(<< >>) = 0
    OBVIOUS
  <2>2. CollectorTypes
    BY <1>2, <2>1, StreamAssumption, CollectorAssumption DEF CollectorTypes, StreamTypes
  <2>3. Placed
    BY <1>2 DEF Placed
  <2> QED
    BY <1>2, <2>1, <2>2, <2>3 DEF ConsumerInv
<1>4. BurstTypes
  BY <1>2 DEF BurstTypes, NoBounds, NotAsked
<1>5. PostInv
  BY <1>2 DEF PostInv, InCall, Accepted
<1>6. SendingInv /\ EndsInv
  BY <1>2 DEF SendingInv, EndsInv
<1>7. LagInv
  <2>1. Accepted = {}
    BY <1>2 DEF Accepted
  <2> QED
    BY <1>2, <2>1 DEF LagInv, NoBounds
<1>8. LedgerInv
  <2>1. ASSUME NEW i \in Ids PROVE Ledger(i) = InTopic(i)
    <3>1. Home[i] \in Partitions
      BY TopicAssumption
    <3>2. CopiesOf(i) = {}
      BY <1>2, <3>1 DEF CopiesOf
    <3>3. Unread(i) = 0 /\ InTopic(i) = 0
      BY <3>2, FS_EmptySet DEF Unread, InTopic
    <3>4. InFlight(i) = 0
      BY <1>2, <3>1, CountEmpty DEF InFlight
    <3>5. rows[i] = 0
      BY <1>2
    <3> QED
      BY <3>3, <3>4, <3>5 DEF Ledger
  <2> QED
    BY <2>1 DEF LedgerInv
<1>9. MissingInv
  BY <1>2 DEF MissingInv
<1>10. ConsumedInv
  <2>1. \A i \in Ids : rows[i] = 0
    BY <1>2
  <2>2. Total(rows, Ids) = 0
    BY <2>1, TotalOfZeros, BurstAssumption
  <2>3. Len(inserting) = 0 /\ Len(chBatch) = 0
    BY <1>2
  <2> QED
    BY <1>2, <2>2, <2>3 DEF ConsumedInv
<1> QED
  BY <1>1, <1>3, <1>4, <1>5, <1>6, <1>7, <1>8, <1>9, <1>10 DEF IInv

LEMMA IInvKept == IInv /\ [Next]_vars => IInv'
<1> SUFFICES ASSUME IInv, [Next]_vars PROVE IInv'
  OBVIOUS
<1>1. /\ EdgeInv /\ EdgeData /\ ConsumerInv /\ BurstTypes /\ posted \in Nat
      /\ PostInv /\ SendingInv /\ EndsInv /\ LagInv /\ LedgerInv /\ MissingInv /\ ConsumedInv
  BY DEF IInv, BurstTypes
<1>2. EdgeInv' /\ EdgeData'
  BY <1>1, EdgeTypesKept
<1>3. PostInv' /\ posted' \in Nat
  BY <1>1, PostKept
<1>4. ConsumerInv'
  BY <1>1, ConsumerKept
<1>5. BurstTypes'
  BY <1>1, <1>3, TypesKept
<1>6. SendingInv' /\ EndsInv'
  BY <1>1, SendingKept, EndsKept
<1>7. LagInv'
  BY <1>1, LagKept
<1>8. LedgerInv' /\ ConsumedInv'
  BY <1>1, LedgerKept, ConsumedKept
<1>9. MissingInv'
  BY <1>1, MissingKept
<1> QED
  BY <1>2, <1>3, <1>4, <1>5, <1>6, <1>7, <1>8, <1>9 DEF IInv

LEMMA IInvHolds == Spec => []IInv
BY InitIInv, IInvKept, PTL DEF Spec

\* When a lag of zero is computed, what the benchmark counts as sent is stored
\* or held by the consumer, for any number of workers and partitions.
THEOREM DrainedIsInHandHolds == Spec => []DrainedIsInHand
<1>1. IInv => DrainedIsInHand
  <2>1. SUFFICES ASSUME IInv, main = "drain", finalLag = 0, "insert" \notin failed, NEW i \in Accepted
                 PROVE  i \in InTable \/ InFlight(i) > 0
    BY DEF DrainedIsInHand
  <2>2. ~Missing(i)
    BY <2>1, NothingMissing DEF IInv, Cancelled
  <2>3. i \in Ids
    BY DEF Accepted
  <2>4. rows[i] \in Nat /\ InFlight(i) \in Nat
    BY <2>1, <2>3, Countable DEF IInv
  <2> QED
    BY <2>2, <2>3, <2>4 DEF Missing, InTable
<1> QED
  BY <1>1, IInvHolds, PTL

\* The number of webhooks the benchmark prints as consumed is the number of
\* rows in the table once the consumer is done.
THEOREM ConsumedAreStoredHolds == Spec => []ConsumedAreStored
<1>1. IInv => ConsumedAreStored
  <2>1. SUFFICES ASSUME IInv, consumerDone, "insert" \notin failed
                 PROVE  Total(rows, Ids) = consumed
    BY DEF ConsumedAreStored, Total
  <2>2. chBatch = << >> /\ inserting = << >>
    BY <2>1 DEF consumerDone, Waiting, IInv, EndsInv
  <2>3. Total(rows, Ids) + Len(inserting) + Len(chBatch) = consumed
    BY <2>1 DEF IInv, ConsumedInv
  <2>4. Total(rows, Ids) \in Nat
    BY <2>1, TotalIsNumber, BurstAssumption DEF IInv, ConsumerInv, CollectorTypes
  <2>5. Len(inserting) = 0 /\ Len(chBatch) = 0
    BY <2>2
  <2> QED
    BY <2>3, <2>4, <2>5
<1> QED
  BY <1>1, IInvHolds, PTL

\* As many ids as there are messages, at most.
LEMMA IdsInSequence ==
  ASSUME NEW q \in Seq(Ids)
  PROVE  LET S == {q[k] : k \in 1 .. Len(q)} IN IsFiniteSet(S) /\ Cardinality(S) <= Len(q)
<1> DEFINE n == Len(q)
           S == {q[k] : k \in 1 .. n}
           f == [k \in 1 .. n |-> q[k]]
<1>1. n \in Nat
  OBVIOUS
<1>2. f \in Surjection(1 .. n, S)
  BY DEF Surjection
<1> HIDE DEF n, f
<1>3. IsFiniteSet(1 .. n) /\ Cardinality(1 .. n) = n
  BY <1>1, FS_Interval
<1>4. IsFiniteSet(S) /\ Cardinality(S) <= Cardinality(1 .. n)
  BY <1>2, <1>3, FS_Surjection
<1> QED
  BY <1>3, <1>4 DEF n

\* A lag of zero is not a table that holds everything, but what it lacks is
\* never more than the channel and the hands of the readers can hold.
THEOREM DrainedWithinHolds == Spec => []DrainedWithin
<1>1. IInv => DrainedWithin
  <2> DEFINE A == Accepted \ InTable
             Dropped(i) == Missing(i) \/ hand[Home[i]] = <<i>>
             M == {i \in A : Dropped(i)}
             C == {chan[k] : k \in 1 .. Len(chan)}
             f == [i \in M |-> Home[i]]
  <2>1. SUFFICES ASSUME IInv, main = "done", finalLag = 0, "insert" \notin failed
                 PROVE  Cardinality(A) <= ChanCap + Cardinality(Partitions)
    BY DEF DrainedWithin
  <2>2. /\ ConsumerInv
        /\ inserting = << >> /\ chBatch = << >>
        /\ \A p \in Partitions : hand[p] # << >> => alive[p]
        /\ \A i \in Accepted : Missing(i) => ~alive[Home[i]]
        /\ \A i, j \in Accepted : Missing(i) /\ Missing(j) /\ Home[i] = Home[j] => i = j
    BY <2>1 DEF IInv, EndsInv, consumerDone, Waiting, MissingInv, Cancelled
  <2>3. /\ \A i \in A : i \in Ids /\ i \in Accepted /\ Home[i] \in Partitions /\ ~(rows[i] > 0)
        /\ hand \in [Partitions -> {<< >>} \cup {<<i>> : i \in Ids}]
        /\ chan \in Seq(Ids) /\ Len(chan) <= ChanCap /\ Len(chan) \in Nat
    BY <2>2, TopicAssumption DEF Accepted, InTable, ConsumerInv, CollectorTypes, StreamTypes
  <2>4. ASSUME NEW i \in A, ~Dropped(i) PROVE i \in C
    <3>1. rows[i] = 0 /\ CountIn(chBatch, i) = 0 /\ CountIn(inserting, i) = 0
      BY <2>2, <2>3, Countable, CountEmpty
    <3>2. CountIn(hand[Home[i]], i) = 0
      <4>1. CASE hand[Home[i]] = << >>
        BY <4>1, CountEmpty
      <4>2. CASE hand[Home[i]] # << >>
        <5>1. PICK x \in Ids : hand[Home[i]] = <<x>>
          BY <2>3, <4>2
        <5>2. x # i
          BY <2>4, <5>1
        <5> QED
          BY <5>1, <5>2, SingleCount DEF One
      <4> QED
        BY <4>1, <4>2
    <3>3. CountIn(chan, i) # 0
      <4>1. CountIn(chan, i) = 0 => InFlight(i) = 0
        BY <3>1, <3>2 DEF InFlight
      <4> QED
        BY <2>4, <3>1, <4>1 DEF Missing
    <3>4. {n \in DOMAIN chan : chan[n] = i} # {}
      BY <3>3, FS_EmptySet DEF CountIn
    <3> QED
      BY <2>3, <3>4
  <2>5. \A i, j \in M : Home[i] = Home[j] => i = j
    <3>1. SUFFICES ASSUME NEW i \in M, NEW j \in M, Home[i] = Home[j] PROVE i = j
      OBVIOUS
    <3>2. i \in A /\ j \in A /\ Dropped(i) /\ Dropped(j)
      OBVIOUS
    <3>3. ASSUME NEW k \in A, hand[Home[k]] = <<k>> PROVE ~Missing(k) /\ alive[Home[k]]
      BY <2>2, <2>3, <3>3
    <3>4. CASE Missing(i) /\ Missing(j)
      BY <2>2, <2>3, <3>1, <3>2, <3>4
    <3>5. CASE hand[Home[i]] = <<i>> /\ hand[Home[j]] = <<j>>
      BY <3>1, <3>5
    <3>6. CASE Missing(i) /\ hand[Home[j]] = <<j>>
      BY <2>2, <2>3, <3>1, <3>2, <3>3, <3>6
    <3>7. CASE hand[Home[i]] = <<i>> /\ Missing(j)
      BY <2>2, <2>3, <3>1, <3>2, <3>3, <3>7
    <3> QED
      BY <3>2, <3>4, <3>5, <3>6, <3>7
  <2>6. A \subseteq M \cup C /\ \A i \in M : Home[i] \in Partitions
    BY <2>3, <2>4
  <2> HIDE DEF A, M, C
  <2>7. f \in Injection(M, Partitions)
    BY <2>5, <2>6 DEF Injection, IsInjective
  <2>8. IsFiniteSet(Partitions)
    BY BurstAssumption
  <2>9. IsFiniteSet(M) /\ Cardinality(M) <= Cardinality(Partitions)
    <3> HIDE DEF f
    <3> QED
      BY <2>7, <2>8, FS_Injection
  <2>10. IsFiniteSet(C) /\ Cardinality(C) <= Len(chan)
    BY <2>3, IdsInSequence DEF C
  <2>11. /\ IsFiniteSet(M \cup C)
         /\ Cardinality(M \cup C) = Cardinality(M) + Cardinality(C) - Cardinality(M \cap C)
    BY <2>9, <2>10, FS_Union
  <2>12. IsFiniteSet(A) /\ Cardinality(A) <= Cardinality(M \cup C)
    BY <2>6, <2>11, FS_Subset
  <2>13. /\ Cardinality(A) \in Nat /\ Cardinality(M) \in Nat /\ Cardinality(C) \in Nat
         /\ Cardinality(M \cup C) \in Nat /\ Cardinality(Partitions) \in Nat
    BY <2>8, <2>9, <2>10, <2>11, <2>12, FS_CardinalityType
  <2>14. Cardinality(M \cap C) \in Nat
    <3>1. M \cap C \in SUBSET M
      OBVIOUS
    <3>2. IsFiniteSet(M \cap C)
      BY <2>9, <3>1, FS_Subset
    <3> QED
      BY <3>2, FS_CardinalityType
  <2> QED
    BY <2>3, <2>9, <2>10, <2>11, <2>12, <2>13, <2>14, StreamAssumption
<1> QED
  BY <1>1, IInvHolds, PTL

=============================================================================
