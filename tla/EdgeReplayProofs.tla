--------------------------- MODULE EdgeReplayProofs ----------------------------
(***************************************************************************)
(* Theorems about EdgeReplay, for any corpus, partitions and failures: the *)
(* send phase counts what the independent deduplication counts, and the    *)
(* verdict of the read-back can be relied on.                              *)
(***************************************************************************)
EXTENDS EdgeReplay, FiniteSetTheorems, SequenceTheorems, TLAPS

-----------------------------------------------------------------------------
(* The reference, one element of the corpus after the other.               *)

DedupStep(q, i) == IF Contains(q, i) THEN q ELSE Append(q, i)

Highest(s) == Max(s)
Before(s) == s \ {Highest(s)}

\* What a fold from the left computes: g over the sets of positions.
Folds(ds, T, g) ==
  g = [s \in SUBSET T |-> IF s = {} THEN << >> ELSE DedupStep(g[Before(s)], ds[Highest(s)])]

\* Induction on finite sets, by a least counterexample.
LEMMA LeastSubset ==
  ASSUME NEW S, IsFiniteSet(S), NEW T, T \subseteq SUBSET S, T # {}
  PROVE  \E x \in T : \A y \in T : y \subseteq x => y = x
<1>1. IsWellFoundedOn(StrictSubsetOrdering(S), SUBSET S)
  BY FS_StrictSubsetOrderingWellFounded, FS_FiniteSubsetsOfFinite
<1>2. PICK x \in T : \A y \in T : ~(<<y, x>> \in StrictSubsetOrdering(S))
  BY <1>1, WFMin
<1> QED
  BY <1>2 DEF StrictSubsetOrdering

LEMMA LeastValue ==
  ASSUME NEW S, IsFiniteSet(S), S # {}, NEW f, \A k \in S : f[k] \subseteq S
  PROVE  \E k \in S : \A j \in S : f[j] \subseteq f[k] => f[j] = f[k]
<1> DEFINE All == {f[k] : k \in S}
<1>1. All \subseteq SUBSET S /\ All # {}
  OBVIOUS
<1>2. PICK x \in All : \A y \in All : y \subseteq x => y = x
  <2> HIDE DEF All
  <2> QED
    BY <1>1, LeastSubset
<1> QED
  BY <1>2

\* A set of positions has a last one.
LEMMA LastPosition ==
  ASSUME NEW m \in Nat, NEW s \in SUBSET (1 .. m), s # {}
  PROVE  Highest(s) \in s /\ \A y \in s : Highest(s) >= y
<1> DEFINE f == [k \in s |-> {y \in s : y >= k}]
<1>1. IsFiniteSet(s)
  <2>1. IsFiniteSet(1 .. m)
    BY FS_Interval
  <2> QED
    BY <2>1, FS_Subset
<1>2. \A k \in s : \A z : z \in f[k] <=> z \in s /\ z >= k
  OBVIOUS
<1>3. \A k \in s : f[k] \subseteq s
  BY <1>2
<1>4. \E k \in s : \A j \in s : f[j] \subseteq f[k] => f[j] = f[k]
  <2> HIDE DEF f
  <2> DEFINE t == s
  <2>1. IsFiniteSet(t) /\ t # {} /\ \A k \in t : f[k] \subseteq t
    BY <1>1, <1>3
  <2>2. \E k \in t : \A j \in t : f[j] \subseteq f[k] => f[j] = f[k]
    <3> HIDE DEF t
    <3> QED
      BY ONLY <2>1, LeastValue
  <2> QED
    BY <2>2
<1>5. PICK k \in s : \A j \in s : f[j] \subseteq f[k] => f[j] = f[k]
  BY <1>4
<1>6. \A y \in s : k >= y
  <2>1. SUFFICES ASSUME NEW y \in s, y > k PROVE FALSE
    OBVIOUS
  <2>2. k \in f[k] /\ k \notin f[y] /\ f[y] \subseteq f[k]
    <3>1. k \in s /\ y \in s /\ k \in Nat /\ y \in Nat
      BY <2>1
    <3> HIDE DEF f
    <3>2. k \in f[k] /\ k \notin f[y]
      BY <1>2, <2>1, <3>1
    <3>3. \A z \in s : z >= y => z >= k
      BY <2>1, <3>1
    <3>4. \A z \in s : z \in f[y] => z \in f[k]
      BY <1>2, <3>1, <3>3
    <3>5. f[y] \subseteq s
      BY <1>3
    <3> QED
      BY <3>2, <3>4, <3>5
  <2> HIDE DEF f
  <2> QED
    BY <1>5, <2>2
<1> QED
  BY <1>6 DEF Highest, Max

\* What the folds below need to know of a set of positions.
HasLast(S) == IsFiniteSet(S) /\ \A s \in SUBSET S : s # {} => Highest(s) \in s

LEMMA PositionsHaveLast ==
  ASSUME NEW m \in Nat
  PROVE  HasLast(1 .. m)
<1>1. IsFiniteSet(1 .. m)
  BY FS_Interval
<1>2. \A s \in SUBSET (1 .. m) : s # {} => Highest(s) \in s
  BY LastPosition
<1> QED
  BY <1>1, <1>2 DEF HasLast

LEMMA SubsetHasLast ==
  ASSUME NEW S, HasLast(S), NEW T \in SUBSET S
  PROVE  HasLast(T)
BY FS_Subset DEF HasLast

LEMMA FoldAt ==
  ASSUME NEW ds, NEW T, HasLast(T), NEW g, Folds(ds, T, g),
         NEW s \in SUBSET T
  PROVE  /\ g[s] = IF s = {} THEN << >> ELSE DedupStep(g[Before(s)], ds[Highest(s)])
         /\ s # {} => /\ Highest(s) \in s /\ Before(s) \in SUBSET T
                      /\ Before(s) \in SUBSET s /\ Before(s) # s
<1>1. g[s] = IF s = {} THEN << >> ELSE DedupStep(g[Before(s)], ds[Highest(s)])
  BY DEF Folds
<1>2. s # {} => Highest(s) \in s
  BY DEF HasLast
<1> QED
  BY <1>1, <1>2 DEF Before

LEMMA FoldsAgree ==
  ASSUME NEW ds, NEW S, HasLast(S), NEW T \in SUBSET S,
         NEW g, Folds(ds, S, g), NEW h, Folds(ds, T, h)
  PROVE  \A s \in SUBSET T : g[s] = h[s]
<1> DEFINE Bad == {s \in SUBSET T : g[s] # h[s]}
<1>1. SUFFICES ASSUME Bad # {} PROVE FALSE
  OBVIOUS
<1>2. HasLast(T) /\ IsFiniteSet(T) /\ Bad \subseteq SUBSET T
  <2> HIDE DEF Bad
  <2>1. HasLast(T)
    BY SubsetHasLast
  <2>2. Bad \subseteq SUBSET T
    BY DEF Bad
  <2> QED
    BY <2>1, <2>2 DEF HasLast
<1>3. PICK s \in Bad : \A y \in Bad : y \subseteq s => y = s
  <2> HIDE DEF Bad
  <2> QED
    BY <1>1, <1>2, LeastSubset
<1>4. s \in SUBSET T /\ s \in SUBSET S /\ g[s] # h[s]
  OBVIOUS
<1>5. /\ g[s] = IF s = {} THEN << >> ELSE DedupStep(g[Before(s)], ds[Highest(s)])
      /\ h[s] = IF s = {} THEN << >> ELSE DedupStep(h[Before(s)], ds[Highest(s)])
      /\ s # {} => Highest(s) \in s /\ Before(s) # s /\ Before(s) \in SUBSET s
  <2> HIDE DEF Bad
  <2>4. s \in SUBSET S
    BY <1>4
  <2>1. g[s] = IF s = {} THEN << >> ELSE DedupStep(g[Before(s)], ds[Highest(s)])
    BY <2>4 DEF Folds
  <2>3. s # {} => Highest(s) \in s /\ Before(s) # s /\ Before(s) \in SUBSET s
    BY <1>2, <1>4, FoldAt
  <2>2. h[s] = IF s = {} THEN << >> ELSE DedupStep(h[Before(s)], ds[Highest(s)])
    BY <1>2, <1>4, FoldAt
  <2> QED
    BY <2>1, <2>2, <2>3
<1>6. s # {} /\ Before(s) \in SUBSET T /\ g[Before(s)] # h[Before(s)]
  BY <1>4, <1>5
<1> QED
  BY <1>3, <1>5, <1>6

LEMMA FoldsExist ==
  ASSUME NEW ds, NEW S, HasLast(S)
  PROVE  \E g : Folds(ds, S, g)
<1> DEFINE Bad == {T \in SUBSET S : ~\E g : Folds(ds, T, g)}
<1>1. SUFFICES ASSUME Bad # {} PROVE FALSE
  OBVIOUS
<1>2. Bad \subseteq SUBSET S /\ IsFiniteSet(S)
  BY DEF HasLast
<1>3. PICK T \in Bad : \A y \in Bad : y \subseteq T => y = T
  <2> HIDE DEF Bad
  <2> QED
    BY <1>1, <1>2, LeastSubset
<1>4. T \in SUBSET S /\ ~\E g : Folds(ds, T, g)
  OBVIOUS
<1> DEFINE G(U) == CHOOSE g : Folds(ds, U, g)
<1>5. \A U \in SUBSET T : U # T => Folds(ds, U, G(U)) /\ HasLast(U)
  <2>1. SUFFICES ASSUME NEW U \in SUBSET T, U # T
                 PROVE  Folds(ds, U, G(U)) /\ HasLast(U)
    OBVIOUS
  <2>2. U \in SUBSET S /\ HasLast(U) /\ U \notin Bad
    BY <1>3, <1>4, <2>1, SubsetHasLast
  <2>3. \E g : Folds(ds, U, g)
    BY <2>2
  <2> QED
    BY <2>2, <2>3
<1> HIDE DEF G, Bad
<1> DEFINE h == [s \in SUBSET T |-> IF s = {} THEN << >>
                   ELSE DedupStep(G(Before(s))[Before(s)], ds[Highest(s)])]
<1>6. ASSUME NEW r \in SUBSET T, r # T PROVE h[r] = G(r)[r]
  <2>1. /\ G(r)[r] = IF r = {} THEN << >> ELSE DedupStep(G(r)[Before(r)], ds[Highest(r)])
        /\ r # {} => Before(r) \in SUBSET r /\ Before(r) # r
    BY <1>5, <1>6, FoldAt
  <2>2. h[r] = IF r = {} THEN << >>
               ELSE DedupStep(G(Before(r))[Before(r)], ds[Highest(r)])
    OBVIOUS
  <2> HIDE DEF h
  <2>3. CASE r = {}
    BY <2>1, <2>2, <2>3
  <2>4. CASE r # {}
    <3> DEFINE q == Before(r)
    <3>1. q \in SUBSET r /\ q \in SUBSET T /\ q # T
      BY <2>1, <2>4
    <3> HIDE DEF q
    <3>2. \A s \in SUBSET q : G(r)[s] = G(q)[s]
      BY <1>5, <1>6, <3>1, FoldsAgree
    <3>3. G(r)[q] = G(q)[q]
      BY <3>2
    <3> QED
      BY <2>1, <2>2, <2>4, <3>3 DEF q
  <2> QED
    BY <2>3, <2>4
<1>7. h = [s \in SUBSET T |-> IF s = {} THEN << >>
             ELSE DedupStep(h[Before(s)], ds[Highest(s)])]
  <2>1. ASSUME NEW s \in SUBSET T, s # {}
        PROVE  h[s] = DedupStep(h[Before(s)], ds[Highest(s)])
    <3>1. h[s] = DedupStep(G(Before(s))[Before(s)], ds[Highest(s)])
      BY <2>1
    <3> HIDE DEF h
    <3>2. Highest(s) \in s
      BY <1>4, <2>1 DEF HasLast
    <3>3. Before(s) \in SUBSET T /\ Before(s) # T
      BY <3>2 DEF Before
    <3> QED
      BY <1>6, <3>1, <3>3
  <2>2. h[{}] = << >>
    OBVIOUS
  <2>3. h = [s \in SUBSET T |-> h[s]]
    OBVIOUS
  <2> HIDE DEF h
  <2>4. \A s \in SUBSET T : h[s] = IF s = {} THEN << >>
                                   ELSE DedupStep(h[Before(s)], ds[Highest(s)])
    BY <2>1, <2>2
  <2> QED
    BY <2>3, <2>4
<1> HIDE DEF h
<1> QED
  BY <1>4, <1>7 DEF Folds

LEMMA ReferenceIsFold ==
  ASSUME NEW ds \in Seq(Ids)
  PROVE  \E g : Folds(ds, DOMAIN ds, g) /\ ReferenceDedup(ds) = g[DOMAIN ds]
<1>1. ReferenceDedup(ds) = (CHOOSE g : Folds(ds, DOMAIN ds, g))[DOMAIN ds]
  BY DEF ReferenceDedup, FoldLeft, MapThenFoldSet, Folds, Highest, Before, DedupStep
<1>2. HasLast(DOMAIN ds)
  BY PositionsHaveLast
<1>3. Folds(ds, DOMAIN ds, CHOOSE g : Folds(ds, DOMAIN ds, g))
  BY <1>2, FoldsExist
<1> QED
  BY <1>1, <1>3

\* out holds the results of the reference after each element of the corpus.
PrefixResults(ds, out) ==
  /\ out[0] = << >>
  /\ \A k \in 1 .. Len(ds) : out[k] = DedupStep(out[k - 1], ds[k])
  /\ ReferenceDedup(ds) = out[Len(ds)]

LEMMA PrefixesExist ==
  ASSUME NEW ds \in Seq(Ids)
  PROVE  \E out : PrefixResults(ds, out)
<1> DEFINE m == Len(ds)
<1>1. m \in Nat /\ DOMAIN ds = 1 .. m
  OBVIOUS
<1> HIDE DEF m
<1>2. PICK g : Folds(ds, 1 .. m, g) /\ ReferenceDedup(ds) = g[1 .. m]
  BY <1>1, ReferenceIsFold
<1>3. \A s \in SUBSET (1 .. m) : g[s] = IF s = {} THEN << >> ELSE DedupStep(g[Before(s)], ds[Highest(s)])
  BY <1>2 DEF Folds
<1> DEFINE out == [k \in 0 .. m |-> g[1 .. k]]
<1>4. out[0] = << >>
  <2>1. out[0] = g[1 .. 0] /\ 1 .. 0 = {} /\ 1 .. 0 \in SUBSET (1 .. m)
    BY <1>1
  <2> HIDE DEF out
  <2> QED
    BY <1>3, <2>1
<1>5. ASSUME NEW k \in 1 .. m PROVE out[k] = DedupStep(out[k - 1], ds[k])
  <2>1. k \in Nat /\ k - 1 \in Nat /\ out[k] = g[1 .. k] /\ out[k - 1] = g[1 .. (k - 1)]
    BY <1>1
  <2>2. 1 .. k \in SUBSET (1 .. m) /\ 1 .. k # {}
    BY <1>1
  <2> HIDE DEF out
  <2>3. Highest(1 .. k) \in 1 .. k /\ \A y \in 1 .. k : Highest(1 .. k) >= y
    BY <1>1, <2>2, LastPosition
  <2>4. Highest(1 .. k) = k
    BY <2>1, <2>3
  <2>5. Before(1 .. k) = 1 .. (k - 1)
    BY <2>1, <2>4 DEF Before
  <2>6. g[1 .. k] = DedupStep(g[Before(1 .. k)], ds[Highest(1 .. k)])
    BY <1>3, <2>2
  <2> QED
    BY <2>1, <2>4, <2>5, <2>6
<1>6. ReferenceDedup(ds) = out[m]
  BY <1>1, <1>2
<1> HIDE DEF out
<1>7. PrefixResults(ds, out)
  BY <1>4, <1>5, <1>6 DEF PrefixResults, m
<1> QED
  BY <1>7

NoRepeats(q) == \A j, k \in DOMAIN q : q[j] = q[k] => j = k

LEMMA StepOnKnown ==
  ASSUME NEW q \in Seq(Ids), NEW i \in ToSet(q)
  PROVE  DedupStep(q, i) = q
BY DEF DedupStep, Contains, ToSet

LEMMA StepOnNew ==
  ASSUME NEW q \in Seq(Ids), NEW i \in Ids, i \notin ToSet(q), NoRepeats(q)
  PROVE  LET r == DedupStep(q, i) IN
           r \in Seq(Ids) /\ Len(r) = Len(q) + 1 /\ ToSet(r) = ToSet(q) \cup {i} /\ NoRepeats(r)
<1>1. DedupStep(q, i) = Append(q, i)
  BY DEF DedupStep, Contains, ToSet
<1> DEFINE r == Append(q, i)
<1>2. /\ r \in Seq(Ids) /\ Len(r) = Len(q) + 1 /\ DOMAIN r = 1 .. Len(q) + 1
      /\ DOMAIN q = 1 .. Len(q) /\ Len(q) \in Nat
      /\ \A k \in 1 .. Len(q) : r[k] = q[k]
      /\ r[Len(q) + 1] = i
  BY AppendProperties
<1> HIDE DEF r
<1>3. ToSet(r) = ToSet(q) \cup {i}
  BY <1>2 DEF ToSet
<1>4. \A k \in 1 .. Len(q) : r[k] # i
  BY <1>2 DEF ToSet
<1>5. NoRepeats(r)
  BY <1>2, <1>4 DEF NoRepeats
<1> QED
  BY <1>1, <1>2, <1>3, <1>5 DEF r

\* A sequence without repetition counts each of its elements once.
LEMMA CountOnce ==
  ASSUME NEW q \in Seq(Ids), NoRepeats(q), NEW i \in ToSet(q)
  PROVE  CountIn(q, i) = 1
<1>1. PICK k \in DOMAIN q : q[k] = i
  BY DEF ToSet
<1>2. {n \in DOMAIN q : q[n] = i} = {k}
  BY <1>1 DEF NoRepeats
<1> QED
  BY <1>2, FS_Singleton DEF CountIn

-----------------------------------------------------------------------------
(* The inductive invariant.                                                *)

ReplayTypes ==
  /\ seen.set \in SUBSET Ids /\ seen.order \in Seq(Ids)
  /\ call \in [Senders -> {{}} \cup {{i} : i \in Ids}]
  /\ late \in [Ids -> Nat]
  /\ part \in [Partitions -> Seq(Ids)]
  /\ used \in Nat
  /\ delivered \in Seq(Ids) /\ ToSet(delivered) = Ids
  /\ next \in 1 .. Len(delivered) + 1
  /\ count \in [accepted : Nat, rejected : Nat, errors : Nat]
  /\ landed \in [Ids -> Nat]
  /\ unread \in SUBSET Partitions
  /\ cut \in BOOLEAN

Calling == \E s \in Senders : call[s] # {}

\* Between two webhooks the edge's set, the counters and the reference's result
\* agree; the set never has to forget.
Agrees(q) ==
  /\ q \in Seq(Ids) /\ NoRepeats(q)
  /\ ToSet(q) = seen.set
  /\ Len(q) = Cardinality(seen.set) /\ Len(q) = Len(seen.order)
  /\ Len(q) = count.accepted + count.errors + (IF Calling THEN 1 ELSE 0)
  /\ count.rejected = next - 1 - Len(q)

SendInv(out) ==
  /\ PrefixResults(delivered, out)
  /\ seen.set = {delivered[k] : k \in 1 .. next - 1}
  /\ Agrees(out[next - 1])
  /\ main # "send" => ~Calling /\ next = Len(delivered) + 1

\* The broker took every message at once and once.
Quiet == count.errors = 0 /\ used = next - 1

TopicInv ==
  /\ \A p \in Partitions : \A n \in DOMAIN part[p] : Home[part[p][n]] = p
  /\ \A i \in Ids : InCall(i) => i \in seen.set
  /\ used >= next - 1
  /\ Quiet => \A i \in Ids :
       /\ late[i] = 0
       /\ IF i \in seen.set /\ ~InCall(i) THEN \E n \in Nat : CopiesOf(i) = {n}
          ELSE CopiesOf(i) = {}

\* What was read back so far is what the partitions hold that were read.
ReadInv ==
  /\ main = "send" => unread = Partitions /\ ~cut /\ \A i \in Ids : landed[i] = 0
  /\ \A i \in Ids : landed[i] > 0 => Landed(i)
  /\ Quiet /\ ~cut => \A i \in Ids :
       landed[i] = IF Home[i] \in unread THEN 0 ELSE InTopic(i)
  /\ main = "done" =>
       /\ unread = {}
       /\ match = \A i \in Ids : landed[i] = CountIn(ReferenceDedup(delivered), i)

ReplayInv(out) == ReplayTypes /\ SendInv(out) /\ TopicInv /\ ReadInv

\* What the invariant says at the end of the send phase, and of the benchmark.
LEMMA ReferenceFound ==
  ASSUME NEW out, ReplayTypes, SendInv(out), main # "send"
  PROVE  /\ seen.set = Ids
         /\ count.accepted + count.errors = Unique
         /\ count.rejected = Sent - Unique
         /\ \A i \in Ids : CountIn(ReferenceDedup(delivered), i) = 1
<1> DEFINE m == Len(delivered)
           q == out[m]
<1>1. m \in Nat /\ DOMAIN delivered = 1 .. m /\ next = m + 1 /\ next - 1 = m /\ ~Calling
  BY DEF ReplayTypes, SendInv
<1>2. seen.set = Ids
  BY <1>1 DEF ReplayTypes, SendInv, ToSet
<1>3. Agrees(q) /\ q = ReferenceDedup(delivered)
  BY <1>1 DEF SendInv, PrefixResults
<1> HIDE DEF m, q
<1>4. \A i \in Ids : CountIn(q, i) = 1
  BY <1>2, <1>3, CountOnce DEF Agrees
<1>5. /\ count.accepted \in Nat /\ count.errors \in Nat /\ Len(q) \in Nat
      /\ Len(q) = count.accepted + count.errors + 0
      /\ count.rejected = next - 1 - Len(q)
  BY <1>1, <1>3 DEF Agrees, ReplayTypes
<1>6. Unique = Len(q) /\ Sent = m
  BY <1>3 DEF Unique, Sent, m
<1> QED
  BY <1>1, <1>2, <1>3, <1>4, <1>5, <1>6

LEMMA InvGivesVerdict ==
  ASSUME NEW out, ReplayInv(out), main = "done"
  PROVE  IF match THEN \A i \in Ids : Landed(i)
         ELSE count.errors > 0 \/ cut \/ Resent
<1>1. /\ seen.set = Ids
      /\ \A i \in Ids : CountIn(ReferenceDedup(delivered), i) = 1
  BY ReferenceFound DEF ReplayInv
<1>2. match = (\A i \in Ids : landed[i] = 1) /\ unread = {}
  BY <1>1 DEF ReplayInv, ReadInv
<1>3. CASE match
  <2>1. \A i \in Ids : landed[i] = 1
    BY <1>2, <1>3
  <2>2. \A i \in Ids : Landed(i)
    BY <2>1 DEF ReplayInv, ReadInv
  <2> QED
    BY <1>3, <2>2
<1>4. CASE ~match
  <2>1. SUFFICES ASSUME count.errors = 0, ~cut, ~Resent PROVE FALSE
    BY <1>4 DEF ReplayInv, ReplayTypes
  <2>2. Quiet /\ ~Calling
    BY <2>1 DEF ReplayInv, ReplayTypes, SendInv, TopicInv, Quiet, Resent, Sent
  <2>3. ASSUME NEW i \in Ids PROVE landed[i] = 1
    <3>1. ~InCall(i)
      BY <2>2 DEF InCall, Calling
    <3>2. \E n \in Nat : CopiesOf(i) = {n}
      BY <1>1, <2>2, <3>1 DEF ReplayInv, TopicInv
    <3>3. InTopic(i) = 1
      BY <3>2, FS_Singleton DEF InTopic
    <3> QED
      BY <1>2, <2>1, <2>2, <3>3 DEF ReplayInv, ReadInv
  <2> QED
    BY <1>2, <1>4, <2>3
<1> QED
  BY <1>3, <1>4

LEMMA InitReplayInv ==
  ASSUME Init
  PROVE  \E out : ReplayInv(out)
<1>1. PICK n \in 0 .. Cardinality(Ids) + MaxRetries :
        delivered \in [1 .. n -> Ids] /\ ToSet(delivered) = Ids
  BY DEF Init, WithRetries
<1>2. Cardinality(Ids) \in Nat /\ n \in Nat
  BY ReplayAssumption, FS_CardinalityType
<1>3. delivered \in Seq(Ids) /\ Len(delivered) \in Nat /\ ToSet(delivered) = Ids
  BY <1>1, <1>2
<1>4. PICK out : PrefixResults(delivered, out)
  BY <1>3, PrefixesExist
<1>5. /\ seen = [set |-> {}, order |-> << >>] /\ call = [s \in Senders |-> {}]
      /\ late = [i \in Ids |-> 0] /\ part = [p \in Partitions |-> << >>] /\ used = 0
      /\ main = "send" /\ next = 1 /\ landed = [i \in Ids |-> 0] /\ unread = Partitions
      /\ count = [accepted |-> 0, rejected |-> 0, errors |-> 0] /\ cut = FALSE
  BY DEF Init, EdgeInit, NewPipeline, EnsureTopic, NoIds, Memory!NewDeviceSeen
<1>6. ReplayTypes
  <2>1. /\ seen.set = {} /\ seen.order = << >>
        /\ call \in [Senders -> {{}} \cup {{i} : i \in Ids}]
        /\ late \in [Ids -> Nat] /\ landed \in [Ids -> Nat]
        /\ part \in [Partitions -> Seq(Ids)]
        /\ count \in [accepted : Nat, rejected : Nat, errors : Nat]
    BY <1>5
  <2>2. /\ seen.set \in SUBSET Ids /\ used \in Nat
        /\ unread \in SUBSET Partitions /\ cut \in BOOLEAN
    BY <1>5, <2>1
  <2>4. << >> \in Seq(Ids)
    OBVIOUS
  <2>3. next \in 1 .. Len(delivered) + 1
    BY <1>3, <1>5
  <2> QED
    BY <1>3, <2>1, <2>2, <2>3, <2>4 DEF ReplayTypes
<1>7. SendInv(out)
  <2>1. out[next - 1] = << >> /\ next - 1 = 0 /\ 1 .. next - 1 = {} /\ ~Calling
    BY <1>4, <1>5 DEF PrefixResults, Calling
  <2>2. Agrees(<< >>)
    <3>1. /\ count.accepted = 0 /\ count.errors = 0 /\ count.rejected = 0
          /\ seen.set = {} /\ seen.order = << >>
      BY <1>5
    <3>2. << >> \in Seq(Ids) /\ Len(<< >>) = 0 /\ ToSet(<< >>) = {} /\ NoRepeats(<< >>)
      BY DEF NoRepeats, ToSet
    <3>3. Cardinality({}) = 0
      BY FS_EmptySet
    <3> QED
      BY <2>1, <3>1, <3>2, <3>3 DEF Agrees
  <2> QED
    BY <1>4, <1>5, <2>1, <2>2 DEF SendInv
<1>8. \A i \in Ids : CopiesOf(i) = {} /\ ~InCall(i) /\ Home[i] \in Partitions
  BY <1>5, TopicAssumption DEF CopiesOf, InCall
<1>9. TopicInv
  BY <1>5, <1>8 DEF TopicInv
<1>10. ReadInv
  BY <1>5, <1>8 DEF ReadInv
<1> QED
  BY <1>6, <1>7, <1>9, <1>10 DEF ReplayInv

-----------------------------------------------------------------------------
(* Sending.                                                                *)

\* The set has room for every id of the corpus, so nothing is evicted.
LEMMA NothingForgotten ==
  ASSUME EdgeHoldsAll, ReplayTypes, Len(seen.order) = Cardinality(seen.set),
         NEW i \in Ids, i \notin seen.set
  PROVE  LET m == Memory!Remember(seen, i) IN
           /\ m.set = seen.set \cup {i} /\ m.order = Append(seen.order, i)
           /\ Cardinality(seen.set) \in Nat
           /\ Cardinality(m.set) = Cardinality(seen.set) + 1
<1>1. seen.set \in SUBSET Ids /\ seen.order \in Seq(Ids)
  BY DEF ReplayTypes
<1>2. IsFiniteSet(seen.set) /\ IsFiniteSet(seen.set \cup {i}) /\ seen.set \cup {i} \in SUBSET Ids
  BY <1>1, ReplayAssumption, FS_Subset
<1>3. Cardinality(seen.set \cup {i}) = Cardinality(seen.set) + 1 /\ Cardinality(seen.set) \in Nat
  BY <1>2, FS_AddElement, FS_CardinalityType
<1>4. Cardinality(seen.set \cup {i}) <= Cardinality(Ids)
  BY <1>2, ReplayAssumption, FS_Subset
<1>5. Cardinality(Ids) \in Nat /\ Cardinality(Ids) <= MaxWebhookIDs /\ MaxWebhookIDs \in Nat
  BY ReplayAssumption, EdgeAssumption, FS_CardinalityType DEF EdgeHoldsAll
<1>6. Len(Append(seen.order, i)) = Len(seen.order) + 1
  BY <1>1
<1>7. Len(Append(seen.order, i)) <= MaxWebhookIDs
  BY <1>3, <1>4, <1>5, <1>6
<1>8. Memory!Remember(seen, i) = [set |-> seen.set \cup {i}, order |-> Append(seen.order, i)]
  BY <1>5, <1>6, <1>7 DEF Memory!Remember, Memory!EvictOldest
<1> QED
  BY <1>3, <1>8

\* The webhook that is sent next, and the reference's next result.
LEMMA NextWebhook ==
  ASSUME NEW out, ReplayTypes, SendInv(out), next <= Len(delivered)
  PROVE  /\ next \in Nat /\ next - 1 \in Nat /\ next + 1 - 1 = next
         /\ next + 1 \in 1 .. Len(delivered) + 1
         /\ delivered[next] \in Ids
         /\ out[next] = DedupStep(out[next - 1], delivered[next])
         /\ {delivered[k] : k \in 1 .. next} = seen.set \cup {delivered[next]}
<1>1. /\ next \in 1 .. Len(delivered) /\ next \in Nat /\ next - 1 \in Nat
      /\ next + 1 \in 1 .. Len(delivered) + 1 /\ delivered[next] \in Ids
      /\ next + 1 - 1 = next
  BY DEF ReplayTypes
<1>2. out[next] = DedupStep(out[next - 1], delivered[next])
  BY <1>1 DEF SendInv, PrefixResults
<1>3. 1 .. next = (1 .. next - 1) \cup {next}
  BY <1>1
<1>4. {delivered[k] : k \in 1 .. next} = {delivered[k] : k \in 1 .. next - 1} \cup {delivered[next]}
  BY <1>3
<1> QED
  BY <1>1, <1>2, <1>4 DEF SendInv

LEMMA CountedOne ==
  ASSUME ReplayTypes, NEW what \in {"accepted", "rejected", "errors"}, Counted(what)
  PROVE  /\ count' \in [accepted : Nat, rejected : Nat, errors : Nat]
         /\ count'[what] = count[what] + 1 /\ count[what] \in Nat
         /\ \A w \in {"accepted", "rejected", "errors"} : w # what => count'[w] = count[w]
<1>1. count \in [accepted : Nat, rejected : Nat, errors : Nat]
  BY DEF ReplayTypes
<1>2. count' = [count EXCEPT ![what] = @ + 1]
  BY DEF Counted
<1>3. CASE what = "accepted"
  BY <1>1, <1>2, <1>3
<1>4. CASE what = "rejected"
  BY <1>1, <1>2, <1>4
<1>5. CASE what = "errors"
  BY <1>1, <1>2, <1>5
<1> QED
  BY <1>3, <1>4, <1>5

LEMMA DuplicateKeeps ==
  ASSUME NEW out, ReplayInv(out), NEW s \in Senders, main = "send", next <= Len(delivered),
         PostDuplicate(s, delivered[next]), Counted("rejected"), next' = next + 1,
         UNCHANGED <<main, delivered, landed, unread, cut, match>>
  PROVE  ReplayInv(out)'
<1> DEFINE i == delivered[next]
<1> PICK q : q = out[next - 1]
  OBVIOUS
<1>1. ReplayTypes /\ SendInv(out) /\ TopicInv /\ ReadInv
  BY DEF ReplayInv
<1>2. /\ next \in Nat /\ next - 1 \in Nat /\ next + 1 - 1 = next
      /\ next + 1 \in 1 .. Len(delivered) + 1 /\ i \in Ids
      /\ out[next] = DedupStep(q, i)
      /\ {delivered[k] : k \in 1 .. next} = seen.set \cup {i}
  BY <1>1, NextWebhook
<1>3. /\ i \in seen.set /\ used' = used + 1 /\ UNCHANGED <<seen, call, late, part>>
  BY DEF PostDuplicate, EdgeSpend
<1>4. /\ count' \in [accepted : Nat, rejected : Nat, errors : Nat]
      /\ count'.accepted = count.accepted /\ count'.errors = count.errors
      /\ count'.rejected = count.rejected + 1 /\ count.rejected \in Nat
  BY <1>1, CountedOne
<1>4a. used' \in Nat /\ used \in Nat
  <2>1. used \in Nat
    BY <1>1 DEF ReplayTypes
  <2> QED
    BY <1>3, <2>1
<1> HIDE DEF i
<1>5. ReplayTypes'
  BY <1>1, <1>2, <1>3, <1>4, <1>4a DEF ReplayTypes
<1>6. SendInv(out)'
  <2>1. Agrees(q)
    BY <1>1 DEF SendInv
  <2>2. out[next] = q
    BY <1>2, <1>3, <2>1, StepOnKnown DEF Agrees
  <2>3. next' - 1 = next /\ (Calling <=> Calling')
    BY <1>2, <1>3 DEF Calling
  <2>4. Len(q) \in Nat
    BY <2>1 DEF Agrees
  <2>5. count.rejected + 1 = next - Len(q)
    BY <1>2, <1>4, <2>1, <2>4 DEF Agrees
  <2>6. Agrees(q)'
    BY <1>3, <1>4, <2>1, <2>3, <2>5 DEF Agrees
  <2>7. Agrees(out[next - 1])'
    BY <2>2, <2>3, <2>6
  <2>8. seen'.set = {delivered'[k] : k \in 1 .. next' - 1}
    BY <1>2, <1>3, <2>3
  <2> QED
    BY <1>1, <2>7, <2>8 DEF SendInv
<1>7. Quiet' => Quiet
  BY <1>2, <1>3, <1>4, <1>4a DEF Quiet
<1>8. TopicInv'
  <2>1. used' >= next' - 1
    BY <1>1, <1>2, <1>3, <1>4a DEF TopicInv
  <2> QED
    BY <1>1, <1>3, <1>7, <2>1 DEF TopicInv, InCall, CopiesOf
<1>9. ReadInv'
  BY <1>1, <1>3, <1>7 DEF ReadInv, Landed, InTopic, CopiesOf
<1> QED
  BY <1>5, <1>6, <1>8, <1>9 DEF ReplayInv

LEMMA NewKeeps ==
  ASSUME EdgeHoldsAll, NEW out, ReplayInv(out), NEW s \in Senders, main = "send",
         next <= Len(delivered), PostNew(s, delivered[next]), next' = next + 1,
         UNCHANGED <<main, delivered, count, landed, unread, cut, match>>
  PROVE  ReplayInv(out)'
<1> DEFINE i == delivered[next]
<1> PICK q : q = out[next - 1]
  OBVIOUS
<1> PICK r : r = out[next]
  OBVIOUS
<1>1. ReplayTypes /\ SendInv(out) /\ TopicInv /\ ReadInv
  BY DEF ReplayInv
<1>2. /\ next \in Nat /\ next - 1 \in Nat /\ next + 1 - 1 = next
      /\ next + 1 \in 1 .. Len(delivered) + 1 /\ i \in Ids
      /\ r = DedupStep(q, i)
      /\ {delivered[k] : k \in 1 .. next} = seen.set \cup {i}
  BY <1>1, NextWebhook
<1> HIDE DEF i
<1>3. /\ i \notin seen.set /\ used' = used + 1 /\ UNCHANGED <<late, part>>
      /\ call[s] = {} /\ call' = [call EXCEPT ![s] = {i}]
      /\ seen' = Memory!Remember(seen, i)
  BY DEF PostNew, EdgeSpend, i
<1>4. Agrees(q)
  BY <1>1 DEF SendInv
<1>5. /\ seen'.set = seen.set \cup {i} /\ seen'.order = Append(seen.order, i)
      /\ Cardinality(seen.set) \in Nat
      /\ Cardinality(seen'.set) = Cardinality(seen.set) + 1
  <2>1. Len(seen.order) = Cardinality(seen.set)
    BY <1>4 DEF Agrees
  <2> QED
    BY <1>1, <1>2, <1>3, <2>1, NothingForgotten
<1>6. /\ used' \in Nat /\ used \in Nat /\ seen.order \in Seq(Ids) /\ seen.set \in SUBSET Ids
      /\ count.accepted \in Nat /\ count.errors \in Nat /\ count.rejected \in Nat
      /\ call \in [Senders -> {{}} \cup {{j} : j \in Ids}]
  <2>1. used \in Nat /\ count \in [accepted : Nat, rejected : Nat, errors : Nat]
    BY <1>1 DEF ReplayTypes
  <2>2. /\ seen.order \in Seq(Ids) /\ seen.set \in SUBSET Ids
        /\ call \in [Senders -> {{}} \cup {{j} : j \in Ids}]
    BY <1>1 DEF ReplayTypes
  <2> QED
    BY <1>3, <2>1, <2>2
<1>7. call' \in [Senders -> {{}} \cup {{j} : j \in Ids}] /\ call'[s] = {i}
      /\ \A t \in Senders : t # s => call'[t] = call[t]
  BY <1>2, <1>3, <1>6
<1>8. seen'.order \in Seq(Ids) /\ Len(seen'.order) = Len(seen.order) + 1
      /\ seen'.set \in SUBSET Ids
  BY <1>2, <1>5, <1>6
<1>9. ReplayTypes'
  <2>1. next' \in 1 .. Len(delivered') + 1
    BY <1>2
  <2>2. /\ count' \in [accepted : Nat, rejected : Nat, errors : Nat]
        /\ late' \in [Ids -> Nat] /\ part' \in [Partitions -> Seq(Ids)]
        /\ landed' \in [Ids -> Nat] /\ unread' \in SUBSET Partitions /\ cut' \in BOOLEAN
        /\ delivered' \in Seq(Ids) /\ ToSet(delivered') = Ids
    BY <1>1, <1>3 DEF ReplayTypes
  <2> QED
    BY <1>6, <1>7, <1>8, <2>1, <2>2 DEF ReplayTypes
<1>10. ~Calling /\ Calling'
  BY <1>3, <1>7, ReplayAssumption DEF Calling
<1>11. SendInv(out)'
  <2>1. r \in Seq(Ids) /\ Len(r) = Len(q) + 1 /\ ToSet(r) = ToSet(q) \cup {i} /\ NoRepeats(r)
    BY <1>2, <1>3, <1>4, StepOnNew DEF Agrees
  <2>2. Len(q) \in Nat /\ Len(q) = count.accepted + count.errors + 0
        /\ Len(q) = Cardinality(seen.set) /\ Len(q) = Len(seen.order)
        /\ count.rejected = next - 1 - Len(q) /\ ToSet(q) = seen.set
    BY <1>4, <1>10 DEF Agrees
  <2>3. /\ Len(r) = count.accepted + count.errors + 1
        /\ count.rejected = next + 1 - 1 - Len(r)
    <3>1. Len(r) = count.accepted + count.errors + 1
      BY <1>6, <2>1, <2>2
    <3>2. next \in Nat /\ Len(q) \in Nat /\ Len(r) = Len(q) + 1
          /\ count.rejected = next - 1 - Len(q)
      BY <1>2, <2>1, <2>2
    <3>3. count.rejected = next + 1 - 1 - Len(r)
      BY <3>2
    <3> QED
      BY <3>1, <3>3
  <2>8. Len(r) = Cardinality(seen'.set) /\ Len(r) = Len(seen'.order)
    BY <1>5, <1>8, <2>1, <2>2
  <2>9. ToSet(r) = seen'.set
    BY <1>5, <2>1, <2>2
  <2>4. Agrees(r)'
    <3>2. count' = count /\ next' = next + 1
      OBVIOUS
    <3>3. count'.rejected = next' - 1 - Len(r)
      <4>1. next \in Nat /\ next' \in Nat /\ next' = next + 1
        BY <1>2, <3>2
      <4>2. count'.rejected = next + 1 - 1 - Len(r)
        BY <2>3, <3>2
      <4> QED
        BY <4>1, <4>2
    <3>1. Len(r) = count'.accepted + count'.errors + (IF Calling' THEN 1 ELSE 0)
      BY <1>10, <2>3, <3>2
    <3> QED
      BY <2>1, <2>8, <2>9, <3>1, <3>3 DEF Agrees
  <2>5. next' - 1 = next
    BY <1>2
  <2>6. Agrees(out[next - 1])'
    BY <2>4, <2>5
  <2>7. seen'.set = {delivered'[k] : k \in 1 .. next' - 1}
    BY <1>2, <1>5, <2>5
  <2> QED
    BY <1>1, <2>6, <2>7 DEF SendInv
<1>12. Quiet' => Quiet
  BY <1>2, <1>6, <1>3 DEF Quiet
<1>13. /\ \A j \in Ids : j = i => InCall(j)'
       /\ \A j \in Ids : j # i => (InCall(j) <=> InCall(j)') /\ (j \in seen.set <=> j \in seen'.set)
       /\ \A j \in Ids : CopiesOf(j)' = CopiesOf(j)
  <2>1. \A j \in Ids : j = i => InCall(j)'
    <3>1. \A j \in Ids : j = i => j \in call'[s]
      BY <1>7
    <3> QED
      BY <3>1 DEF InCall
  <2>2. \A j \in Ids : j # i => (InCall(j) <=> InCall(j)')
    BY <1>3, <1>7 DEF InCall
  <2>3. \A j \in Ids : CopiesOf(j)' = CopiesOf(j)
    BY <1>3 DEF CopiesOf
  <2> QED
    BY <1>5, <2>1, <2>2, <2>3
<1>14. TopicInv'
  <2>1. used' >= next' - 1
    BY <1>1, <1>2, <1>3, <1>6 DEF TopicInv
  <2>2. \A j \in Ids : InCall(j)' => j \in seen'.set
    BY <1>1, <1>5, <1>13 DEF TopicInv
  <2>3. ASSUME Quiet', NEW j \in Ids
        PROVE  /\ late'[j] = 0
               /\ IF j \in seen'.set /\ ~InCall(j)' THEN \E n \in Nat : CopiesOf(j)' = {n}
                  ELSE CopiesOf(j)' = {}
    <3>1. /\ late[j] = 0
          /\ IF j \in seen.set /\ ~InCall(j) THEN \E n \in Nat : CopiesOf(j) = {n}
             ELSE CopiesOf(j) = {}
      BY <1>1, <1>12, <2>3 DEF TopicInv
    <3>2. CASE j = i
      <4>1. j \notin seen.set
        BY <1>3, <3>2
      <4>2. CopiesOf(j) = {}
        BY <3>1, <4>1
      <4>3. InCall(j)' /\ CopiesOf(j)' = CopiesOf(j)
        BY <1>13, <3>2
      <4> QED
        BY <1>3, <3>1, <4>2, <4>3
    <3>3. CASE j # i
      BY <1>3, <1>13, <3>1, <3>3
    <3> QED
      BY <3>2, <3>3
  <2>4. \A p \in Partitions : \A n \in DOMAIN part'[p] : Home[part'[p][n]] = p
    BY <1>1, <1>3 DEF TopicInv
  <2> QED
    BY <2>1, <2>2, <2>3, <2>4 DEF TopicInv
<1>15. ReadInv'
  BY <1>1, <1>3, <1>12 DEF ReadInv, Landed, InTopic, CopiesOf
<1> QED
  BY <1>9, <1>11, <1>14, <1>15 DEF ReplayInv

-----------------------------------------------------------------------------
(* The topic.                                                              *)

\* A write only adds, and only at home; a plain one adds one copy.
LEMMA StoredIs ==
  ASSUME ReplayTypes, TopicInv, NEW i \in Ids, Stored(i)
  PROVE  /\ part' \in [Partitions -> Seq(Ids)] /\ used' \in Nat /\ used' >= used
         /\ \A p \in Partitions : \A n \in DOMAIN part'[p] : Home[part'[p][n]] = p
         /\ \A j \in Ids : Landed(j) => Landed(j)'
         /\ used' = used =>
              /\ \A j \in Ids : j # i => CopiesOf(j)' = CopiesOf(j)
              /\ CopiesOf(i) = {} => \E n \in Nat : CopiesOf(i)' = {n}
<1> DEFINE h == Home[i]
           old == part[h]
<1>1. h \in Partitions /\ old \in Seq(Ids) /\ part \in [Partitions -> Seq(Ids)] /\ used \in Nat
      /\ Len(old) \in Nat /\ DOMAIN old = 1 .. Len(old)
  BY TopicAssumption DEF ReplayTypes
<1> PICK new : new = part'[h]
  OBVIOUS
<1>2. /\ part' = [part EXCEPT ![h] = new]
      /\ \/ new = Append(old, i) /\ used' = used
         \/ new = old \o <<i, i>> /\ used' = used + 1
  BY <1>1 DEF Stored, EdgeSpend
<1> HIDE DEF h, old
<1>3. /\ new \in Seq(Ids) /\ Len(new) \in Nat /\ DOMAIN new = 1 .. Len(new) /\ Len(new) > Len(old)
      /\ \A n \in 1 .. Len(old) : new[n] = old[n]
      /\ \A n \in 1 .. Len(new) : n > Len(old) => new[n] = i
  <2>1. CASE new = Append(old, i)
    BY <1>1, <2>1, AppendProperties
  <2>2. CASE new = old \o <<i, i>>
    <3> PICK two : two = <<i, i>>
      OBVIOUS
    <3>1. two \in Seq(Ids) /\ Len(two) = 2 /\ \A k \in 1 .. 2 : two[k] = i
      OBVIOUS
    <3>2. /\ new \in Seq(Ids) /\ Len(new) = Len(old) + 2
          /\ \A n \in 1 .. Len(new) : new[n] = IF n <= Len(old) THEN old[n] ELSE two[n - Len(old)]
      BY <1>1, <2>2, <3>1, ConcatProperties
    <3>3. \A n \in 1 .. Len(old) : new[n] = old[n]
      BY <1>1, <3>2
    <3>4. ASSUME NEW n \in 1 .. Len(new), n > Len(old) PROVE new[n] = i
      <4>1. n - Len(old) \in 1 .. 2
        BY <1>1, <3>2, <3>4
      <4> QED
        BY <1>1, <3>1, <3>2, <3>4, <4>1
    <3>5. Len(new) \in Nat /\ DOMAIN new = 1 .. Len(new) /\ Len(new) > Len(old)
      BY <1>1, <3>2
    <3> QED
      BY <3>2, <3>3, <3>4, <3>5
  <2> QED
    BY <1>2, <2>1, <2>2
<1>4. part' \in [Partitions -> Seq(Ids)] /\ part'[h] = new
      /\ \A p \in Partitions : p # h => part'[p] = part[p]
  BY <1>1, <1>2, <1>3
<1>5. used' \in Nat /\ used' >= used
  BY <1>1, <1>2
<1>6. ASSUME NEW p \in Partitions, NEW n \in DOMAIN part'[p] PROVE Home[part'[p][n]] = p
  <2>1. CASE p # h
    BY <1>4, <2>1 DEF TopicInv
  <2>2. CASE p = h /\ n \in 1 .. Len(old)
    <3>1. Home[old[n]] = h
      BY <1>1, <2>2 DEF TopicInv, old
    <3> QED
      BY <1>3, <1>4, <2>2, <3>1
  <2>3. CASE p = h /\ n \notin 1 .. Len(old)
    <3>1. n \in 1 .. Len(new) /\ n > Len(old)
      BY <1>1, <1>3, <1>4, <2>3
    <3>2. part'[p][n] = i
      BY <1>3, <1>4, <2>3, <3>1
    <3> QED
      BY <2>3, <3>2 DEF h
  <2> QED
    BY <2>1, <2>2, <2>3
<1>7. \A j \in Ids : Home[j] # h => CopiesOf(j)' = CopiesOf(j)
  BY <1>4, TopicAssumption DEF CopiesOf
<1>8. \A j \in Ids : Home[j] = h =>
        /\ CopiesOf(j) = {n \in 1 .. Len(old) : old[n] = j}
        /\ CopiesOf(j)' = {n \in 1 .. Len(new) : new[n] = j}
  BY <1>1, <1>3, <1>4 DEF CopiesOf, old
<1>9. \A j \in Ids : CopiesOf(j) \subseteq CopiesOf(j)'
  <2>1. ASSUME NEW j \in Ids, Home[j] = h PROVE CopiesOf(j) \subseteq CopiesOf(j)'
    BY <1>1, <1>3, <1>8, <2>1
  <2> QED
    BY <1>7, <2>1
<1>10. \A j \in Ids : Landed(j) => Landed(j)'
  BY <1>9 DEF Landed
<1>11. ASSUME used' = used
       PROVE  /\ \A j \in Ids : j # i => CopiesOf(j)' = CopiesOf(j)
              /\ CopiesOf(i) = {} => \E n \in Nat : CopiesOf(i)' = {n}
  <2>1. Len(new) = Len(old) + 1
    BY <1>1, <1>2, <1>11, AppendProperties
  <2>2. new[Len(new)] = i
    BY <1>1, <1>3, <2>1
  <2>3. ASSUME NEW j \in Ids, Home[j] = h, j # i PROVE CopiesOf(j)' = CopiesOf(j)
    <3>1. \A n \in 1 .. Len(new) : new[n] = j => n \in 1 .. Len(old)
      BY <1>1, <1>3, <2>1, <2>3
    <3>2. {n \in 1 .. Len(new) : new[n] = j} = {n \in 1 .. Len(old) : old[n] = j}
      BY <1>1, <1>3, <2>1, <3>1
    <3> QED
      BY <1>8, <2>3, <3>2
  <2>4. ASSUME CopiesOf(i) = {} PROVE CopiesOf(i)' = {Len(new)}
    <3>1. {n \in 1 .. Len(old) : old[n] = i} = {}
      BY <1>8, <2>4 DEF h
    <3>4. \A n \in 1 .. Len(old) : old[n] # i
      BY <3>1
    <3>5. \A n \in 1 .. Len(new) : n \in 1 .. Len(old) \/ n = Len(new)
      BY <1>1, <1>3, <2>1
    <3>2. \A n \in 1 .. Len(new) : new[n] = i <=> n = Len(new)
      BY <1>3, <2>2, <3>4, <3>5
    <3>3. {n \in 1 .. Len(new) : new[n] = i} = {Len(new)}
      BY <1>1, <1>3, <2>1, <3>2
    <3> QED
      BY <1>8, <3>3 DEF h
  <2> QED
    BY <1>3, <1>7, <2>3, <2>4
<1> QED
  BY <1>4, <1>5, <1>6, <1>10, <1>11

\* The one call ends, whatever its answer.
CallEnded(s, i) ==
  /\ i \in Ids /\ call[s] = {i} /\ call' \in [Senders -> {{}} \cup {{j} : j \in Ids}]
  /\ Calling /\ ~Calling' /\ \A j \in Ids : (InCall(j) <=> j = i) /\ ~InCall(j)'

LEMMA CallEnds ==
  ASSUME ReplayTypes, NEW s \in Senders, NEW i \in call[s], call' = [call EXCEPT ![s] = {}]
  PROVE  CallEnded(s, i)
<1>1. call \in [Senders -> {{}} \cup {{j} : j \in Ids}]
  BY DEF ReplayTypes
<1>2. \A t \in Senders : t = s
  BY ReplayAssumption
<1>3. i \in Ids /\ call[s] = {i}
  BY <1>1
<1>4. call' \in [Senders -> {{}} \cup {{j} : j \in Ids}] /\ call'[s] = {}
  BY <1>1
<1>5. Calling /\ ~Calling'
  BY <1>2, <1>3, <1>4 DEF Calling
<1>6. \A j \in Ids : InCall(j) <=> j = i
  BY <1>2, <1>3 DEF InCall
<1>7. \A j \in Ids : ~InCall(j)'
  BY <1>2, <1>4 DEF InCall
<1> QED
  BY <1>3, <1>4, <1>5, <1>6, <1>7 DEF CallEnded

\* Nothing is read back while webhooks are being sent.
LEMMA SendPhase ==
  ASSUME NEW out, ReplayInv(out), Calling \/ main = "send"
  PROVE  /\ used \in Nat /\ next \in Nat /\ next - 1 \in Nat /\ used >= next - 1
         /\ main = "send" /\ unread = Partitions /\ ~cut
         /\ \A j \in Ids : landed[j] = 0 /\ Home[j] \in Partitions
<1>1. delivered \in Seq(Ids) /\ next \in 1 .. Len(delivered) + 1 /\ used \in Nat
  BY DEF ReplayInv, ReplayTypes
<1>2. Len(delivered) \in Nat
  BY <1>1, LenProperties
<1>3. next \in Nat /\ next - 1 \in Nat
  BY <1>1, <1>2
<1>4. used >= next - 1
  BY DEF ReplayInv, TopicInv
<1>5. main = "send"
  BY DEF ReplayInv, SendInv
<1>6. unread = Partitions /\ ~cut /\ \A j \in Ids : landed[j] = 0
  BY <1>5 DEF ReplayInv, ReadInv
<1>7. \A j \in Ids : Home[j] \in Partitions
  BY TopicAssumption
<1> QED
  BY <1>1, <1>3, <1>4, <1>5, <1>6, <1>7

LEMMA AckedKeeps ==
  ASSUME NEW out, ReplayInv(out), NEW s \in Senders, ProduceAcked(s), Counted("accepted"),
         UNCHANGED <<main, delivered, next, landed, unread, cut, match>>
  PROVE  ReplayInv(out)'
<1>1. ReplayTypes /\ SendInv(out) /\ TopicInv /\ ReadInv
  BY DEF ReplayInv
<1>2. PICK i \in call[s] : /\ Stored(i) /\ call' = [call EXCEPT ![s] = {}]
                           /\ UNCHANGED <<seen, late>>
  BY DEF ProduceAcked
<1>3. CallEnded(s, i)
  BY <1>1, <1>2, CallEnds
<1>4. /\ count' \in [accepted : Nat, rejected : Nat, errors : Nat]
      /\ count'.accepted = count.accepted + 1 /\ count.accepted \in Nat
      /\ count'.errors = count.errors /\ count'.rejected = count.rejected
  BY <1>1, CountedOne
<1>5. count.errors \in Nat
  BY <1>1 DEF ReplayTypes
<1>6. /\ i \in Ids /\ call[s] = {i} /\ call' \in [Senders -> {{}} \cup {{j} : j \in Ids}]
      /\ Calling /\ ~Calling' /\ \A j \in Ids : (InCall(j) <=> j = i) /\ ~InCall(j)'
  BY <1>3 DEF CallEnded
<1>7. /\ part' \in [Partitions -> Seq(Ids)] /\ used' \in Nat /\ used' >= used
      /\ \A p \in Partitions : \A n \in DOMAIN part'[p] : Home[part'[p][n]] = p
      /\ \A j \in Ids : Landed(j) => Landed(j)'
      /\ used' = used =>
           /\ \A j \in Ids : j # i => CopiesOf(j)' = CopiesOf(j)
           /\ CopiesOf(i) = {} => \E n \in Nat : CopiesOf(i)' = {n}
  BY <1>1, <1>2, <1>6, StoredIs
<1>8. /\ used \in Nat /\ next \in Nat /\ next - 1 \in Nat /\ next' = next
      /\ used >= next - 1 /\ main = "send" /\ unread = Partitions /\ ~cut
      /\ \A j \in Ids : landed[j] = 0 /\ Home[j] \in Partitions
  BY <1>2, <1>6, SendPhase
<1>9. Quiet' => Quiet /\ used' = used
  BY <1>4, <1>7, <1>8 DEF Quiet
<1>10. ReplayTypes'
  BY <1>1, <1>2, <1>4, <1>6, <1>7 DEF ReplayTypes
<1>11. SendInv(out)'
  <2> PICK q : q = out[next - 1]
    OBVIOUS
  <2>1. Agrees(q)
    BY <1>1 DEF SendInv
  <2>2. Len(q) \in Nat /\ Len(q) = count.accepted + count.errors + 1
    BY <1>6, <2>1 DEF Agrees
  <2>3. Len(q) = count'.accepted + count'.errors + 0
    BY <1>4, <1>5, <2>2
  <2>4. count'.rejected = next' - 1 - Len(q)
    BY <1>4, <1>8, <2>1 DEF Agrees
  <2>5. Agrees(q)'
    <3>1. Len(q) = count'.accepted + count'.errors + (IF Calling' THEN 1 ELSE 0)
      BY <1>6, <2>3
    <3> QED
      BY <1>2, <2>1, <2>4, <3>1 DEF Agrees
  <2>6. Agrees(out[next - 1])'
    BY <1>8, <2>5
  <2> QED
    BY <1>1, <1>2, <1>8, <2>6 DEF SendInv
<1>12. TopicInv'
  <2>1. used' >= next' - 1
    BY <1>7, <1>8
  <2>2. ASSUME Quiet', NEW j \in Ids
        PROVE  /\ late'[j] = 0
               /\ IF j \in seen'.set /\ ~InCall(j)' THEN \E n \in Nat : CopiesOf(j)' = {n}
                  ELSE CopiesOf(j)' = {}
    <3>1. /\ late[j] = 0
          /\ IF j \in seen.set /\ ~InCall(j) THEN \E n \in Nat : CopiesOf(j) = {n}
             ELSE CopiesOf(j) = {}
      BY <1>1, <1>9, <2>2 DEF TopicInv
    <3>2. used' = used /\ ~InCall(j)'
      BY <1>6, <1>9, <2>2
    <3>3. CASE j = i
      <4>1. InCall(j) /\ j \in seen.set
        BY <1>1, <1>6, <3>3 DEF TopicInv
      <4>2. CopiesOf(j) = {}
        BY <3>1, <4>1
      <4>3. CopiesOf(i) = {}
        BY <3>3, <4>2 DEF CopiesOf
      <4>4. \E n \in Nat : CopiesOf(i)' = {n}
        BY <1>7, <3>2, <4>3
      <4>5. \E n \in Nat : CopiesOf(j)' = {n}
        BY <3>3, <4>4 DEF CopiesOf
      <4> QED
        BY <1>2, <3>1, <3>2, <4>1, <4>5
    <3>4. CASE j # i
      <4>1. ~InCall(j) /\ CopiesOf(j)' = CopiesOf(j)
        BY <1>6, <1>7, <3>2, <3>4
      <4> QED
        BY <1>2, <3>1, <3>2, <4>1
    <3> QED
      BY <3>3, <3>4
  <2> QED
    BY <1>6, <1>7, <2>1, <2>2 DEF TopicInv
<1>13. ReadInv'
  BY <1>8 DEF ReadInv
<1> QED
  BY <1>10, <1>11, <1>12, <1>13 DEF ReplayInv

LEMMA FailsKeeps ==
  ASSUME NEW out, ReplayInv(out), NEW s \in Senders, ProduceFails(s), Counted("errors"),
         UNCHANGED <<main, delivered, next, landed, unread, cut, match>>
  PROVE  ReplayInv(out)'
<1>1. ReplayTypes /\ SendInv(out) /\ TopicInv /\ ReadInv
  BY DEF ReplayInv
<1>2. PICK i \in call[s] : /\ late' \in {late, [late EXCEPT ![i] = @ + 1]}
                           /\ call' = [call EXCEPT ![s] = {}]
                           /\ UNCHANGED <<seen, part, used>>
  BY DEF ProduceFails
<1>3. CallEnded(s, i)
  BY <1>1, <1>2, CallEnds
<1>4. /\ count' \in [accepted : Nat, rejected : Nat, errors : Nat]
      /\ count'.errors = count.errors + 1 /\ count.errors \in Nat
      /\ count'.accepted = count.accepted /\ count'.rejected = count.rejected
  BY <1>1, CountedOne
<1>5. count.accepted \in Nat
  BY <1>1 DEF ReplayTypes
<1>6. /\ i \in Ids /\ call[s] = {i} /\ call' \in [Senders -> {{}} \cup {{j} : j \in Ids}]
      /\ Calling /\ ~Calling' /\ \A j \in Ids : (InCall(j) <=> j = i) /\ ~InCall(j)'
  BY <1>3 DEF CallEnded
<1>7. /\ next \in Nat /\ next - 1 \in Nat /\ next' = next
      /\ used >= next - 1 /\ main = "send" /\ unread = Partitions /\ ~cut
      /\ \A j \in Ids : landed[j] = 0 /\ Home[j] \in Partitions
  BY <1>2, <1>6, SendPhase
<1>8. ~Quiet'
  BY <1>4 DEF Quiet
<1>9. late' \in [Ids -> Nat]
  <2>1. late \in [Ids -> Nat]
    BY <1>1 DEF ReplayTypes
  <2>2. late[i] + 1 \in Nat
    BY <1>6, <2>1
  <2> QED
    BY <1>2, <1>6, <2>1, <2>2
<1>10. ReplayTypes'
  BY <1>1, <1>2, <1>4, <1>6, <1>9 DEF ReplayTypes
<1>11. SendInv(out)'
  <2> PICK q : q = out[next - 1]
    OBVIOUS
  <2>1. Agrees(q)
    BY <1>1 DEF SendInv
  <2>2. Len(q) \in Nat /\ Len(q) = count.accepted + count.errors + 1
    BY <1>6, <2>1 DEF Agrees
  <2>3. Len(q) = count'.accepted + count'.errors + 0
    BY <1>4, <1>5, <2>2
  <2>4. count'.rejected = next' - 1 - Len(q)
    BY <1>4, <1>7, <2>1 DEF Agrees
  <2>5. Agrees(q)'
    <3>1. Len(q) = count'.accepted + count'.errors + (IF Calling' THEN 1 ELSE 0)
      BY <1>6, <2>3
    <3> QED
      BY <1>2, <2>1, <2>4, <3>1 DEF Agrees
  <2>6. Agrees(out[next - 1])'
    BY <1>7, <2>5
  <2> QED
    BY <1>1, <1>2, <1>7, <2>6 DEF SendInv
<1>12. TopicInv'
  BY <1>1, <1>2, <1>6, <1>7, <1>8 DEF TopicInv
<1>13. ReadInv'
  BY <1>7, <1>8 DEF ReadInv
<1> QED
  BY <1>10, <1>11, <1>12, <1>13 DEF ReplayInv

\* The writer still holds something only after an error.
LEMMA WriterKeeps ==
  ASSUME NEW out, ReplayInv(out), Writer
  PROVE  ReplayInv(out)'
<1>1. ReplayTypes /\ SendInv(out) /\ TopicInv /\ ReadInv
  BY DEF ReplayInv
<1>2. PICK i \in Ids : LateWrite(i) \/ LateDrop(i)
  BY DEF Writer
<1>3. /\ late[i] > 0 /\ late' = [late EXCEPT ![i] = @ - 1]
      /\ UNCHANGED <<seen, call>> /\ UNCHANGED replayVars
      /\ Stored(i) \/ UNCHANGED <<part, used>>
  BY <1>2 DEF LateWrite, LateDrop, Writer
<1>4. UNCHANGED <<main, delivered, next, count, landed, unread, cut, match>>
  BY <1>3 DEF replayVars
<1>5. part \in [Partitions -> Seq(Ids)] /\ used \in Nat /\ late \in [Ids -> Nat] /\ next \in Nat
  BY <1>1 DEF ReplayTypes
<1>6. /\ part' \in [Partitions -> Seq(Ids)] /\ used' \in Nat /\ used' >= used
      /\ \A p \in Partitions : \A n \in DOMAIN part'[p] : Home[part'[p][n]] = p
      /\ \A j \in Ids : Landed(j) => Landed(j)'
  <2>1. CASE Stored(i)
    BY <1>1, <2>1, StoredIs
  <2>2. CASE UNCHANGED <<part, used>>
    BY <1>1, <1>5, <2>2 DEF TopicInv, Landed, CopiesOf
  <2> QED
    BY <1>3, <2>1, <2>2
<1>7. ~Quiet
  BY <1>1, <1>3 DEF TopicInv
<1>8. used >= next - 1 /\ next - 1 \in Int
  BY <1>1, <1>5 DEF TopicInv
<1>9. ~Quiet'
  BY <1>4, <1>5, <1>6, <1>7, <1>8 DEF Quiet
<1>10. late' \in [Ids -> Nat]
  <2>1. late[i] - 1 \in Nat
    BY <1>3, <1>5
  <2> QED
    BY <1>3, <1>5, <2>1
<1>11. ReplayTypes'
  BY <1>1, <1>3, <1>4, <1>6, <1>10 DEF ReplayTypes
<1>12. SendInv(out)'
  BY <1>1, <1>3, <1>4 DEF SendInv, Agrees, Calling
<1>13. TopicInv'
  <2>1. used' >= next' - 1
    BY <1>4, <1>5, <1>6, <1>8
  <2> QED
    BY <1>1, <1>3, <1>6, <1>9, <2>1 DEF TopicInv, InCall
<1>14. ReadInv'
  BY <1>1, <1>4, <1>6, <1>9 DEF ReadInv
<1> QED
  BY <1>11, <1>12, <1>13, <1>14 DEF ReplayInv

-----------------------------------------------------------------------------
(* Reading back.                                                           *)

\* The steps of the read-back leave the edge and the counters alone.
LEMMA EdgeAtRest ==
  ASSUME NEW out, ReplayInv(out), UNCHANGED <<edgeVars, delivered, next, count>>,
         main' # "send" => main # "send" \/ (~Calling /\ next = Len(delivered) + 1)
  PROVE  /\ SendInv(out)' /\ TopicInv' /\ (Quiet <=> Quiet')
         /\ \A i \in Ids : (Landed(i) <=> Landed(i)') /\ InTopic(i)' = InTopic(i)
<1>1. ReplayTypes /\ SendInv(out) /\ TopicInv /\ ReadInv
  BY DEF ReplayInv
<1>2. UNCHANGED <<seen, call, late, part, used, delivered, next, count>>
  BY DEF edgeVars
<1>3. SendInv(out)'
  BY <1>1, <1>2 DEF SendInv, Agrees, Calling
<1>4. Quiet <=> Quiet'
  BY <1>2 DEF Quiet
<1>5. TopicInv'
  <2>1. \A i \in Ids : (InCall(i) <=> InCall(i)') /\ CopiesOf(i)' = CopiesOf(i)
    BY <1>2 DEF InCall, CopiesOf
  <2>2. /\ \A p \in Partitions : \A n \in DOMAIN part'[p] : Home[part'[p][n]] = p
        /\ \A i \in Ids : InCall(i)' => i \in seen'.set
        /\ used' >= next' - 1
    BY <1>1, <1>2, <2>1 DEF TopicInv
  <2>3. ASSUME Quiet', NEW i \in Ids
        PROVE  /\ late'[i] = 0
               /\ IF i \in seen'.set /\ ~InCall(i)' THEN \E n \in Nat : CopiesOf(i)' = {n}
                  ELSE CopiesOf(i)' = {}
    <3>1. /\ late[i] = 0
          /\ IF i \in seen.set /\ ~InCall(i) THEN \E n \in Nat : CopiesOf(i) = {n}
             ELSE CopiesOf(i) = {}
      BY <1>1, <1>4, <2>3 DEF TopicInv
    <3> QED
      BY <1>2, <2>1, <3>1
  <2> QED
    BY <2>2, <2>3 DEF TopicInv
<1>6. \A i \in Ids : (Landed(i) <=> Landed(i)') /\ InTopic(i)' = InTopic(i)
  BY <1>2 DEF Landed, InTopic, CopiesOf
<1> QED
  BY <1>3, <1>4, <1>5, <1>6

LEMMA SendEndsKeeps ==
  ASSUME NEW out, ReplayInv(out), SendEnds
  PROVE  ReplayInv(out)'
<1>1. ReplayTypes /\ SendInv(out) /\ TopicInv /\ ReadInv
  BY DEF ReplayInv
<1>2. /\ main = "send" /\ main' = "read"
      /\ UNCHANGED <<edgeVars, delivered, next, count>> /\ UNCHANGED <<landed, unread, cut, match>>
  BY DEF SendEnds
<1>3. ~Calling /\ next = Len(delivered) + 1
  <2>1. next \in 1 .. Len(delivered) + 1 /\ delivered \in Seq(Ids)
    BY <1>1 DEF ReplayTypes
  <2>2. next > Len(delivered) /\ ~Calling
    BY DEF SendEnds, Calling
  <2> QED
    BY <2>1, <2>2
<1>4. /\ SendInv(out)' /\ TopicInv' /\ (Quiet <=> Quiet')
      /\ \A i \in Ids : (Landed(i) <=> Landed(i)') /\ InTopic(i)' = InTopic(i)
  BY <1>2, <1>3, EdgeAtRest
<1>5. ReplayTypes'
  BY <1>1, <1>2 DEF ReplayTypes, edgeVars
<1>6. ReadInv'
  BY <1>1, <1>2, <1>4 DEF ReadInv
<1> QED
  BY <1>4, <1>5, <1>6 DEF ReplayInv

LEMMA PartOf ==
  ASSUME NEW q \in Seq(Ids), NEW n \in 0 .. Len(q), NEW i
  PROVE  /\ CountIn(SubSeq(q, 1, n), i) \in Nat
         /\ CountIn(SubSeq(q, 1, n), i) > 0 => \E k \in DOMAIN q : q[k] = i
         /\ n = Len(q) => SubSeq(q, 1, n) = q
<1> PICK r : r = SubSeq(q, 1, n)
  OBVIOUS
<1>1. r \in Seq(Ids) /\ Len(r) = n /\ DOMAIN r = 1 .. n /\ \A k \in 1 .. n : r[k] = q[k]
  OBVIOUS
<1> PICK P : P = {k \in DOMAIN r : r[k] = i}
  OBVIOUS
<1>2. P \in SUBSET (1 .. n) /\ n \in Nat
  BY <1>1
<1>3. IsFiniteSet(P)
  BY <1>2, FS_Interval, FS_Subset
<1>4. CountIn(r, i) = Cardinality(P) /\ Cardinality(P) \in Nat
  BY <1>3, FS_CardinalityType DEF CountIn
<1>5. P = {} => Cardinality(P) = 0
  BY FS_EmptySet
<1>6. P # {} => \E k \in DOMAIN q : q[k] = i
  BY <1>1
<1>7. n = Len(q) => r = q
  BY <1>1
<1>8. CountIn(r, i) \in Nat /\ (CountIn(r, i) > 0 => \E k \in DOMAIN q : q[k] = i)
  <2>1. CASE P = {}
    <3>1. CountIn(r, i) = 0
      BY <1>4, <1>5, <2>1
    <3> QED
      BY <3>1
  <2>2. CASE P # {}
    <3>1. CountIn(r, i) \in Nat
      BY <1>4
    <3> QED
      BY <1>6, <2>2, <3>1
  <2> QED
    BY <2>1, <2>2
<1> QED
  BY <1>7, <1>8

LEMMA ReadPartitionKeeps ==
  ASSUME NEW out, ReplayInv(out), NEW p \in Partitions, ReadPartition(p)
  PROVE  ReplayInv(out)'
<1>1. ReplayTypes /\ SendInv(out) /\ TopicInv /\ ReadInv
  BY DEF ReplayInv
<1>2. PICK n \in 0 .. Len(part[p]) :
        /\ landed' = [i \in Ids |-> landed[i] + CountIn(SubSeq(part[p], 1, n), i)]
        /\ cut' = (cut \/ n < Len(part[p]))
  BY DEF ReadPartition
<1>3. /\ main = "read" /\ p \in unread /\ unread' = unread \ {p}
      /\ UNCHANGED <<edgeVars, delivered, next, count>> /\ UNCHANGED <<main, match>>
  BY DEF ReadPartition
<1>4. /\ SendInv(out)' /\ TopicInv' /\ (Quiet <=> Quiet')
      /\ \A i \in Ids : (Landed(i) <=> Landed(i)') /\ InTopic(i)' = InTopic(i)
  BY <1>3, EdgeAtRest
<1> PICK q : q = part[p]
  OBVIOUS
<1>5. q \in Seq(Ids) /\ Len(q) \in Nat /\ landed \in [Ids -> Nat] /\ cut \in BOOLEAN
  BY <1>1 DEF ReplayTypes
<1>6. \A i \in Ids :
        /\ CountIn(SubSeq(q, 1, n), i) \in Nat
        /\ CountIn(SubSeq(q, 1, n), i) > 0 => \E k \in DOMAIN q : q[k] = i
        /\ n = Len(q) => SubSeq(q, 1, n) = q
  BY <1>2, <1>5, PartOf
<1>7. \A i \in Ids : landed'[i] = landed[i] + CountIn(SubSeq(q, 1, n), i)
  BY <1>2
<1>8. landed' \in [Ids -> Nat] /\ cut' \in BOOLEAN
  BY <1>2, <1>5, <1>6
<1>9. ReplayTypes'
  BY <1>1, <1>3, <1>8 DEF ReplayTypes, edgeVars
<1>10. \A i \in Ids : (\E k \in DOMAIN q : q[k] = i) => Home[i] = p /\ Landed(i)
  BY <1>1 DEF TopicInv, Landed, CopiesOf
<1>11. \A i \in Ids : landed'[i] > 0 => Landed(i)'
  <2>1. ASSUME NEW i \in Ids, landed'[i] > 0 PROVE Landed(i)
    <3>1. landed[i] > 0 \/ CountIn(SubSeq(q, 1, n), i) > 0
      BY <1>5, <1>6, <1>7, <2>1
    <3> QED
      BY <1>1, <1>6, <1>10, <3>1 DEF ReadInv
  <2> QED
    BY <1>4, <2>1
<1>12. ASSUME Quiet', ~cut', NEW i \in Ids
       PROVE  landed'[i] = IF Home[i] \in unread' THEN 0 ELSE InTopic(i)'
  <2>1. Quiet /\ ~cut /\ n = Len(q)
    <3>1. ~(cut \/ n < Len(q))
      BY <1>2, <1>12
    <3> QED
      BY <1>2, <1>4, <1>5, <1>12, <3>1
  <2>2. landed[i] = IF Home[i] \in unread THEN 0 ELSE InTopic(i)
    BY <1>1, <2>1 DEF ReadInv
  <2>3. landed'[i] = landed[i] + CountIn(q, i) /\ CountIn(q, i) \in Nat /\ landed[i] \in Nat
    BY <1>5, <1>6, <1>7, <2>1
  <2>4. CASE Home[i] = p
    <3>1. CountIn(q, i) = InTopic(i)
      BY <2>4 DEF CountIn, InTopic, CopiesOf
    <3> QED
      BY <1>3, <1>4, <2>2, <2>3, <2>4, <3>1
  <2>5. CASE Home[i] # p
    <3>1. CountIn(q, i) = 0
      <4>1. ~\E k \in DOMAIN q : q[k] = i
        BY <1>10, <2>5
      <4>2. ~(CountIn(q, i) > 0)
        BY <1>6, <2>1, <4>1
      <4> QED
        BY <2>3, <4>2
    <3> QED
      BY <1>3, <1>4, <2>2, <2>3, <2>5, <3>1
  <2> QED
    BY <2>4, <2>5
<1>13. ReadInv'
  BY <1>3, <1>11, <1>12 DEF ReadInv
<1> QED
  BY <1>4, <1>9, <1>13 DEF ReplayInv

LEMMA ReadFailsKeeps ==
  ASSUME NEW out, ReplayInv(out), ReadFails
  PROVE  ReplayInv(out)'
<1>1. ReplayTypes /\ SendInv(out) /\ TopicInv /\ ReadInv
  BY DEF ReplayInv
<1>2. /\ main = "read" /\ main' = "fatal"
      /\ UNCHANGED <<edgeVars, delivered, next, count>> /\ UNCHANGED <<landed, unread, cut, match>>
  BY DEF ReadFails
<1>3. /\ SendInv(out)' /\ TopicInv' /\ (Quiet <=> Quiet')
      /\ \A i \in Ids : (Landed(i) <=> Landed(i)') /\ InTopic(i)' = InTopic(i)
  BY <1>2, EdgeAtRest
<1>4. ReplayTypes'
  BY <1>1, <1>2 DEF ReplayTypes, edgeVars
<1>5. ReadInv'
  BY <1>1, <1>2, <1>3 DEF ReadInv
<1> QED
  BY <1>3, <1>4, <1>5 DEF ReplayInv

LEMMA CompareKeeps ==
  ASSUME NEW out, ReplayInv(out), Compare
  PROVE  ReplayInv(out)'
<1>1. ReplayTypes /\ SendInv(out) /\ TopicInv /\ ReadInv
  BY DEF ReplayInv
<1>2. /\ main = "read" /\ main' = "done" /\ unread = {}
      /\ UNCHANGED <<edgeVars, delivered, next, count>> /\ UNCHANGED <<landed, unread, cut>>
      /\ match' = \A i \in Ids : landed[i] = CountIn(ReferenceDedup(delivered), i)
  BY DEF Compare
<1>3. /\ SendInv(out)' /\ TopicInv' /\ (Quiet <=> Quiet')
      /\ \A i \in Ids : (Landed(i) <=> Landed(i)') /\ InTopic(i)' = InTopic(i)
  BY <1>2, EdgeAtRest
<1>4. ReplayTypes'
  BY <1>1, <1>2 DEF ReplayTypes, edgeVars
<1>5. match' = \A i \in Ids : landed'[i] = CountIn(ReferenceDedup(delivered'), i)
  BY <1>2
<1>6. ReadInv'
  BY <1>1, <1>2, <1>3, <1>5 DEF ReadInv
<1> QED
  BY <1>3, <1>4, <1>6 DEF ReplayInv

-----------------------------------------------------------------------------
(* The theorems.                                                           *)

IInv == EdgeHoldsAll => \E out : ReplayInv(out)

LEMMA InvHolds == Spec => []IInv
<1>1. Init => IInv
  BY InitReplayInv DEF IInv
<1>2. IInv /\ [Next]_vars => IInv'
  <2>1. SUFFICES ASSUME IInv, [Next]_vars, EdgeHoldsAll PROVE \E out : ReplayInv(out)'
    BY DEF IInv, EdgeHoldsAll
  <2>2. PICK out : ReplayInv(out)
    BY <2>1 DEF IInv
  <2> SUFFICES ReplayInv(out)'
    OBVIOUS
  <2>3. ASSUME NEW s \in Senders, Ingest(s) PROVE ReplayInv(out)'
    BY <2>1, <2>2, <2>3, DuplicateKeeps, NewKeeps DEF Ingest
  <2>4. ASSUME NEW s \in Senders, IngestReturns(s) PROVE ReplayInv(out)'
    BY <2>2, <2>4, AckedKeeps, FailsKeeps DEF IngestReturns
  <2>5. CASE Writer
    BY <2>2, <2>5, WriterKeeps
  <2>6. CASE SendEnds
    BY <2>2, <2>6, SendEndsKeeps
  <2>7. ASSUME NEW p \in Partitions, ReadPartition(p) PROVE ReplayInv(out)'
    BY <2>2, <2>7, ReadPartitionKeeps
  <2>8. CASE ReadFails
    BY <2>2, <2>8, ReadFailsKeeps
  <2>9. CASE Compare
    BY <2>2, <2>9, CompareKeeps
  <2>10. CASE UNCHANGED vars
    <3>1. UNCHANGED <<edgeVars, delivered, next, count>> /\ UNCHANGED <<main, landed, unread, cut, match>>
      BY <2>10 DEF vars, replayVars
    <3>2. /\ SendInv(out)' /\ TopicInv' /\ (Quiet <=> Quiet')
          /\ \A i \in Ids : (Landed(i) <=> Landed(i)') /\ InTopic(i)' = InTopic(i)
      BY <2>2, <3>1, EdgeAtRest
    <3>3. ReplayTypes' /\ ReadInv'
      BY <2>2, <3>1, <3>2 DEF ReplayInv, ReplayTypes, ReadInv, edgeVars
    <3> QED
      BY <3>2, <3>3 DEF ReplayInv
  <2> QED
    BY <2>1, <2>4, <2>5, <2>6, <2>7, <2>8, <2>9, <2>10, <2>3 DEF Next
<1> QED
  BY <1>1, <1>2, PTL DEF Spec

\* The send phase of cmd/deliverygen and cmd/eventgen counts as accepted or
\* failed exactly the distinct ids, and as rejected the repetitions, as
\* ReferenceDedup does, for any corpus that fits the edge's set.
THEOREM EdgeAgreesWithReferenceHolds == Spec => []EdgeAgreesWithReference
<1>1. IInv => EdgeAgreesWithReference
  BY ReferenceFound DEF IInv, ReplayInv, EdgeAgreesWithReference
<1> QED
  BY <1>1, InvHolds, PTL

\* The RESULT of cmd/deliverygen and cmd/eventgen is true only if every id of
\* the corpus landed, and false only after a failed produce, a message the
\* writer sent twice, or a read-back that was cut.
THEOREM VerdictIsFairHolds == Spec => []VerdictIsFair
<1>1. IInv => VerdictIsFair
  BY InvGivesVerdict DEF IInv, VerdictIsFair
<1> QED
  BY <1>1, InvHolds, PTL

=============================================================================
