----------------------------- MODULE DedupProofs -----------------------------
(***************************************************************************)
(* Proofs about Dedup for every set of devices and numbers and every cap.  *)
(* The eviction queue is the end of the admission history; from that       *)
(* everything else follows.                                                *)
(***************************************************************************)
EXTENDS Dedup, TLAPS

\* The record ds holds the last MaxSequencesPerDevice entries of history h.
Mirrors(ds, h) ==
  /\ Len(ds.order) <= MaxSequencesPerDevice
  /\ Len(ds.order) <= Len(h)
  /\ Len(ds.order) < MaxSequencesPerDevice => Len(ds.order) = Len(h)
  /\ \A i \in DOMAIN ds.order : ds.order[i] = h[Len(h) - Len(ds.order) + i]
  /\ ds.set = {ds.order[i] : i \in DOMAIN ds.order}

\* Equal entries of a history are further apart than the cap.
Spaced(h) ==
  \A i, j \in DOMAIN h : i < j /\ h[i] = h[j] => j - i > MaxSequencesPerDevice

DeviceSeen == [set : SUBSET SeqNos, order : Seq(SeqNos)]

IInv ==
  /\ seen \in [Devices -> DeviceSeen]
  /\ history \in [Devices -> Seq(SeqNos)]
  /\ \A d \in Devices : Mirrors(seen[d], history[d]) /\ Spaced(history[d])

-----------------------------------------------------------------------------

\* Remember stays in the type of the records.
LEMMA RememberType ==
  ASSUME NEW ds \in DeviceSeen, NEW s \in SeqNos
  PROVE  Remember(ds, s) \in DeviceSeen
<1> DEFINE o == Append(ds.order, s)
<1>1. o \in Seq(SeqNos) /\ o # << >>
  BY DEF DeviceSeen
<1>2. Tail(o) \in Seq(SeqNos) /\ Head(o) \in SeqNos
  BY <1>1
<1> QED
  BY <1>1, <1>2 DEF Remember, EvictOldest, DeviceSeen

\* What the mirror says, with the queue's domain and length spelt out.
LEMMA MirrorFacts ==
  ASSUME NEW ds \in DeviceSeen, NEW h \in Seq(SeqNos), Mirrors(ds, h)
  PROVE  /\ ds.order \in Seq(SeqNos)
         /\ Len(ds.order) \in Nat /\ Len(h) \in Nat
         /\ Len(ds.order) <= MaxSequencesPerDevice
         /\ Len(ds.order) <= Len(h)
         /\ Len(ds.order) < MaxSequencesPerDevice => Len(ds.order) = Len(h)
         /\ DOMAIN ds.order = 1 .. Len(ds.order) /\ DOMAIN h = 1 .. Len(h)
         /\ \A i \in 1 .. Len(ds.order) :
              ds.order[i] = h[Len(h) - Len(ds.order) + i]
         /\ \A x : x \in ds.set <=> \E i \in 1 .. Len(ds.order) : ds.order[i] = x
<1>1. ds.order \in Seq(SeqNos)
  BY DEF DeviceSeen
<1>2. DOMAIN ds.order = 1 .. Len(ds.order) /\ Len(ds.order) \in Nat
  BY <1>1
<1>3. DOMAIN h = 1 .. Len(h) /\ Len(h) \in Nat
  OBVIOUS
<1>4. ds.set = {ds.order[i] : i \in 1 .. Len(ds.order)}
  BY <1>2 DEF Mirrors
<1>5. \A x : x \in ds.set <=> \E i \in 1 .. Len(ds.order) : ds.order[i] = x
  BY <1>4
<1> QED
  BY <1>1, <1>2, <1>3, <1>5, Zenon DEF Mirrors

\* Mirrors, spelt out for a record with known fields.
LEMMA MirrorsByFields ==
  ASSUME NEW ds, NEW o, NEW S, NEW g,
         ds = [set |-> S, order |-> o],
         Len(o) <= MaxSequencesPerDevice,
         Len(o) <= Len(g),
         Len(o) < MaxSequencesPerDevice => Len(o) = Len(g),
         \A i \in DOMAIN o : o[i] = g[Len(g) - Len(o) + i],
         S = {o[i] : i \in DOMAIN o}
  PROVE  Mirrors(ds, g)
<1>1. ds.set = S /\ ds.order = o
  OBVIOUS
<1> QED
  BY <1>1, Zenon DEF Mirrors

\* Remembering a new number keeps a record the mirror of its history.
LEMMA RememberMirrors ==
  ASSUME NEW ds \in DeviceSeen, NEW h \in Seq(SeqNos), NEW s \in SeqNos,
         Mirrors(ds, h), s \notin ds.set, Spaced(h)
  PROVE  Mirrors(Remember(ds, s), Append(h, s))
<1> DEFINE q == ds.order
           k == Len(q)
           n == Len(h)
           o == Append(q, s)
           g == Append(h, s)
           Cap == MaxSequencesPerDevice
<1>1. /\ q \in Seq(SeqNos) /\ k \in Nat /\ n \in Nat /\ Cap \in Nat
      /\ k <= Cap /\ k <= n /\ (k < Cap => k = n)
      /\ \A i \in 1 .. k : q[i] = h[n - k + i]
      /\ \A x : x \in ds.set <=> \E i \in 1 .. k : q[i] = x
      /\ DOMAIN h = 1 .. n
  BY MirrorFacts, CapAssumption
<1>0. Cap > 0
  BY CapAssumption
<1>2. /\ o \in Seq(SeqNos) /\ Len(o) = k + 1 /\ DOMAIN o = 1 .. k + 1
      /\ \A i \in 1 .. k : o[i] = q[i]
      /\ o[k + 1] = s
  BY <1>1
<1>3. /\ g \in Seq(SeqNos) /\ Len(g) = n + 1
      /\ \A i \in 1 .. n : g[i] = h[i]
      /\ g[n + 1] = s
  OBVIOUS
<1>4. /\ Len(o) > Cap => Remember(ds, s) = [set |-> (ds.set \cup {s}) \ {Head(o)},
                                           order |-> Tail(o)]
      /\ ~(Len(o) > Cap) => Remember(ds, s) = [set |-> ds.set \cup {s}, order |-> o]
  BY DEF Remember, EvictOldest
<1>5. Head(o) = o[1]
  BY <1>2
<1>6. \A i, j \in 1 .. n : i < j /\ h[i] = h[j] => j - i > Cap
  BY <1>1 DEF Spaced
<1>7. \A i \in 1 .. k : q[i] # s
  BY <1>1
<1> HIDE DEF k, n, o, g, q, Cap
<1>8. \A i \in 1 .. k + 1 : o[i] = g[n + 1 - (k + 1) + i]
  <2>1. SUFFICES ASSUME NEW i \in 1 .. k + 1 PROVE o[i] = g[n - k + i]
    BY <1>1
  <2>2. CASE i = k + 1
    BY <2>2, <1>1, <1>2, <1>3
  <2>3. CASE i \in 1 .. k
    <3>1. n - k + i \in 1 .. n
      BY <2>3, <1>1
    <3> QED
      BY <3>1, <2>3, <1>1, <1>2, <1>3
  <2> QED
    BY <2>2, <2>3, <1>1
<1>9. ds.set \cup {s} = {o[i] : i \in 1 .. k + 1}
  <2>1. \A i \in 1 .. k + 1 : i \in 1 .. k \/ i = k + 1
    BY <1>1
  <2>2. 1 .. k \subseteq 1 .. k + 1 /\ k + 1 \in 1 .. k + 1
    BY <1>1
  <2>3. \A x : x \in ds.set \cup {s} <=> \E i \in 1 .. k + 1 : o[i] = x
    BY <2>1, <2>2, <1>1, <1>2
  <2> QED
    BY <2>3
<1>10. CASE k < Cap
  <2>1. Remember(ds, s) = [set |-> ds.set \cup {s}, order |-> o]
    BY <1>10, <1>1, <1>2, <1>4
  <2>2. /\ Len(o) <= Cap /\ Len(o) <= Len(g)
        /\ Len(o) < Cap => Len(o) = Len(g)
    BY <1>10, <1>1, <1>2, <1>3
  <2>3. \A i \in DOMAIN o : o[i] = g[Len(g) - Len(o) + i]
    BY <1>1, <1>2, <1>3, <1>8
  <2>4. ds.set \cup {s} = {o[i] : i \in DOMAIN o}
    BY <1>2, <1>9
  <2> QED
    BY <2>1, <2>2, <2>3, <2>4, MirrorsByFields, Zenon DEF g, Cap
<1>11. CASE k = Cap
  <2> DEFINE t == Tail(o)
  <2>1. Remember(ds, s) = [set |-> (ds.set \cup {s}) \ {o[1]}, order |-> t]
    BY <1>11, <1>1, <1>2, <1>4, <1>5
  <2>2. /\ Len(t) = k /\ DOMAIN t = 1 .. k
        /\ \A i \in 1 .. k : t[i] = o[i + 1]
    BY <1>1, <1>2
  <2> HIDE DEF t
  <2>3. \A i \in 2 .. k + 1 : o[i] # o[1]
    <3>1. SUFFICES ASSUME NEW i \in 2 .. k + 1, o[i] = o[1] PROVE FALSE
      OBVIOUS
    <3>2. 1 \in 1 .. k /\ o[1] = q[1]
      BY <1>0, <1>1, <1>2, <1>11
    <3>3. CASE i = k + 1
      BY <3>1, <3>2, <3>3, <1>2, <1>7
    <3>4. CASE i \in 2 .. k
      <4>1. h[n - k + i] = h[n - k + 1]
        BY <3>1, <3>2, <3>4, <1>1, <1>2
      <4>2. /\ n - k + i \in 1 .. n /\ n - k + 1 \in 1 .. n
            /\ n - k + 1 < n - k + i
            /\ ~((n - k + i) - (n - k + 1) > Cap)
        BY <3>4, <1>1
      <4> QED
        BY <4>1, <4>2, <1>6
    <3> QED
      BY <3>3, <3>4, <1>1
  <2>4. (ds.set \cup {s}) \ {o[1]} = {t[i] : i \in 1 .. k}
    <3>1. \A i \in 1 .. k + 1 : i = 1 \/ i \in 2 .. k + 1
      BY <1>1
    <3>2. 2 .. k + 1 \subseteq 1 .. k + 1
      BY <1>1
    <3>3. (ds.set \cup {s}) \ {o[1]} = {o[i] : i \in 2 .. k + 1}
      BY <3>1, <3>2, <2>3, <1>9
    <3>4. \A i \in 2 .. k + 1 : i - 1 \in 1 .. k /\ t[i - 1] = o[i]
      BY <2>2, <1>1
    <3>5. \A i \in 1 .. k : i + 1 \in 2 .. k + 1 /\ t[i] = o[i + 1]
      BY <2>2, <1>1
    <3>6. {o[i] : i \in 2 .. k + 1} = {t[i] : i \in 1 .. k}
      BY <3>4, <3>5
    <3> QED
      BY <3>3, <3>6
  <2>5. \A i \in 1 .. k : t[i] = g[Len(g) - Len(t) + i]
    <3>1. SUFFICES ASSUME NEW i \in 1 .. k PROVE t[i] = g[n + 1 - k + i]
      BY <1>1, <2>2, <1>3
    <3>2. /\ i + 1 \in 1 .. k + 1
          /\ n + 1 - (k + 1) + (i + 1) = n + 1 - k + i
      BY <1>1
    <3> QED
      BY <3>2, <2>2, <1>8
  <2>6. /\ Len(t) <= Cap /\ Len(t) <= Len(g)
        /\ Len(t) < Cap => Len(t) = Len(g)
    BY <2>2, <1>1, <1>3, <1>11
  <2>7. /\ \A i \in DOMAIN t : t[i] = g[Len(g) - Len(t) + i]
        /\ (ds.set \cup {s}) \ {o[1]} = {t[i] : i \in DOMAIN t}
    BY <2>2, <2>4, <2>5
  <2> QED
    BY <2>1, <2>6, <2>7, MirrorsByFields, ZenonT(60) DEF g, Cap
<1> QED
  BY <1>1, <1>10, <1>11

\* A number outside the record may follow without coming too close to its
\* last occurrence.
LEMMA AppendSpaced ==
  ASSUME NEW ds \in DeviceSeen, NEW h \in Seq(SeqNos), NEW s \in SeqNos,
         Mirrors(ds, h), s \notin ds.set, Spaced(h)
  PROVE  Spaced(Append(h, s))
<1> DEFINE q == ds.order
           k == Len(q)
           n == Len(h)
           g == Append(h, s)
           Cap == MaxSequencesPerDevice
<1>1. /\ k \in Nat /\ n \in Nat /\ Cap \in Nat
      /\ k <= Cap /\ k <= n /\ (k < Cap => k = n)
      /\ \A i \in 1 .. k : q[i] = h[n - k + i]
      /\ \A i \in 1 .. k : q[i] # s
      /\ DOMAIN h = 1 .. n
  BY MirrorFacts, CapAssumption
<1>2. /\ Len(g) = n + 1 /\ DOMAIN g = 1 .. n + 1
      /\ \A i \in 1 .. n : g[i] = h[i]
      /\ g[n + 1] = s
  OBVIOUS
<1>3. \A i, j \in 1 .. n : i < j /\ h[i] = h[j] => j - i > Cap
  BY <1>1 DEF Spaced
<1>4. SUFFICES ASSUME NEW i \in DOMAIN g, NEW j \in DOMAIN g, i < j, g[i] = g[j]
               PROVE  j - i > Cap
  BY DEF Spaced
<1> HIDE DEF k, n, g, q, Cap
<1>5. CASE j \in 1 .. n
  <2>1. i \in 1 .. n
    BY <1>1, <1>2, <1>4, <1>5
  <2> QED
    BY <2>1, <1>2, <1>3, <1>4, <1>5
<1>6. CASE j = n + 1
  <2>1. i \in 1 .. n /\ h[i] = s
    BY <1>1, <1>2, <1>4, <1>6
  <2>2. ~(i > n - k)
    <3>1. SUFFICES ASSUME i > n - k PROVE FALSE
      OBVIOUS
    <3>2. i - (n - k) \in 1 .. k /\ n - k + (i - (n - k)) = i
      BY <3>1, <2>1, <1>1
    <3> QED
      BY <3>2, <2>1, <1>1
  <2> QED
    BY <2>1, <2>2, <1>1, <1>6
<1> QED
  BY <1>1, <1>2, <1>4, <1>5, <1>6

-----------------------------------------------------------------------------

LEMMA InitIInv == Init => IInv
<1> SUFFICES ASSUME Init PROVE IInv
  OBVIOUS
<1>1. NewDeviceSeen \in DeviceSeen
  BY DEF NewDeviceSeen, DeviceSeen
<1>2. Mirrors(NewDeviceSeen, << >>) /\ Spaced(<< >>)
  BY CapAssumption DEF Mirrors, Spaced, NewDeviceSeen
<1> QED
  BY <1>1, <1>2 DEF Init, IInv

LEMMA NextIInv == IInv /\ [Next]_vars => IInv'
<1> SUFFICES ASSUME IInv, [Next]_vars PROVE IInv'
  OBVIOUS
<1>1. ASSUME NEW d \in Devices, NEW s \in SeqNos, AdmitDuplicate(d, s)
      PROVE  IInv'
  BY <1>1 DEF AdmitDuplicate, IInv
<1>2. ASSUME NEW d \in Devices, NEW s \in SeqNos, AdmitNew(d, s)
      PROVE  IInv'
  <2>1. /\ seen' = [seen EXCEPT ![d] = Remember(seen[d], s)]
        /\ history' = [history EXCEPT ![d] = Append(history[d], s)]
        /\ s \notin seen[d].set
    BY <1>2 DEF AdmitNew
  <2>2. /\ seen[d] \in DeviceSeen /\ history[d] \in Seq(SeqNos)
        /\ Mirrors(seen[d], history[d]) /\ Spaced(history[d])
    BY DEF IInv
  <2>3. Remember(seen[d], s) \in DeviceSeen
    BY <2>2, RememberType
  <2>4. Mirrors(Remember(seen[d], s), Append(history[d], s))
    BY <2>1, <2>2, RememberMirrors
  <2>5. Spaced(Append(history[d], s))
    BY <2>1, <2>2, AppendSpaced
  <2>6. seen' \in [Devices -> DeviceSeen]
    BY <2>1, <2>3 DEF IInv
  <2>7. Append(history[d], s) \in Seq(SeqNos)
    BY <2>2
  <2>8. history' \in [Devices -> Seq(SeqNos)]
    BY <2>1, <2>7 DEF IInv
  <2>9. ASSUME NEW e \in Devices
        PROVE  Mirrors(seen'[e], history'[e]) /\ Spaced(history'[e])
    <3>1. CASE e = d
      <4>1. /\ seen'[e] = Remember(seen[d], s)
            /\ history'[e] = Append(history[d], s)
        BY <3>1, <2>1 DEF IInv
      <4> QED
        BY <4>1, <2>4, <2>5
    <3>2. CASE e # d
      <4>1. seen'[e] = seen[e] /\ history'[e] = history[e]
        BY <3>2, <2>1 DEF IInv
      <4> QED
        BY <4>1 DEF IInv
    <3> QED
      BY <3>1, <3>2
  <2> QED
    BY <2>6, <2>8, <2>9 DEF IInv
<1>3. CASE UNCHANGED vars
  BY <1>3 DEF IInv, vars
<1> QED
  BY <1>1, <1>2, <1>3 DEF Next, Admit

LEMMA Invariance == Spec => []IInv
<1> QED
  BY InitIInv, NextIInv, PTL DEF Spec

\* The records are well typed and never outgrow the cap.
THEOREM TypeCorrect == Spec => []TypeOK
<1>1. IInv => TypeOK
  BY DEF IInv, TypeOK, Mirrors, DeviceSeen
<1> QED
  BY <1>1, Invariance, PTL

\* A number admitted twice was pushed out by more than a window of others.
THEOREM NoEarlyReadmissionHolds == Spec => []NoEarlyReadmission
<1>1. IInv => NoEarlyReadmission
  BY DEF IInv, NoEarlyReadmission, Spaced
<1> QED
  BY <1>1, Invariance, PTL

\* Set and eviction queue never drift apart.
THEOREM SetMatchesOrderHolds == Spec => []SetMatchesOrder
<1>1. ASSUME IInv, NEW d \in Devices,
             NEW i \in DOMAIN seen[d].order, NEW j \in DOMAIN seen[d].order,
             seen[d].order[i] = seen[d].order[j], i < j
      PROVE  FALSE
  <2> DEFINE q == seen[d].order
             h == history[d]
             k == Len(q)
             n == Len(h)
             Cap == MaxSequencesPerDevice
  <2>1. /\ seen[d] \in DeviceSeen /\ h \in Seq(SeqNos)
        /\ Mirrors(seen[d], h) /\ Spaced(h)
    BY <1>1 DEF IInv
  <2>2. /\ k \in Nat /\ n \in Nat /\ Cap \in Nat /\ k <= n /\ k <= Cap
        /\ DOMAIN q = 1 .. k /\ DOMAIN h = 1 .. n
        /\ \A x \in 1 .. k : q[x] = h[n - k + x]
    BY <2>1, MirrorFacts, CapAssumption
  <2>3. q[i] = q[j] /\ i \in 1 .. k /\ j \in 1 .. k /\ i < j
    BY <1>1, <2>2
  <2>4. \A x, y \in 1 .. n : x < y /\ h[x] = h[y] => y - x > Cap
    BY <2>1, <2>2 DEF Spaced
  <2> HIDE DEF q, h, k, n, Cap
  <2>5. /\ n - k + i \in 1 .. n /\ n - k + j \in 1 .. n
        /\ n - k + i < n - k + j
        /\ ~((n - k + j) - (n - k + i) > Cap)
    BY <2>2, <2>3
  <2> QED
    BY <2>2, <2>3, <2>4, <2>5
<1>2. ASSUME IInv PROVE SetMatchesOrder
  <2>1. \A d \in Devices : DOMAIN seen[d].order \subseteq Int
    <3>1. \A d \in Devices : seen[d].order \in Seq(SeqNos)
      BY <1>2 DEF IInv, DeviceSeen
    <3> QED
      BY <3>1
  <2>2. \A d \in Devices : seen[d].set = {seen[d].order[i] : i \in DOMAIN seen[d].order}
    BY <1>2 DEF IInv, Mirrors
  <2>3. ASSUME NEW d \in Devices,
               NEW i \in DOMAIN seen[d].order, NEW j \in DOMAIN seen[d].order,
               seen[d].order[i] = seen[d].order[j]
        PROVE  i = j
    <3>1. i \in Int /\ j \in Int
      BY <2>1, <2>3
    <3>2. ~(i < j) /\ ~(j < i)
      BY <1>1, <1>2, <2>3
    <3> QED
      BY <3>1, <3>2
  <2> QED
    BY <2>2, <2>3 DEF SetMatchesOrder
<1> QED
  BY <1>2, Invariance, PTL

\* The set of a record is the window of its history.
LEMMA SetIsRecent ==
  ASSUME NEW ds \in DeviceSeen, NEW h \in Seq(SeqNos), Mirrors(ds, h)
  PROVE  ds.set = Window!Recent(h)
<1> DEFINE q == ds.order
           k == Len(q)
           n == Len(h)
           Cap == MaxSequencesPerDevice
<1>1. /\ k \in Nat /\ n \in Nat /\ Cap \in Nat
      /\ k <= Cap /\ k <= n /\ (k < Cap => k = n)
      /\ \A i \in 1 .. k : q[i] = h[n - k + i]
      /\ \A x : x \in ds.set <=> \E i \in 1 .. k : q[i] = x
      /\ DOMAIN h = 1 .. n
  BY MirrorFacts, CapAssumption
<1>2. Window!Recent(h) = {h[j] : j \in {x \in 1 .. n : x > n - Cap}}
  BY <1>1 DEF Window!Recent
<1> HIDE DEF q, k, n, Cap
<1>3. \A i \in 1 .. k : n - k + i \in {x \in 1 .. n : x > n - Cap}
  BY <1>1
<1>4. \A j \in {x \in 1 .. n : x > n - Cap} :
        j - (n - k) \in 1 .. k /\ n - k + (j - (n - k)) = j
  BY <1>1
<1>5. ASSUME NEW x \in ds.set
      PROVE  \E j \in {y \in 1 .. n : y > n - Cap} : h[j] = x
  <2>1. PICK i \in 1 .. k : q[i] = x
    BY <1>1
  <2> QED
    BY <2>1, <1>1, <1>3
<1>6. ASSUME NEW j \in {y \in 1 .. n : y > n - Cap}
      PROVE  h[j] \in ds.set
  BY <1>1, <1>4
<1> QED
  BY <1>2, <1>5, <1>6

\* The bounded FIFO record answers every call like the sliding window.
THEOREM WindowImplemented == Spec => ImplementsWindow
<1>1. Init => Window!Init
  BY DEF Init, Window!Init
<1>2. IInv /\ [Next]_vars => [Window!Next]_(Window!vars)
  <2> SUFFICES ASSUME IInv, [Next]_vars PROVE [Window!Next]_(Window!vars)
    OBVIOUS
  <2>1. ASSUME NEW d \in Devices, NEW s \in SeqNos, AdmitDuplicate(d, s)
        PROVE  Window!Refuse(d, s)
    <3>1. seen[d].set = Window!Recent(history[d])
      BY SetIsRecent DEF IInv
    <3> QED
      BY <2>1, <3>1 DEF AdmitDuplicate, Window!Refuse
  <2>2. ASSUME NEW d \in Devices, NEW s \in SeqNos, AdmitNew(d, s)
        PROVE  Window!Accept(d, s)
    <3>1. seen[d].set = Window!Recent(history[d])
      BY SetIsRecent DEF IInv
    <3> QED
      BY <2>2, <3>1 DEF AdmitNew, Window!Accept
  <2>3. CASE UNCHANGED vars
    BY <2>3 DEF vars, Window!vars
  <2> QED
    BY <2>1, <2>2, <2>3 DEF Next, Admit, Window!Next
<1> QED
  BY <1>1, <1>2, Invariance, PTL DEF Spec, ImplementsWindow, Window!Spec

=============================================================================
