------------------------- MODULE EagerReservoir_proofs -------------------------
(***************************************************************************)
(* Proofs about the reservoir of mem/eager_reservoir.go, for every set of  *)
(* steps, every capacity and every number of offers: its representation    *)
(* invariant, and that it keeps the contract of the interface.             *)
(***************************************************************************)
EXTENDS EagerReservoir, TLAPS, NaturalsInduction, WellFoundedInduction,
        SequenceTheorems, FiniteSetTheorems

-----------------------------------------------------------------------------
(***************************************************************************)
(* The loop of lockedPreempt stops somewhere: what it keeps is well        *)
(* defined whatever the order of the records, and everything after the     *)
(* kept part has a step that is not below firstBad.                        *)
(***************************************************************************)
LEMMA KeptExists ==
  ASSUME NEW b \in Seq(Datum), NEW s \in Int, Steps \subseteq Int
  PROVE  /\ Kept(b, s) \in 0 .. Len(b)
         /\ Kept(b, s) = 0 \/ b[Kept(b, s)].step < s
         /\ \A i \in Kept(b, s) + 1 .. Len(b) : b[i].step >= s
<1> DEFINE Stops(n) == \A i \in n + 1 .. Len(b) : b[i].step >= s
           Stopping == {n \in 0 .. Len(b) : Stops(n)}
<1>1. Len(b) \in Nat /\ \A i \in 1 .. Len(b) : b[i].step \in Int
  <2>1. \A i \in 1 .. Len(b) : b[i] \in Datum
    BY ElementOfSeq
  <2> QED
    BY <2>1, LenProperties DEF Datum
<1>2. PICK n \in Stopping : \A m \in Stopping : ~(m < n)
  <2>1. Stopping \subseteq Nat
    BY <1>1
  <2>2. Len(b) \in Stopping
    BY <1>1
  <2>3. PICK n \in Stopping : \A m \in Stopping : <<m, n>> \notin OpToRel(<, Nat)
    <3> HIDE DEF Stopping
    <3> QED
      BY <2>1, <2>2, NatLessThanWellFounded, WFMin, Zenon
  <2>4. \A m \in Stopping : m < n => <<m, n>> \in OpToRel(<, Nat)
    BY <2>1, <2>3, Zenon DEF OpToRel
  <2> QED
    BY <2>3, <2>4
<1>3. n = 0 \/ b[n].step < s
  <2> SUFFICES ASSUME n # 0, ~(b[n].step < s)
               PROVE  FALSE
    OBVIOUS
  <2>1. n - 1 \in 0 .. Len(b) /\ n \in 1 .. Len(b)
    BY <1>1
  <2>2. Stops(n - 1)
    BY <1>1, <2>1
  <2> QED
    BY <1>2, <2>1, <2>2, SMTT(30)
<1>4. \E k \in 0 .. Len(b) : /\ k = 0 \/ b[k].step < s
                             /\ \A i \in k + 1 .. Len(b) : b[i].step >= s
  BY <1>2, <1>3
<1> QED
  BY <1>4 DEF Kept

(***************************************************************************)
(* In a sorted buffer the loop cuts exactly where it should: the records   *)
(* that stay are all those whose step is below firstBad.                   *)
(***************************************************************************)
LEMMA KeptIsExact ==
  ASSUME NEW b \in Seq(Datum), NEW s \in Int, Steps \subseteq Int,
         \A i, j \in 1 .. Len(b) : i < j => b[i].step < b[j].step
  PROVE  \A i \in 1 .. Len(b) : b[i].step < s <=> i <= Kept(b, s)
<1> DEFINE k == Kept(b, s)
<1>1. /\ k \in 0 .. Len(b)
      /\ k = 0 \/ b[k].step < s
      /\ \A i \in k + 1 .. Len(b) : b[i].step >= s
  BY KeptExists
<1>2. Len(b) \in Nat /\ \A i \in 1 .. Len(b) : b[i].step \in Int
  <2>1. \A i \in 1 .. Len(b) : b[i] \in Datum
    BY ElementOfSeq
  <2> QED
    BY <2>1, LenProperties DEF Datum
<1> HIDE DEF k
<1>3. \A i \in 1 .. Len(b) : b[i].step < s <=> i <= k
  <2> SUFFICES ASSUME NEW i \in 1 .. Len(b)
               PROVE  b[i].step < s <=> i <= k
    OBVIOUS
  <2>1. CASE i <= k
    BY <1>1, <1>2, <2>1
  <2>2. CASE i > k
    <3>1. i \in k + 1 .. Len(b)
      BY <1>1, <1>2, <2>2
    <3> QED
      BY <1>1, <1>2, <2>2, <3>1
  <2> QED
    BY <1>1, <1>2, <2>1, <2>2
<1> QED
  BY <1>3 DEF k

-----------------------------------------------------------------------------
\* What Evict makes of the n records of b.
Moved(b, n, dst, v) ==
  [i \in 1 .. n |-> IF i = n THEN v ELSE IF i > dst THEN b[i + 1] ELSE b[i]]

(***************************************************************************)
(* Moving up the records after dst and putting the new one last keeps the  *)
(* order of the steps, and loses the record at dst and no other.           *)
(***************************************************************************)
LEMMA EvictKeepsOrder ==
  ASSUME NEW n \in Nat, NEW b \in [1 .. n -> Datum], NEW v \in Datum,
         Steps \subseteq Int,
         \A i, j \in 1 .. n : i < j => b[i].step < b[j].step,
         \A i \in 1 .. n : b[i].step < v.step,
         NEW dst \in Nat, dst < n
  PROVE  LET c == Moved(b, n, dst, v)
         IN  /\ c \in [1 .. n -> Datum] /\ c[n] = v
             /\ \A i, j \in 1 .. n : i < j => c[i].step < c[j].step
             /\ RangeOf(c) = (RangeOf(b) \ {b[dst + 1]}) \cup {v}
<1> DEFINE c == Moved(b, n, dst, v)
<1>1. \A i \in 1 .. n : /\ i = n => c[i] = v
                        /\ i # n /\ i > dst => i + 1 \in 1 .. n /\ c[i] = b[i + 1]
                        /\ i # n /\ ~(i > dst) => c[i] = b[i]
  BY DEF Moved
<1>2a. c = [i \in 1 .. n |-> c[i]]
  BY DEF Moved
<1> HIDE DEF c
<1>2. \A i \in 1 .. n : b[i].step \in Int
  BY DEF Datum
<1>3. c \in [1 .. n -> Datum] /\ c[n] = v
  <2>1. \A i \in 1 .. n : c[i] \in Datum
    BY <1>1
  <2> QED
    BY <1>1, <1>2a, <2>1
<1>4. ASSUME NEW i \in 1 .. n, NEW j \in 1 .. n, i < j
      PROVE  c[i].step < c[j].step
  <2>1. i # n
    BY <1>4
  <2>2. \E k \in 1 .. n : c[i] = b[k] /\ (j # n => \E l \in 1 .. n : k < l /\ c[j] = b[l])
    <3>1. CASE i > dst
      <4>1. c[i] = b[i + 1] /\ (j # n => c[j] = b[j + 1])
        BY <1>1, <1>4, <2>1, <3>1
      <4> QED
        BY <1>4, <2>1, <4>1, <3>1
    <3>2. CASE ~(i > dst) /\ j > dst
      <4>1. c[i] = b[i] /\ (j # n => c[j] = b[j + 1])
        BY <1>1, <2>1, <3>2
      <4> QED
        BY <1>4, <2>1, <4>1, <3>2
    <3>3. CASE ~(i > dst) /\ ~(j > dst)
      <4>1. c[i] = b[i] /\ (j # n => c[j] = b[j])
        BY <1>1, <2>1, <3>3
      <4> QED
        BY <1>4, <2>1, <4>1, <3>3
    <3> QED
      BY <3>1, <3>2, <3>3
  <2> QED
    BY <1>3, <2>2
<1>5. dst + 1 \in 1 .. n /\ \A i \in 1 .. n : b[i] = b[dst + 1] => i = dst + 1
  <2>1. dst + 1 \in 1 .. n
    OBVIOUS
  <2>2. ASSUME NEW i \in 1 .. n, b[i] = b[dst + 1], i # dst + 1
        PROVE  FALSE
    <3>1. i < dst + 1 \/ dst + 1 < i
      BY <2>2
    <3>2. b[i].step < b[dst + 1].step \/ b[dst + 1].step < b[i].step
      BY <2>1, <3>1
    <3> QED
      BY <1>2, <2>1, <2>2, <3>2
  <2> QED
    BY <2>1, <2>2
<1>6. ASSUME NEW i \in 1 .. n, i # n
      PROVE  \E k \in 1 .. n : k # dst + 1 /\ c[i] = b[k]
  <2>1. CASE i > dst
    BY <1>1, <1>6, <2>1
  <2>2. CASE ~(i > dst)
    BY <1>1, <1>6, <2>2
  <2> QED
    BY <2>1, <2>2
<1>7. ASSUME NEW k \in 1 .. n, k # dst + 1
      PROVE  \E i \in 1 .. n : c[i] = b[k]
  <2>1. CASE k > dst + 1
    <3>1. k - 1 \in 1 .. n /\ k - 1 # n /\ k - 1 > dst /\ (k - 1) + 1 = k
      BY <2>1
    <3> QED
      BY <1>1, <3>1
  <2>2. CASE k < dst + 1
    <3>1. k # n /\ ~(k > dst)
      BY <2>2
    <3> QED
      BY <1>1, <3>1
  <2> QED
    BY <1>7, <2>1, <2>2
<1>8. RangeOf(c) = (RangeOf(b) \ {b[dst + 1]}) \cup {v}
  <2>1. \A i \in 1 .. n : c[i] \in ({b[k] : k \in 1 .. n} \ {b[dst + 1]}) \cup {v}
    BY <1>3, <1>5, <1>6
  <2>2. \A d \in {b[k] : k \in 1 .. n} \ {b[dst + 1]} : d \in {c[i] : i \in 1 .. n}
    BY <1>7
  <2>3. n \in 1 .. n
    OBVIOUS
  <2>4. DOMAIN b = 1 .. n /\ DOMAIN c = 1 .. n
    BY <1>3
  <2> QED
    BY <1>3, <2>1, <2>2, <2>3, <2>4 DEF RangeOf
<1> QED
  BY <1>3, <1>4, <1>8 DEF c

\* "Keep-last only" is the eviction of the last record.
LEMMA ReplaceLastIsEvict ==
  ASSUME NEW n \in Nat \ {0}, NEW b \in [1 .. n -> Datum], NEW v
  PROVE  [b EXCEPT ![n] = v] = Moved(b, n, n - 1, v)
<1>1. \A i \in 1 .. n : i # n => ~(i > n - 1)
  OBVIOUS
<1> QED
  BY <1>1 DEF Moved

-----------------------------------------------------------------------------
(***************************************************************************)
(* What one call of Offer does to the buffer, whichever way it takes.      *)
(***************************************************************************)
Survivors(s) == {d \in RangeOf(buf) : d.step < s}

LEMMA OfferStores ==
  ASSUME IInv, NEW v \in Datum, Offer(v), ~panicked'
  PROVE  /\ buf' \in Seq(Datum) /\ Len(buf') \in 1 .. Capacity
         /\ Len(buf') <= Len(buf) + 1
         /\ StepSorted' /\ buf'[Len(buf')] = v
         /\ \/ RangeOf(buf') = Survivors(v.step) \cup {v}
            \/ /\ offered >= Capacity
               /\ \E lost \in Survivors(v.step) :
                     RangeOf(buf') = (Survivors(v.step) \ {lost}) \cup {v}
         /\ seen' \in Nat /\ seen' <= offered + 1
         /\ live' = {d \in live : d.step < v.step} \cup {v}
         /\ offered' = offered + 1
<1> USE ReservoirAssumption
<1> DEFINE k == Kept(buf, v.step)
           b == SubSeq(buf, 1, k)
<1>1. /\ Len(buf) \in Nat /\ DOMAIN buf = 1 .. Len(buf)
      /\ buf \in [1 .. Len(buf) -> Datum] /\ buf \in Seq(Datum)
      /\ v.step \in Int
  BY LenProperties DEF IInv, TypeOK, Datum
<1>2. /\ k \in 0 .. Len(buf)
      /\ \A i \in 1 .. Len(buf) : buf[i].step < v.step <=> i <= k
  <2>1. \A i, j \in 1 .. Len(buf) : i < j => buf[i].step < buf[j].step
    BY DEF IInv, StepSorted
  <2> QED
    BY <1>1, <2>1, KeptExists, KeptIsExact
<1>3. b \in [1 .. k -> Datum] /\ Len(b) = k /\ \A i \in 1 .. k : b[i] = buf[i]
  <2>1. k \in Nat /\ \A i \in 1 .. k : buf[i] \in Datum
    BY <1>1, <1>2
  <2>2. /\ b \in Seq(Datum) /\ Len(b) = IF 1 <= k THEN k - 1 + 1 ELSE 0
        /\ \A i \in 1 .. k - 1 + 1 : b[i] = buf[1 + i - 1]
    <3> HIDE DEF k
    <3> QED
      BY <2>1, SubSeqProperties
  <2>3. Len(b) = k /\ \A i \in 1 .. k : b[i] = buf[i]
    <3> HIDE DEF k, b
    <3> QED
      BY <2>1, <2>2
  <2> QED
    BY <2>2, <2>3, LenProperties
<1>4. /\ \A i, j \in 1 .. k : i < j => b[i].step < b[j].step
      /\ \A i \in 1 .. k : b[i].step < v.step
      /\ RangeOf(b) = Survivors(v.step)
  <2>1. \A i \in 1 .. k : i \in 1 .. Len(buf)
    BY <1>1, <1>2
  <2>2. \A i, j \in 1 .. k : i < j => b[i].step < b[j].step
    BY <1>3, <2>1 DEF IInv, StepSorted
  <2>3. \A i \in 1 .. k : b[i].step < v.step
    BY <1>2, <1>3, <2>1
  <2>4. \A i \in 1 .. Len(buf) : buf[i].step < v.step => i \in 1 .. k
    BY <1>1, <1>2
  <2>5. RangeOf(b) = Survivors(v.step)
    <3>1. DOMAIN b = 1 .. k
      BY <1>3
    <3> HIDE DEF b, k
    <3> QED
      BY <1>1, <1>3, <2>1, <2>3, <2>4, <3>1 DEF Survivors, RangeOf
  <2> QED
    BY <2>2, <2>3, <2>5
<1>5. PICK n \in SeenAfterPreempt(k) : \E dst \in 0 .. n :
        \/ dst >= Capacity /\ k > 0 /\ Store([b EXCEPT ![k] = v], v, n + 1)
        \/ dst < Capacity /\ k < Capacity /\ Store(Append(b, v), v, n + 1)
        \/ dst < Capacity /\ k >= Capacity /\ Store(Evict(b, dst, v), v, n + 1)
  BY DEF Offer, Panic
<1>6. n \in Nat /\ n <= seen /\ seen \in Nat /\ seen <= offered /\ offered \in Nat
  BY DEF SeenAfterPreempt, IInv, TypeOK
<1>7. /\ seen' = n + 1 /\ offered' = offered + 1
      /\ live' = {d \in live : d.step < v.step} \cup {v}
  BY <1>5 DEF Store
<1>8. Len(buf) <= Capacity /\ Len(buf) <= offered /\ Capacity \in Nat \ {0}
  BY DEF IInv, TypeOK
<1> HIDE DEF k, b
\* From what the lemmas say of a function on 1 .. m to the goals on buf'.
<1>9. ASSUME NEW m \in Nat, m \in 1 .. Capacity, m <= Len(buf) + 1,
             buf' \in [1 .. m -> Datum], buf'[m] = v,
             \A i, j \in 1 .. m : i < j => buf'[i].step < buf'[j].step
      PROVE  /\ buf' \in Seq(Datum) /\ Len(buf') \in 1 .. Capacity
             /\ Len(buf') <= Len(buf) + 1
             /\ StepSorted' /\ buf'[Len(buf')] = v
  <2>1. buf' \in Seq(Datum) /\ Len(buf') = m /\ DOMAIN buf' = 1 .. m
    BY <1>9, LenProperties
  <2> QED
    BY <1>9, <2>1 DEF StepSorted
<1>10. CASE k < Capacity /\ buf' = Append(b, v)
  <2>1. /\ k + 1 \in 1 .. Capacity /\ k + 1 <= Len(buf) + 1 /\ k + 1 \in Nat
    BY <1>1, <1>2, <1>8, <1>10
  <2>2. b \in Seq(Datum) /\ Len(b) = k /\ k \in Nat
    BY <1>1, <1>2, <1>3
  <2>3. /\ buf' \in [1 .. k + 1 -> Datum]
        /\ buf'[k + 1] = v /\ \A i \in 1 .. k : buf'[i] = b[i]
    <3> DEFINE c == Append(b, v)
    <3>1. /\ c \in Seq(Datum) /\ Len(c) = k + 1
          /\ c[k + 1] = v /\ \A i \in 1 .. k : c[i] = b[i]
      BY <2>2, AppendProperties
    <3>2. buf' = c
      BY <1>10
    <3> HIDE DEF c
    <3>3. c \in [1 .. k + 1 -> Datum]
      BY <3>1, LenProperties
    <3> QED
      BY <3>1, <3>2, <3>3
  <2>4. \A i, j \in 1 .. k + 1 : i < j => buf'[i].step < buf'[j].step
    <3>1. \A i \in 1 .. k + 1 : i = k + 1 \/ i \in 1 .. k
      BY <2>2
    <3> QED
      BY <1>4, <2>2, <2>3, <3>1
  <2>5. RangeOf(buf') = Survivors(v.step) \cup {v}
    <3>1. \A i \in 1 .. k + 1 : i = k + 1 \/ i \in 1 .. k
      BY <2>2
    <3>2. k + 1 \in 1 .. k + 1 /\ \A i \in 1 .. k : i \in 1 .. k + 1
      BY <2>2
    <3>3. DOMAIN b = 1 .. k /\ DOMAIN buf' = 1 .. k + 1
      BY <1>3, <2>3
    <3> QED
      BY <1>4, <2>3, <3>1, <3>2, <3>3 DEF RangeOf
  <2> QED
    BY <1>6, <1>7, <1>9, <2>1, <2>3, <2>4, <2>5
<1>11. ASSUME NEW e \in Nat, e < k, k > 0, offered >= Capacity,
              buf' = Moved(b, k, e, v)
       PROVE  /\ buf' \in Seq(Datum) /\ Len(buf') \in 1 .. Capacity
              /\ Len(buf') <= Len(buf) + 1
              /\ StepSorted' /\ buf'[Len(buf')] = v
              /\ \E lost \in Survivors(v.step) :
                    RangeOf(buf') = (Survivors(v.step) \ {lost}) \cup {v}
  <2>1. k \in Nat /\ k \in 1 .. Capacity /\ k <= Len(buf) + 1
    BY <1>1, <1>2, <1>8, <1>11
  <2>2. LET c == Moved(b, k, e, v)
        IN  /\ c \in [1 .. k -> Datum] /\ c[k] = v
            /\ \A i, j \in 1 .. k : i < j => c[i].step < c[j].step
            /\ RangeOf(c) = (RangeOf(b) \ {b[e + 1]}) \cup {v}
    BY <1>3, <1>4, <1>11, <2>1, EvictKeepsOrder
  <2>3. /\ buf' \in [1 .. k -> Datum] /\ buf'[k] = v
        /\ \A i, j \in 1 .. k : i < j => buf'[i].step < buf'[j].step
    BY <1>11, <2>2
  <2>4. RangeOf(buf') = (Survivors(v.step) \ {b[e + 1]}) \cup {v}
    BY <1>4, <1>11, <2>2
  <2>5. b[e + 1] \in Survivors(v.step)
    <3>1. e + 1 \in 1 .. k /\ DOMAIN b = 1 .. k
      BY <1>3, <1>11, <2>1
    <3> QED
      BY <1>4, <3>1 DEF RangeOf
  <2>6. /\ buf' \in Seq(Datum) /\ Len(buf') \in 1 .. Capacity
        /\ Len(buf') <= Len(buf) + 1
        /\ StepSorted' /\ buf'[Len(buf')] = v
    BY <1>9, <2>1, <2>3
  <2> QED
    BY <2>4, <2>5, <2>6
<1> PICK dst \in 0 .. n :
        \/ dst >= Capacity /\ k > 0 /\ Store([b EXCEPT ![k] = v], v, n + 1)
        \/ dst < Capacity /\ k < Capacity /\ Store(Append(b, v), v, n + 1)
        \/ dst < Capacity /\ k >= Capacity /\ Store(Evict(b, dst, v), v, n + 1)
  BY <1>5
<1>12. CASE dst >= Capacity /\ k > 0 /\ Store([b EXCEPT ![k] = v], v, n + 1)
  <2>1. k \in Nat \ {0} /\ k - 1 \in Nat /\ k - 1 < k
    BY <1>1, <1>2, <1>12
  <2>2. buf' = Moved(b, k, k - 1, v)
    <3>1. buf' = [b EXCEPT ![k] = v]
      BY <1>12 DEF Store
    <3> QED
      BY <1>3, <2>1, <3>1, ReplaceLastIsEvict
  <2>3. offered >= Capacity
    BY <1>6, <1>8, <1>12
  <2> QED
    BY <1>6, <1>7, <1>11, <1>12, <2>1, <2>2, <2>3
<1>13. CASE dst < Capacity /\ k < Capacity /\ Store(Append(b, v), v, n + 1)
  BY <1>10, <1>13 DEF Store
<1>14. CASE dst < Capacity /\ k >= Capacity /\ Store(Evict(b, dst, v), v, n + 1)
  <2>1. k > 0 /\ offered >= Capacity /\ dst \in Nat /\ dst < k
    BY <1>1, <1>2, <1>6, <1>8, <1>14
  <2>2. buf' = Moved(b, k, dst, v)
    BY <1>3, <1>14 DEF Store, Evict, Moved
  <2> QED
    BY <1>6, <1>7, <1>11, <2>1, <2>2
<1> QED
  BY <1>12, <1>13, <1>14

-----------------------------------------------------------------------------
\* No record has been offered, and there is none to find.
LEMMA InitEstablishesIInv == Init => IInv
<1> USE ReservoirAssumption
<1> SUFFICES ASSUME Init
             PROVE  IInv
  OBVIOUS
<1>1. buf \in Seq(Datum) /\ Len(buf) = 0
  BY EmptySeq DEF Init
<1>2. RangeOf(buf) = {}
  <2>1. DOMAIN buf = {}
    BY <1>1, LenProperties
  <2> QED
    BY <2>1 DEF RangeOf
<1>3. TypeOK
  <2>1. seen = 0 /\ panicked = FALSE /\ live = {} /\ offered = 0
    BY DEF Init
  <2>2. panicked \in BOOLEAN /\ live \in SUBSET Datum
    BY <2>1, Zenon
  <2>3. Len(buf) <= Capacity /\ seen \in Nat /\ offered \in 0 .. MaxOffers
    BY <1>1, <2>1
  <2> QED
    BY <1>1, <2>2, <2>3 DEF TypeOK
<1>4. StepSorted /\ LastIsMaxStep
  BY <1>1 DEF Init, StepSorted, LastIsMaxStep
<1>5. IsFiniteSet(live) /\ Cardinality(live) = 0
  BY FS_EmptySet DEF Init
<1> QED
  BY <1>1, <1>2, <1>3, <1>4, <1>5 DEF Init, IInv

(***************************************************************************)
(* The records that v leaves alone are as many as were live before, or     *)
(* fewer, and v itself is one more.                                        *)
(***************************************************************************)
LEMMA LiveCounted ==
  ASSUME IInv, NEW s \in Int, NEW v
  PROVE  LET spared == {d \in live : d.step < s}
         IN  /\ Cardinality(spared) \in Nat /\ Cardinality(spared) <= Cardinality(live)
             /\ IsFiniteSet(spared \cup {v})
             /\ Cardinality(spared \cup {v}) <= Cardinality(live) + 1
<1> DEFINE spared == {d \in live : d.step < s}
<1>1. IsFiniteSet(live) /\ spared \subseteq live
  BY DEF IInv
<1>2. IsFiniteSet(spared) /\ Cardinality(spared) <= Cardinality(live)
  BY <1>1, FS_Subset
<1>3. Cardinality(live) \in Nat /\ Cardinality(spared) \in Nat
  BY <1>1, <1>2, FS_CardinalityType
<1>4. /\ IsFiniteSet(spared \cup {v})
      /\ \/ Cardinality(spared \cup {v}) = Cardinality(spared)
         \/ Cardinality(spared \cup {v}) = Cardinality(spared) + 1
  BY <1>2, FS_AddElement
<1> QED
  BY <1>2, <1>3, <1>4

\* Panicking or not, Offer keeps what the buffer promises.
LEMMA OfferPreservesIInv ==
  ASSUME IInv, NEW v \in Datum, Offer(v)
  PROVE  IInv'
<1> USE ReservoirAssumption
<1>1. CASE panicked'
  <2>1. UNCHANGED <<buf, seen, live, offered>> /\ panicked' \in BOOLEAN
    BY <1>1 DEF Offer, Panic, Store
  <2> QED
    BY <2>1 DEF IInv, TypeOK, StepSorted, LastIsMaxStep, Sample, Last, RangeOf
<1>2. CASE ~panicked'
  <2>1. /\ buf' \in Seq(Datum) /\ Len(buf') \in 1 .. Capacity
        /\ Len(buf') <= Len(buf) + 1
        /\ StepSorted' /\ buf'[Len(buf')] = v
        /\ \/ RangeOf(buf') = Survivors(v.step) \cup {v}
           \/ /\ offered >= Capacity
              /\ \E lost \in Survivors(v.step) :
                    RangeOf(buf') = (Survivors(v.step) \ {lost}) \cup {v}
        /\ seen' \in Nat /\ seen' <= offered + 1
        /\ live' = {d \in live : d.step < v.step} \cup {v}
        /\ offered' = offered + 1
    BY <1>2, OfferStores
  <2>2. /\ live \in SUBSET Datum /\ RangeOf(buf) \subseteq live
        /\ Len(buf) \in Nat /\ Len(buf) <= offered /\ offered \in 0 .. MaxOffers
    BY LenProperties DEF IInv, TypeOK
  <2>3. panicked' \in BOOLEAN
    BY DEF Offer, Store, Panic, IInv, TypeOK
  <2>4. TypeOK'
    BY <2>1, <2>2, <2>3 DEF Offer, TypeOK
  <2>5. RangeOf(buf') \subseteq live'
    BY <2>1, <2>2 DEF Survivors
  <2>6. LastIsMaxStep'
    <3>1. \A d \in live' : d.step <= v.step
      <4>1. \A d \in Datum : d.step \in Int
        BY DEF Datum
      <4>2. live' \subseteq live \cup {v} /\ \A d \in live' : d = v \/ d.step < v.step
        BY <2>1
      <4> QED
        BY <2>2, <4>1, <4>2
    <3>2. buf' # <<>>
      BY <2>1
    <3> QED
      BY <2>1, <3>1, <3>2 DEF LastIsMaxStep, Sample, Last
  <2>7. seen' <= offered' /\ Len(buf') <= offered'
    BY <2>1, <2>2
  <2>8. RangeOf(buf)' \subseteq live'
    BY <2>5 DEF RangeOf
  <2>9. IsFiniteSet(live') /\ Cardinality(live') <= offered'
    <3>1. v.step \in Int /\ Cardinality(live) <= offered /\ Cardinality(live) \in Nat
      BY FS_CardinalityType DEF Datum, IInv
    <3>2. IsFiniteSet(live') /\ Cardinality(live') <= Cardinality(live) + 1
      BY <2>1, <3>1, LiveCounted
    <3>3. Cardinality(live') \in Nat
      BY <3>2, FS_CardinalityType
    <3> QED
      BY <2>1, <2>2, <3>1, <3>2, <3>3
  <2> QED
    BY <2>1, <2>4, <2>6, <2>7, <2>8, <2>9 DEF IInv
<1> QED
  BY <1>1, <1>2

\* Every step of the reservoir keeps the invariant.
LEMMA NextPreservesIInv == IInv /\ [Next]_vars => IInv'
<1> SUFFICES ASSUME IInv, [Next]_vars
             PROVE  IInv'
  OBVIOUS
<1>1. CASE Next
  <2>1. PICK s \in Steps : Offer([step |-> s, id |-> offered])
    BY <1>1 DEF Next
  <2>2. [step |-> s, id |-> offered] \in Datum
    BY DEF Datum, IInv, TypeOK
  <2> QED
    BY <2>1, <2>2, OfferPreservesIInv
<1>2. CASE UNCHANGED vars
  BY <1>2 DEF vars, IInv, TypeOK, StepSorted, LastIsMaxStep, Sample, Last, RangeOf
<1> QED
  BY <1>1, <1>2

(***************************************************************************)
(* Whatever is offered, and whatever the random source and the rounding of *)
(* lockedPreempt answer, the invariant holds.                              *)
(***************************************************************************)
THEOREM ReservoirInvariant == Spec => []IInv
<1>1. Init => IInv
  BY InitEstablishesIInv
<1>2. IInv /\ [Next]_vars => IInv'
  BY NextPreservesIInv
<1> QED
  BY <1>1, <1>2, PTL DEF Spec

\* The buffer holds records, and never more than its slice has room for.
THEOREM ReservoirTypeOK == Spec => []TypeOK
<1>1. IInv => TypeOK
  BY DEF IInv
<1> QED
  BY <1>1, ReservoirInvariant, PTL

(***************************************************************************)
(* "Representation invariant: buf is stored in step-sorted order", over    *)
(* any number of preemptions, evictions and keep-last replacements.        *)
(***************************************************************************)
THEOREM ReservoirStepSorted == Spec => []StepSorted
<1>1. IInv => StepSorted
  BY DEF IInv
<1> QED
  BY <1>1, ReservoirInvariant, PTL

\* What the list calls serve as max_step is the greatest live step.
THEOREM ReservoirLastIsMaxStep == Spec => []LastIsMaxStep
<1>1. IInv => LastIsMaxStep
  BY DEF IInv
<1> QED
  BY <1>1, ReservoirInvariant, PTL

-----------------------------------------------------------------------------
(***************************************************************************)
(* A call of Offer that returns takes its record in as the contract does,  *)
(* if that counts all offers.                                              *)
(***************************************************************************)
LEMMA OfferTakes ==
  ASSUME IInv, NEW s \in Steps, Offer([step |-> s, id |-> offered]), ~panicked'
  PROVE  Contract!Take(Contract!Record(s), offered)
<1> USE ReservoirAssumption
<1> DEFINE v == [step |-> s, id |-> offered]
<1>1. v \in Datum /\ v.step = s /\ v = Contract!Record(s)
  BY DEF Datum, IInv, TypeOK, Contract!Record
<1>2. /\ \/ RangeOf(buf') = Survivors(v.step) \cup {v}
         \/ /\ offered >= Capacity
            /\ \E lost \in Survivors(v.step) :
                  RangeOf(buf') = (Survivors(v.step) \ {lost}) \cup {v}
      /\ live' = {d \in live : d.step < v.step} \cup {v}
      /\ offered' = offered + 1
  BY <1>1, OfferStores
<1>3. offered < MaxOffers
  BY DEF Offer
<1>4. Survivors(v.step) = Contract!Before(RangeOf(buf), v.step)
  BY DEF Survivors, Contract!Before
<1> HIDE DEF v
<1>5. RangeOf(buf') \in Contract!SamplesAfter(RangeOf(buf), offered, Capacity, v)
  BY <1>2, <1>4 DEF Contract!SamplesAfter
<1>6. RangeOf(buf)' = RangeOf(buf')
  BY DEF RangeOf
<1>7. Contract!Take(v, offered)
  BY <1>2, <1>3, <1>5, <1>6 DEF Contract!Take, Contract!Before
<1> QED
  BY <1>1, <1>7

\* The contract counts as this module does.
LEMMA SameCardinality == \A S : Contract!Cardinality(S) = Cardinality(S)
BY Zenon DEF Contract!Cardinality, Cardinality, Contract!IsFiniteSet, IsFiniteSet

(***************************************************************************)
(* As long as nothing has been preempted, all offers count; so a call is   *)
(* one of the interface's contract, or there has been a restart.           *)
(***************************************************************************)
LEMMA OfferKeepsContract ==
  ASSUME IInv, NEW s \in Steps, Offer([step |-> s, id |-> offered]), ~panicked'
  PROVE  LET v == Contract!Record(s)
         IN  Contract!Offer(v) \/ Contract!OfferAfterRestart(v)
<1> DEFINE v     == Contract!Record(s)
           spared == Contract!Before(live, v.step)
<1>1. v.step = s /\ s \in Int
  BY ReservoirAssumption DEF Contract!Record
<1>2. Cardinality(spared) \in Nat /\ Cardinality(spared) <= offered /\ offered \in Nat
  <2>1. Cardinality(spared) \in Nat /\ Cardinality(spared) <= Cardinality(live)
    BY <1>1, LiveCounted DEF Contract!Before
  <2> QED
    BY <2>1, FS_CardinalityType DEF IInv, TypeOK
<1>3. Contract!Take(v, offered)
  BY OfferTakes
<1>4. CASE Cardinality(spared) < offered
  BY <1>3, <1>4, SameCardinality DEF Contract!OfferAfterRestart, Contract!Restarted
<1>5. CASE Cardinality(spared) = offered
  BY <1>3, <1>5, SameCardinality DEF Contract!Offer
<1> QED
  BY <1>2, <1>4, <1>5

(***************************************************************************)
(* Every step of the reservoir is one of the contract with restarts, or a  *)
(* panic, which shows its reader nothing.                                  *)
(***************************************************************************)
LEMMA StepImplementsContract ==
  ASSUME IInv, [Next]_vars
  PROVE  [Contract!NextWithRestarts]_(Contract!vars)
<1>1. CASE UNCHANGED <<buf, live, offered>>
  BY <1>1 DEF Contract!vars, RangeOf
<1>2. CASE Next
  <2>1. PICK s \in Steps : Offer([step |-> s, id |-> offered])
    BY <1>2 DEF Next
  <2>2. CASE panicked'
    BY <1>1, <2>1, <2>2 DEF Offer, Panic, Store
  <2>3. CASE ~panicked'
    BY <2>1, <2>3, OfferKeepsContract DEF Contract!NextWithRestarts
  <2> QED
    BY <2>2, <2>3
<1> QED
  BY <1>1, <1>2 DEF vars

\* A reservoir that has been offered nothing shows nothing.
LEMMA InitImplementsContract == Init => Contract!Init
BY DEF Init, Contract!Init, RangeOf

(***************************************************************************)
(* The reservoir keeps the contract of the interface EagerReservoir until  *)
(* the stream goes back.  From then on, too, a reader only ever sees live  *)
(* records, always has the latest one, and loses at most one older record  *)
(* for each that arrives; but one may be lost that would fit, once as many *)
(* records have been offered as the capacity is (mem/eager_reservoir.go:95 *)
(* keeps the wrong fraction of the count).                                 *)
(***************************************************************************)
THEOREM ReservoirImplementsContractUntilRestart == Spec => ImplementsContractUntilRestart
<1>1. IInv /\ [Next]_vars => [Contract!NextWithRestarts]_(Contract!vars)
  BY StepImplementsContract
<1> QED
  BY <1>1, InitImplementsContract, ReservoirInvariant, PTL
     DEF Spec, ImplementsContractUntilRestart, Contract!SpecWithRestarts

-----------------------------------------------------------------------------
\* While no record has been preempted, the live ones are all that were offered.
AllLive ==
  /\ Cardinality(live) = offered
  /\ \A d \in live : d.id < offered

\* A record of a new greatest step is one more live record, and preempts none.
LEMMA StepOfIncreasing ==
  ASSUME IInv, AllLive, [Next]_vars, [live \subseteq live']_vars
  PROVE  AllLive' /\ [Contract!Next]_(Contract!vars)
<1>1. CASE UNCHANGED <<buf, live, offered>>
  BY <1>1 DEF AllLive, Contract!vars, RangeOf
<1>2. ASSUME NEW s \in Steps, Offer([step |-> s, id |-> offered]), ~panicked',
             live \subseteq live'
      PROVE  AllLive' /\ Contract!Next
  <2> DEFINE v      == Contract!Record(s)
             spared == Contract!Before(live, v.step)
  <2>1. Contract!Take(v, offered)
    BY <1>2, OfferTakes
  <2>2. live' = spared \cup {v} /\ offered' = offered + 1
    BY <2>1 DEF Contract!Take
  <2>3. /\ offered \in Nat /\ v.id = offered /\ v \notin live
        /\ \A d \in live : d.id \in Nat
    BY DEF AllLive, IInv, TypeOK, Datum, Contract!Record
  <2>4. spared \subseteq live
    BY DEF Contract!Before
  <2> HIDE DEF v, spared
  <2>5. spared = live
    BY <1>2, <2>2, <2>3, <2>4
  <2>6. Cardinality(live') = Cardinality(live) + 1
    BY <2>2, <2>3, <2>5, FS_AddElement DEF IInv
  <2>7. AllLive'
    <3>1. Cardinality(live') = offered'
      BY <2>2, <2>6 DEF AllLive
    <3>2. \A d \in live' : d.id < offered'
      BY <2>2, <2>3, <2>5 DEF AllLive
    <3> QED
      BY <3>1, <3>2 DEF AllLive
  <2>8. Contract!Offer(v)
    BY <2>1, <2>5, SameCardinality DEF AllLive, Contract!Offer, v, spared
  <2> QED
    BY <2>7, <2>8 DEF Contract!Next, v
<1>3. CASE Next /\ live \subseteq live'
  <2>1. PICK s \in Steps : Offer([step |-> s, id |-> offered])
    BY <1>3 DEF Next
  <2>2. CASE panicked'
    BY <1>1, <2>1, <2>2 DEF Offer, Panic, Store
  <2> QED
    BY <1>2, <1>3, <2>1, <2>2
<1> QED
  BY <1>1, <1>3 DEF vars

(***************************************************************************)
(* For a stream whose steps increase the reservoir keeps the contract of   *)
(* its interface in full: "up to capacity elements losslessly"             *)
(* (mem/eager_reservoir.go:29), and a sample with the latest one beyond.   *)
(***************************************************************************)
THEOREM ContractOfIncreasingSteps == Spec /\ StepsIncrease => ImplementsContract
<1>1. Init => AllLive
  BY FS_EmptySet DEF Init, AllLive
<1>2. IInv /\ AllLive /\ [Next]_vars /\ [live \subseteq live']_vars
        => AllLive' /\ [Contract!Next]_(Contract!vars)
  BY StepOfIncreasing
<1> QED
  BY <1>1, <1>2, InitImplementsContract, ReservoirInvariant, PTL
     DEF Spec, StepsIncrease, ImplementsContract, Contract!Spec
=============================================================================
