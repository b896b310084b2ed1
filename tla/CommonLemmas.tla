----------------------------- MODULE CommonLemmas -----------------------------
(***************************************************************************)
(* Facts that the proofs of several components cite: about sequences, and  *)
(* about the compatibility transformations (mem/datacompat.go).            *)
(*                                                                         *)
(* Induction is stated for sets, so that it can be cited: the predicate is *)
(* membership of G.                                                        *)
(***************************************************************************)
EXTENDS DataCompat, SequenceTheorems, FiniteSetTheorems, NaturalsInduction,
        WellFoundedInduction, TLAPS

\* EventValues folds Migrate over the values of an event.  (Its lemmas on
\* induction are those of this module as well.)
Migrating == INSTANCE LeftFold WITH Op <- Migrate

(***************************************************************************)
(* Induction over the naturals.                                            *)
(***************************************************************************)
LEMMA InductionOnNat ==
  ASSUME NEW G, 0 \in G, \A n \in Nat : n \in G => n + 1 \in G
  PROVE  Nat \subseteq G
BY Migrating!InductionOnNat

(***************************************************************************)
(* A set of naturals that is not empty has a least element.                *)
(***************************************************************************)
LEMMA LeastNatural ==
  ASSUME NEW N \in SUBSET Nat, N # {}
  PROVE  Min(N) \in N /\ \A n \in N : Min(N) <= n
<1>1. PICK n \in N : \A m \in N : <<m, n>> \notin OpToRel(<, Nat)
  BY NatLessThanWellFounded, WFMin, Zenon
<1>2. \A m \in N : m < n => <<m, n>> \in OpToRel(<, Nat)
  BY Zenon DEF OpToRel
<1>3. \A m \in N : ~(m < n)
  BY <1>1, <1>2, Zenon
<1>4. \A m \in N : n <= m
  BY <1>3
<1> QED
  BY <1>4 DEF Min

(***************************************************************************)
(* Induction over the sequences, from the empty one by Append.             *)
(***************************************************************************)
LEMMA InductionOnSeq ==
  ASSUME NEW S, NEW G, <<>> \in G,
         \A s \in Seq(S), e \in S : s \in G => Append(s, e) \in G
  PROVE  Seq(S) \subseteq G
<1> DEFINE Lengths == {n \in Nat : \A s \in Seq(S) : Len(s) = n => s \in G}
<1>1. 0 \in Lengths
  BY EmptySeq
<1>2. ASSUME NEW n \in Nat, n \in Lengths
      PROVE  n + 1 \in Lengths
  <2> SUFFICES ASSUME NEW s \in Seq(S), Len(s) = n + 1
               PROVE  s \in G
    OBVIOUS
  <2>1. s # <<>>
    BY EmptySeq
  <2>2. PICK t \in Seq(S), e \in S : s = Append(t, e)
    BY <2>1, SequenceEmptyOrAppend
  <2>3. Len(t) = n
    BY <2>2, AppendProperties, LenProperties
  <2> QED
    BY <1>2, <2>2, <2>3
<1>3. Nat \subseteq Lengths
  <2> HIDE DEF Lengths
  <2> QED
    BY <1>1, <1>2, InductionOnNat
<1> QED
  BY <1>3, LenProperties

(***************************************************************************)
(* A function of the first n places is a sequence of length n.             *)
(***************************************************************************)
LEMMA SeqOfFunction ==
  ASSUME NEW S, NEW n \in Nat, NEW s \in [1 .. n -> S]
  PROVE  s \in Seq(S) /\ Len(s) = n
<1>1. s \in Seq(S)
  BY SeqDef
<1>2. DOMAIN s = 1 .. Len(s) /\ Len(s) \in Nat
  BY <1>1, LenProperties
<1> QED
  BY <1>1, <1>2

-----------------------------------------------------------------------------
\* What the recursion of FlattenSeq(ss) makes of f, as far as place n.
Flattening(ss, n, f) ==
  [i \in 1 .. n |-> IF i = 1 THEN ss[i] ELSE f[i - 1] \o ss[i]]

(***************************************************************************)
(* At each place the recursion reads its place before.                     *)
(***************************************************************************)
LEMMA FlatteningAt ==
  ASSUME NEW ss, NEW n \in Nat, NEW f, f = Flattening(ss, n, f)
  PROVE  \A i \in 1 .. n : f[i] = IF i = 1 THEN ss[i] ELSE f[i - 1] \o ss[i]
<1> DEFINE h == Flattening(ss, n, f)
<1>1. \A i \in 1 .. n : h[i] = IF i = 1 THEN ss[i] ELSE f[i - 1] \o ss[i]
  BY Zenon DEF Flattening
<1>2. f = h
  OBVIOUS
<1> HIDE DEF h
<1> QED
  BY <1>1, <1>2, Zenon

(***************************************************************************)
(* There is a function that solves the recursion of FlattenSeq, ...        *)
(***************************************************************************)
LEMMA FlatteningExists ==
  ASSUME NEW ss, NEW n \in Nat
  PROVE  \E f : f = Flattening(ss, n, f)
<1> DEFINE G == {k \in Nat : \E f : f = Flattening(ss, k, f)}
<1>1. 0 \in G
  <2>1. <<>> = Flattening(ss, 0, <<>>)
    BY DEF Flattening
  <2> QED
    BY <2>1
<1>2. ASSUME NEW k \in Nat, k \in G
      PROVE  k + 1 \in G
  <2>1. PICK f : f = Flattening(ss, k, f)
    BY <1>2
  <2> DEFINE g == Flattening(ss, k + 1, f)
  <2>2. \A i \in 1 .. k : g[i] = f[i]
    <3> SUFFICES ASSUME NEW i \in 1 .. k
                 PROVE  g[i] = f[i]
      OBVIOUS
    <3>1. i \in 1 .. k + 1
      OBVIOUS
    <3>2. f[i] = IF i = 1 THEN ss[i] ELSE f[i - 1] \o ss[i]
      BY <2>1, FlatteningAt
    <3>3. g[i] = IF i = 1 THEN ss[i] ELSE f[i - 1] \o ss[i]
      BY <3>1, Zenon DEF Flattening
    <3> QED
      BY <3>2, <3>3, Zenon
  <2>3. \A i \in 1 .. k + 1 : i # 1 => i - 1 \in 1 .. k
    OBVIOUS
  <2>4. g = Flattening(ss, k + 1, g)
    BY <2>2, <2>3 DEF Flattening
  <2> QED
    BY <2>4
<1> HIDE DEF G
<1>3. Nat \subseteq G
  BY <1>1, <1>2, InductionOnNat
<1> QED
  BY <1>3 DEF G

(***************************************************************************)
(* ... it depends on the sequences up to its place only, ...               *)
(***************************************************************************)
LEMMA FlatteningUnique ==
  ASSUME NEW ss, NEW tt, NEW n \in Nat, NEW m \in Nat, n <= m,
         \A i \in 1 .. n : ss[i] = tt[i],
         NEW f, f = Flattening(ss, n, f), NEW g, g = Flattening(tt, m, g)
  PROVE  \A i \in 1 .. n : f[i] = g[i]
<1> DEFINE G == {k \in Nat : k \in 1 .. n => f[k] = g[k]}
<1>1. 0 \in G
  OBVIOUS
<1>2. ASSUME NEW k \in Nat, k \in G
      PROVE  k + 1 \in G
  <2> SUFFICES ASSUME k + 1 \in 1 .. n
               PROVE  f[k + 1] = g[k + 1]
    OBVIOUS
  <2>1. k + 1 \in 1 .. m
    OBVIOUS
  <2>2. f[k + 1] = IF k + 1 = 1 THEN ss[k + 1] ELSE f[k] \o ss[k + 1]
    BY FlatteningAt, k + 1 - 1 = k
  <2>3. g[k + 1] = IF k + 1 = 1 THEN tt[k + 1] ELSE g[k] \o tt[k + 1]
    BY <2>1, FlatteningAt, k + 1 - 1 = k
  <2>4. k + 1 # 1 => f[k] = g[k]
    BY <1>2
  <2> QED
    BY <2>2, <2>3, <2>4
<1> HIDE DEF G
<1>3. Nat \subseteq G
  BY <1>1, <1>2, InductionOnNat
<1> QED
  BY <1>3 DEF G

(***************************************************************************)
(* ... so flattening goes on from where it was when a sequence is added.   *)
(***************************************************************************)
LEMMA FlattenAppend ==
  ASSUME NEW S, NEW ss \in Seq(Seq(S)), NEW s \in Seq(S)
  PROVE  /\ FlattenSeq(<<>>) = <<>>
         /\ FlattenSeq(Append(ss, s)) = FlattenSeq(ss) \o s
<1>1. FlattenSeq(<<>>) = <<>>
  BY DEF FlattenSeq
<1> DEFINE tt == Append(ss, s)
           n == Len(ss)
           f == CHOOSE h : h = Flattening(ss, n, h)
           g == CHOOSE h : h = Flattening(tt, n + 1, h)
<1>2. /\ n \in Nat
      /\ Len(tt) = n + 1 /\ tt[n + 1] = s /\ \A i \in 1 .. n : ss[i] = tt[i]
  BY AppendProperties, LenProperties
<1>3. f = Flattening(ss, n, f) /\ g = Flattening(tt, n + 1, g)
  BY <1>2, FlatteningExists
<1>4. FlattenSeq(tt) = g[n + 1]
  <2> HIDE DEF tt, n
  <2> QED
    BY <1>2, n + 1 # 0, Zenon DEF FlattenSeq, Flattening
<1>5. n # 0 => FlattenSeq(ss) = f[n]
  BY <1>2 DEF FlattenSeq, Flattening
<1> HIDE DEF f, g, n, tt
<1>6. g[n + 1] = IF n = 0 THEN s ELSE g[n] \o s
  <2>1. n + 1 \in Nat /\ n + 1 \in 1 .. n + 1 /\ n + 1 - 1 = n /\ (n + 1 = 1 <=> n = 0)
    BY <1>2
  <2> QED
    BY <1>2, <1>3, <2>1, FlatteningAt
<1>7. CASE n = 0
  <2>1. ss = <<>>
    BY <1>7, EmptySeq DEF n
  <2> QED
    BY <1>1, <1>4, <1>6, <1>7, <2>1 DEF tt
<1>8. CASE n # 0
  <2>1. f[n] = g[n]
    BY <1>2, <1>3, <1>8, FlatteningUnique
  <2> QED
    BY <1>1, <1>4, <1>5, <1>6, <1>8, <2>1 DEF tt
<1> QED
  BY <1>7, <1>8

(***************************************************************************)
(* Flattening yields a sequence of the same elements.                      *)
(***************************************************************************)
LEMMA FlattenType ==
  ASSUME NEW S, NEW ss \in Seq(Seq(S))
  PROVE  FlattenSeq(ss) \in Seq(S)
<1> DEFINE G == {tt \in Seq(Seq(S)) : FlattenSeq(tt) \in Seq(S)}
<1>1. <<>> \in G
  BY FlattenAppend, EmptySeq
<1>2. ASSUME NEW tt \in Seq(Seq(S)), NEW s \in Seq(S), tt \in G
      PROVE  Append(tt, s) \in G
  BY <1>2, FlattenAppend, AppendProperties, ConcatProperties
<1> HIDE DEF G
<1>3. Seq(Seq(S)) \subseteq G
  BY <1>1, <1>2, InductionOnSeq
<1> QED
  BY <1>3 DEF G

-----------------------------------------------------------------------------
(***************************************************************************)
(* What passes from the head of one queue to the end of another is still   *)
(* in the same place of the two together.                                  *)
(***************************************************************************)
LEMMA PassOn ==
  ASSUME NEW S, NEW s \in Seq(S), NEW t \in Seq(S), t # <<>>
  PROVE  Append(s, Head(t)) \o Tail(t) = s \o t
<1>1. Head(t) \in S /\ Tail(t) \in Seq(S) /\ <<Head(t)>> \in Seq(S)
  BY HeadTailProperties
<1>2. <<Head(t)>> \o Tail(t) = t
  <2>1. Len(t) \in Nat /\ Len(t) > 0 /\ Head(t) = t[1]
    BY LenProperties, EmptySeq
  <2>2. /\ Len(Tail(t)) = Len(t) - 1
        /\ \A i \in 1 .. Len(Tail(t)) : Tail(t)[i] = t[i + 1]
    BY HeadTailProperties
  <2>3. /\ Len(<<Head(t)>>) = 1 /\ <<Head(t)>>[1] = t[1]
    BY <2>1
  <2> DEFINE u == <<Head(t)>> \o Tail(t)
  <2>4. /\ u \in Seq(S) /\ Len(u) = Len(t)
        /\ \A i \in 1 .. Len(t) : u[i] = IF i <= 1 THEN <<Head(t)>>[i] ELSE Tail(t)[i - 1]
    BY <1>1, <2>1, <2>2, <2>3, ConcatProperties
  <2> HIDE DEF u
  <2>5. \A i \in 1 .. Len(t) : u[i] = t[i]
    BY <2>1, <2>2, <2>3, <2>4
  <2>6. u = t
    BY <2>4, <2>5, SeqEqual
  <2> QED
    BY <2>6 DEF u
<1>3. Append(s, Head(t)) = s \o <<Head(t)>>
  BY <1>1, AppendIsConcat
<1>4. (s \o <<Head(t)>>) \o Tail(t) = s \o (<<Head(t)>> \o Tail(t))
  BY <1>1, ConcatAssociative
<1> QED
  BY <1>2, <1>3, <1>4

(***************************************************************************)
(* The length of a sequence, from its domain.                              *)
(***************************************************************************)
LEMMA LenOfDomain ==
  ASSUME NEW S, NEW s \in Seq(S), NEW n \in Nat, DOMAIN s = 1 .. n
  PROVE  Len(s) = n
<1>1. 1 .. Len(s) = 1 .. n /\ Len(s) \in Nat
  BY LenProperties
<1> QED
  BY <1>1

(***************************************************************************)
(* Appending to the second of two sequences appends to both together.      *)
(***************************************************************************)
LEMMA ConcatAppend ==
  ASSUME NEW S, NEW s \in Seq(S), NEW t \in Seq(S), NEW e \in S
  PROVE  s \o Append(t, e) = Append(s \o t, e) /\ s \o t \in Seq(S)
<1>1. Append(t, e) = t \o <<e>> /\ <<e>> \in Seq(S)
  BY AppendIsConcat
<1>2. s \o t \in Seq(S)
  BY ConcatProperties
<1>3. Append(s \o t, e) = (s \o t) \o <<e>>
  BY <1>2, AppendIsConcat
<1>4. (s \o t) \o <<e>> = s \o (t \o <<e>>)
  BY <1>1, ConcatAssociative
<1> QED
  BY <1>1, <1>2, <1>3, <1>4

(***************************************************************************)
(* The elements of a longer sequence.                                      *)
(***************************************************************************)
LEMMA ElementsOfConcat ==
  ASSUME NEW S, NEW s \in Seq(S), NEW t \in Seq(S)
  PROVE  ToSet(s \o t) = ToSet(s) \cup ToSet(t)
<1>1. /\ DOMAIN s = 1 .. Len(s) /\ Len(s) \in Nat
      /\ DOMAIN t = 1 .. Len(t) /\ Len(t) \in Nat
  BY LenProperties
<1> DEFINE u == s \o t
<1>2. /\ DOMAIN u = 1 .. Len(s) + Len(t)
      /\ \A i \in 1 .. Len(s) + Len(t) :
           u[i] = IF i <= Len(s) THEN s[i] ELSE t[i - Len(s)]
  BY ConcatProperties, LenProperties
<1> HIDE DEF u
<1>3. ToSet(u) \subseteq ToSet(s) \cup ToSet(t)
  <2> SUFFICES ASSUME NEW i \in DOMAIN u
               PROVE  u[i] \in ToSet(s) \cup ToSet(t)
    BY DEF ToSet
  <2>1. CASE i <= Len(s)
    <3>1. i \in DOMAIN s /\ u[i] = s[i]
      BY <1>1, <1>2, <2>1
    <3> QED
      BY <3>1 DEF ToSet
  <2>2. CASE i > Len(s)
    <3>1. i - Len(s) \in DOMAIN t /\ u[i] = t[i - Len(s)]
      BY <1>1, <1>2, <2>2
    <3> QED
      BY <3>1 DEF ToSet
  <2> QED
    BY <1>1, <1>2, <2>1, <2>2
<1>4. ASSUME NEW i \in DOMAIN s
      PROVE  s[i] \in ToSet(u)
  <2>1. i \in DOMAIN u /\ u[i] = s[i]
    BY <1>1, <1>2
  <2> QED
    BY <2>1 DEF ToSet
<1>5. ASSUME NEW i \in DOMAIN t
      PROVE  t[i] \in ToSet(u)
  <2>1. i + Len(s) \in DOMAIN u /\ u[i + Len(s)] = t[i]
    BY <1>1, <1>2
  <2> QED
    BY <2>1 DEF ToSet
<1>6. ToSet(s) \subseteq ToSet(u) /\ ToSet(t) \subseteq ToSet(u)
  BY <1>4, <1>5 DEF ToSet
<1> QED
  BY <1>3, <1>6 DEF u

(***************************************************************************)
(* A sequence is its prefix and what comes after that.                     *)
(***************************************************************************)
LEMMA PrefixAndRest ==
  ASSUME NEW S, NEW s \in Seq(S), NEW d \in Seq(S), IsPrefix(s, d)
  PROVE  LET rest == SubSeq(d, Len(s) + 1, Len(d))
         IN  rest \in Seq(S) /\ d = s \o rest
<1> DEFINE n == Len(s)
<1>2. n \in Nat /\ Len(d) \in Nat /\ n <= Len(d)
  BY LenProperties DEF IsPrefix
<1>3. s = SubSeq(d, 1, n)
  BY SubSeqFull DEF IsPrefix
<1> HIDE DEF n
<1>4. SubSeq(d, 1, n) \o SubSeq(d, n + 1, Len(d)) = SubSeq(d, 1, Len(d))
  <2>1. 1 \in 1 .. Len(d) + 1 /\ n \in 1 - 1 .. Len(d) /\ Len(d) \in n .. Len(d)
    BY <1>2
  <2> QED
    BY <2>1, ConcatAdjacentSubSeq
<1>5. SubSeq(d, 1, Len(d)) = d
  BY SubSeqFull
<1>6. SubSeq(d, n + 1, Len(d)) \in Seq(S)
  <2>1. \A i \in n + 1 .. Len(d) : i \in 1 .. Len(d)
    BY <1>2
  <2>2. \A i \in n + 1 .. Len(d) : d[i] \in S
    BY <2>1, ElementOfSeq
  <2> QED
    BY <1>2, <2>2, SubSeqProperties
<1> QED
  BY <1>3, <1>4, <1>5, <1>6 DEF n

(***************************************************************************)
(* What the sequences of a finite set's elements are.                      *)
(***************************************************************************)
LEMMA ElementsInSomeOrder ==
  ASSUME NEW S, IsFiniteSet(S), NEW s \in SetToSeqs(S)
  PROVE  /\ s \in Seq(S) /\ ToSet(s) = S
         /\ \A i, j \in DOMAIN s : s[i] = s[j] => i = j
<1> DEFINE n == Cardinality(S)
<1>1. n \in Nat
  BY FS_CardinalityType
<1>2. s \in [1 .. n -> S] /\ \A i, j \in 1 .. n : i # j => s[i] # s[j]
  BY DEF SetToSeqs
<1> HIDE DEF n
<1>3. s \in Injection(1 .. n, S)
  BY <1>2 DEF Injection, IsInjective
<1>4. Cardinality(1 .. n) = n
  <2>1. n >= 0 /\ n - 1 + 1 = n /\ n \in Int /\ 1 \in Int
    BY <1>1
  <2>2. Cardinality(1 .. n) = IF 1 > n THEN 0 ELSE n - 1 + 1
    BY <2>1, FS_Interval
  <2> QED
    BY <1>1, <2>2
<1>5. s \in Surjection(1 .. n, S)
  BY <1>3, <1>4, FS_Injection DEF n
<1>6. ToSet(s) = S
  BY <1>2, <1>5 DEF Surjection, ToSet
<1>7. s \in Seq(S)
  BY <1>1, <1>2, SeqOfFunction
<1> QED
  BY <1>2, <1>6, <1>7

(***************************************************************************)
(* SetToSeq is one of them.                                                *)
(***************************************************************************)
LEMMA ElementsInOrder ==
  ASSUME NEW S, IsFiniteSet(S)
  PROVE  SetToSeq(S) \in SetToSeqs(S)
<1> DEFINE n == Cardinality(S)
<1>1. ExistsBijection(1 .. n, S)
  BY FS_CardinalityType
<1>2. \E f \in [1 .. n -> S] : IsInjective(f)
  BY <1>1 DEF ExistsBijection, Bijection, Injection
<1>3. SetToSeq(S) \in [1 .. n -> S] /\ IsInjective(SetToSeq(S))
  BY <1>2, Zenon DEF SetToSeq
<1>4. \A f \in [1 .. n -> S] : IsInjective(f) => f \in SetToSeqs(S)
  BY DEF SetToSeqs, IsInjective
<1> QED
  BY <1>3, <1>4, Zenon

-----------------------------------------------------------------------------
\* The sequences that F makes of the elements of s, one after the other.
FlatMap(F, s) == FlattenSeq([i \in DOMAIN s |-> F[s[i]]])
Maps(F, S, T) == F \in [S -> Seq(T)]

(***************************************************************************)
(* One element more adds what F makes of it.                               *)
(***************************************************************************)
LEMMA FlatMapAppend ==
  ASSUME NEW S, NEW T, NEW F, Maps(F, S, T), NEW s \in Seq(S), NEW e \in S
  PROVE  /\ FlatMap(F, <<>>) = <<>>
         /\ FlatMap(F, Append(s, e)) = FlatMap(F, s) \o F[e]
         /\ FlatMap(F, s) \in Seq(T)
<1>1. ASSUME NEW u \in Seq(S)
      PROVE  /\ [i \in DOMAIN u |-> F[u[i]]] \in Seq(Seq(T))
             /\ Len([i \in DOMAIN u |-> F[u[i]]]) = Len(u)
  <2>1. DOMAIN u = 1 .. Len(u) /\ Len(u) \in Nat
    BY LenProperties
  <2>2. \A i \in 1 .. Len(u) : u[i] \in S
    BY ElementOfSeq
  <2> DEFINE m == [i \in DOMAIN u |-> F[u[i]]]
  <2>3. m \in [1 .. Len(u) -> Seq(T)]
    BY <2>1, <2>2 DEF Maps
  <2> HIDE DEF m
  <2>4. m \in Seq(Seq(T)) /\ Len(m) = Len(u)
    BY <2>1, <2>3, SeqOfFunction
  <2> QED
    BY <2>4 DEF m
<1> DEFINE u == Append(s, e)
           m == [i \in DOMAIN s |-> F[s[i]]]
           n == [i \in DOMAIN u |-> F[u[i]]]
<1>2. /\ u \in Seq(S) /\ Len(u) = Len(s) + 1 /\ Len(s) \in Nat
      /\ \A i \in 1 .. Len(s) : u[i] = s[i]
      /\ u[Len(s) + 1] = e
      /\ DOMAIN s = 1 .. Len(s)
  BY AppendProperties, LenProperties
<1>3. DOMAIN u = 1 .. Len(s) + 1
  BY <1>2, LenProperties
<1> HIDE DEF u
<1>4. /\ m \in Seq(Seq(T)) /\ Len(m) = Len(s)
      /\ n \in Seq(Seq(T)) /\ Len(n) = Len(s) + 1
  BY <1>1, <1>2
<1>5. /\ \A i \in 1 .. Len(s) : n[i] = m[i]
      /\ n[Len(s) + 1] = F[e]
  BY <1>2, <1>3
<1> HIDE DEF m, n
<1>6. F[e] \in Seq(T)
  BY DEF Maps
<1>7. n = Append(m, F[e])
  <2> DEFINE k == Append(m, F[e])
  <2>1. /\ k \in Seq(Seq(T)) /\ Len(k) = Len(s) + 1
        /\ \A i \in 1 .. Len(s) : k[i] = m[i]
        /\ k[Len(s) + 1] = F[e]
    BY <1>4, <1>6, AppendProperties
  <2> HIDE DEF k
  <2>2. \A i \in 1 .. Len(n) : n[i] = k[i]
    <3>1. \A i \in 1 .. Len(n) : i \in 1 .. Len(s) \/ i = Len(s) + 1
      BY <1>2, <1>4
    <3> QED
      BY <1>5, <2>1, <3>1
  <2>3. n = k
    <3>1. Len(n) = Len(k)
      BY <1>4, <2>1
    <3> QED
      BY <1>4, <2>1, <2>2, <3>1, SeqEqual, Zenon
  <2> QED
    BY <2>3 DEF k
<1>8. FlattenSeq(n) = FlattenSeq(m) \o F[e]
  BY <1>4, <1>6, <1>7, FlattenAppend
<1>9. FlattenSeq(m) \in Seq(T)
  BY <1>4, FlattenType
<1>10. FlatMap(F, <<>>) = <<>>
  <2>1. [i \in DOMAIN <<>> |-> F[<<>>[i]]] = <<>>
    OBVIOUS
  <2> QED
    BY <2>1, FlattenAppend, EmptySeq DEF FlatMap
<1> QED
  BY <1>8, <1>9, <1>10 DEF FlatMap, m, n, u

(***************************************************************************)
(* What comes of one element.                                              *)
(***************************************************************************)
LEMMA FlatMapOne ==
  ASSUME NEW S, NEW T, NEW F, Maps(F, S, T), NEW e \in S
  PROVE  FlatMap(F, <<e>>) = F[e]
<1>1. <<>> \in Seq(S) /\ Append(<<>>, e) = <<e>>
  BY EmptySeq
<1>2. \A v \in Seq(S), d \in S : /\ FlatMap(F, Append(v, d)) = FlatMap(F, v) \o F[d]
                                /\ FlatMap(F, <<>>) = <<>>
  BY FlatMapAppend
<1>3. FlatMap(F, Append(<<>>, e)) = <<>> \o F[e]
  BY <1>1, <1>2, Zenon
<1>4. F[e] \in Seq(T)
  BY DEF Maps
<1>5. <<>> \o F[e] = F[e]
  BY <1>4, ConcatEmptySeq
<1> QED
  BY <1>1, <1>3, <1>5

(***************************************************************************)
(* What comes of a sequence is one.                                        *)
(***************************************************************************)
LEMMA FlatMapType ==
  ASSUME NEW S, NEW T, NEW F, Maps(F, S, T), NEW u \in Seq(S)
  PROVE  FlatMap(F, u) \in Seq(T)
<1>1. CASE u = <<>>
  BY <1>1, EmptySeq DEF FlatMap, FlattenSeq
<1>2. CASE u # <<>>
  <2>1. Head(u) \in S
    BY <1>2, HeadTailProperties
  <2> QED
    BY <2>1, FlatMapAppend
<1> QED
  BY <1>1, <1>2

(***************************************************************************)
(* What comes of two sequences is what comes of the first, and of the      *)
(* second.                                                                 *)
(***************************************************************************)
LEMMA FlatMapConcat ==
  ASSUME NEW S, NEW T, NEW F, Maps(F, S, T), NEW s \in Seq(S), NEW t \in Seq(S)
  PROVE  FlatMap(F, s \o t) = FlatMap(F, s) \o FlatMap(F, t)
<1> DEFINE G == {u \in Seq(S) : FlatMap(F, s \o u) = FlatMap(F, s) \o FlatMap(F, u)}
<1>t. \A u \in Seq(S) : FlatMap(F, u) \in Seq(T)
  BY FlatMapType
<1>v. \A v \in Seq(S), d \in S : FlatMap(F, Append(v, d)) = FlatMap(F, v) \o F[d]
  BY FlatMapAppend
<1>1. <<>> \in G
  <2>1. s \o <<>> = s /\ FlatMap(F, s) \o <<>> = FlatMap(F, s)
    BY <1>t, ConcatEmptySeq
  <2>2. FlatMap(F, <<>>) = <<>>
    BY DEF FlatMap, FlattenSeq
  <2> QED
    BY <2>1, <2>2, EmptySeq
<1>2. ASSUME NEW u \in Seq(S), NEW e \in S, u \in G
      PROVE  Append(u, e) \in G
  <2>1. s \o Append(u, e) = Append(s \o u, e)
    BY ConcatAppend
  <2>2. FlatMap(F, Append(s \o u, e)) = FlatMap(F, s \o u) \o F[e]
    <3>1. s \o u \in Seq(S)
      BY ConcatProperties
    <3> QED
      BY <1>v, <3>1, Zenon
  <2>3. FlatMap(F, Append(u, e)) = FlatMap(F, u) \o F[e]
    BY FlatMapAppend
  <2>4. (FlatMap(F, s) \o FlatMap(F, u)) \o F[e] = FlatMap(F, s) \o (FlatMap(F, u) \o F[e])
    <3>1. FlatMap(F, s) \in Seq(T) /\ FlatMap(F, u) \in Seq(T) /\ F[e] \in Seq(T)
      BY <1>t DEF Maps
    <3>2. \A a, b, c \in Seq(T) : (a \o b) \o c = a \o (b \o c)
      BY ConcatAssociative, SMTT(30)
    <3> QED
      BY <3>1, <3>2, Zenon
  <2>5. FlatMap(F, s \o u) = FlatMap(F, s) \o FlatMap(F, u)
    BY <1>2
  <2>6. Append(u, e) \in Seq(S)
    BY AppendProperties
  <2> QED
    BY <2>1, <2>2, <2>3, <2>4, <2>5, <2>6
<1>3. Seq(S) \subseteq G
  <2> HIDE DEF G
  <2> QED
    BY <1>1, <1>2, InductionOnSeq
<1> QED
  BY <1>3

(***************************************************************************)
(* What comes of a sequence when F makes one element of each, ...          *)
(***************************************************************************)
LEMMA FlatMapSingletons ==
  ASSUME NEW S, NEW T, NEW F, Maps(F, S, T), NEW H \in [S -> T],
         NEW A \in SUBSET S, \A e \in A : F[e] = <<H[e]>>, NEW s \in Seq(A)
  PROVE  /\ Len(FlatMap(F, s)) = Len(s)
         /\ \A i \in 1 .. Len(s) : FlatMap(F, s)[i] = H[s[i]]
         /\ FlatMap(F, s) \in Seq(T)
<1> DEFINE Good(u) == /\ FlatMap(F, u) \in Seq(T) /\ Len(FlatMap(F, u)) = Len(u)
                      /\ \A i \in 1 .. Len(u) : FlatMap(F, u)[i] = H[u[i]]
           G == {u \in Seq(A) : Good(u)}
<1>1. <<>> \in G
  <2>1. FlatMap(F, <<>>) = <<>>
    BY DEF FlatMap, FlattenSeq
  <2> DEFINE w == FlatMap(F, <<>>)
  <2> HIDE DEF w
  <2>2. w \in Seq(T) /\ Len(w) = 0 /\ Len(<<>>) = 0 /\ <<>> \in Seq(A)
    BY <2>1, EmptySeq DEF w
  <2>3. Good(<<>>)
    BY <2>2 DEF w
  <2> QED
    BY <2>2, <2>3
<1>2. ASSUME NEW u \in Seq(A), NEW e \in A, u \in G
      PROVE  Append(u, e) \in G
  <2> DEFINE a == Append(u, e)
             w == FlatMap(F, u)
  <2>1. u \in Seq(S) /\ e \in S
    BY SeqMonotonic
  <2>2. FlatMap(F, a) = w \o <<H[e]>>
    <3>1. FlatMap(F, Append(u, e)) = FlatMap(F, u) \o F[e]
      BY <2>1, FlatMapAppend
    <3> QED
      BY <3>1
  <2>3. w \in Seq(T) /\ Len(w) = Len(u) /\ \A i \in 1 .. Len(u) : w[i] = H[u[i]]
    BY <1>2
  <2>4. H[e] \in T
    BY <2>1
  <2> HIDE DEF w
  <2>5. w \o <<H[e]>> = Append(w, H[e])
    BY <2>3, <2>4, AppendIsConcat
  <2>6. /\ Append(w, H[e]) \in Seq(T)
        /\ Len(Append(w, H[e])) = Len(u) + 1
        /\ \A i \in 1 .. Len(u) : Append(w, H[e])[i] = w[i]
        /\ Append(w, H[e])[Len(u) + 1] = H[e]
    BY <2>3, <2>4, AppendProperties
  <2>7. /\ a \in Seq(A) /\ Len(a) = Len(u) + 1 /\ Len(u) \in Nat
        /\ \A i \in 1 .. Len(u) : a[i] = u[i]
        /\ a[Len(u) + 1] = e
    BY AppendProperties, LenProperties
  <2> DEFINE x == Append(w, H[e])
  <2> HIDE DEF a, x
  <2>8. \A i \in 1 .. Len(a) : i \in 1 .. Len(u) \/ i = Len(u) + 1
    BY <2>7
  <2>9. \A i \in 1 .. Len(a) : x[i] = H[a[i]]
    BY <2>3, <2>6, <2>7, <2>8 DEF x
  <2>10. FlatMap(F, a) = x
    BY <2>2, <2>5 DEF x
  <2>11. x \in Seq(T) /\ Len(x) = Len(a)
    BY <2>6, <2>7 DEF x
  <2>12. Good(a)
    BY <2>9, <2>10, <2>11
  <2> QED
    BY <2>7, <2>12 DEF a
<1>3. Seq(A) \subseteq G
  <2> HIDE DEF G
  <2> QED
    BY <1>1, <1>2, InductionOnSeq
<1> QED
  BY <1>3

(***************************************************************************)
(* ... and when it makes nothing of any.                                   *)
(***************************************************************************)
LEMMA FlatMapNothing ==
  ASSUME NEW S, NEW T, NEW F, Maps(F, S, T),
         NEW A \in SUBSET S, \A e \in A : F[e] = <<>>, NEW s \in Seq(A)
  PROVE  FlatMap(F, s) = <<>>
<1> DEFINE G == {u \in Seq(A) : FlatMap(F, u) = <<>>}
<1>1. <<>> \in G
  BY EmptySeq DEF FlatMap, FlattenSeq
<1>2. ASSUME NEW u \in Seq(A), NEW e \in A, u \in G
      PROVE  Append(u, e) \in G
  <2>1. u \in Seq(S) /\ e \in S
    BY SeqMonotonic
  <2>2. FlatMap(F, Append(u, e)) = <<>> \o <<>>
    BY <1>2, <2>1, FlatMapAppend
  <2>3. <<>> \o <<>> = <<>> /\ Append(u, e) \in Seq(A)
    BY ConcatEmptySeq, EmptySeq, AppendProperties
  <2> QED
    BY <2>2, <2>3
<1>3. Seq(A) \subseteq G
  <2> HIDE DEF G
  <2> QED
    BY <1>1, <1>2, InductionOnSeq
<1> QED
  BY <1>3

-----------------------------------------------------------------------------
(***************************************************************************)
(* The compatibility transformations, for the values of V: what becomes of *)
(* an event, whatever it holds.                                            *)
(***************************************************************************)
\* The tags of some values, the metadata they can get, and what they become.
Classes == {TensorClass[p] : p \in DOMAIN TensorClass}
TagsOf(V) == {v.tag : v \in V}
MetasOf(V) ==
  {v.meta : v \in V}
    \cup {[v.meta EXCEPT !.class = c] : v \in V, c \in Classes}
    \cup {LegacyMeta[w] : w \in DOMAIN LegacyMeta} \cup {NoMeta, GraphMeta}
MigratedOf(V) == [tag : TagsOf(V), meta : MetasOf(V), tensor : {TensorOf(v) : v \in V}]

(***************************************************************************)
(* An event without values leaves the store as it is; one value more is    *)
(* migrated with the store that the values before it leave.                *)
(***************************************************************************)
LEMMA EventValuesAppend ==
  ASSUME NEW m
  PROVE  /\ EventValues(<<>>, m) = [mds |-> m, values |-> <<>>]
         /\ \A S : \A values \in Seq(S), v \in S :
              EventValues(Append(values, v), m) = Migrate(EventValues(values, m), v)
<1>1. \A base, seq : FoldLeft(Migrate, base, seq) = Migrating!Fold(base, seq)
  BY DEF FoldLeft, MapThenFoldSet, Max, Migrating!Fold, Migrating!Folding,
         Migrating!Greatest
<1>2. \A vs : EventValues(vs, m) = Migrating!Fold([mds |-> m, values |-> <<>>], vs)
  BY <1>1, Zenon DEF EventValues
<1> QED
  BY <1>2, Migrating!FoldEmpty, Migrating!FoldAppend

(***************************************************************************)
(* What MigrateValue makes of the metadata of a value in a file, ...       *)
(***************************************************************************)
LEMMA MigratedMeta ==
  ASSUME NEW V, NEW m, NEW v \in V, NEW had \in BOOLEAN
  PROVE  MigrateValue(v, m) \in MetasOf(V) /\ MigrateGraphDef(had) \in MetasOf(V)
<1>1. MigrateGraphDef(had) \in MetasOf(V)
  BY DEF MigrateGraphDef, MetasOf
<1>2. /\ v.meta \in MetasOf(V)
      /\ v.what \in DOMAIN LegacyMeta => LegacyMeta[v.what] \in MetasOf(V)
  BY DEF MetasOf
<1>3. v.meta.plugin \in DOMAIN TensorClass =>
        [v.meta EXCEPT !.class = TensorClass[v.meta.plugin]] \in MetasOf(V)
  BY DEF MetasOf, Classes
<1> QED
  BY <1>1, <1>2, <1>3, Zenon DEF MigrateValue

(***************************************************************************)
(* ... and Migrate: the value gets some metadata, and unless its tag has   *)
(* some already the store keeps that for the tag.                          *)
(***************************************************************************)
LEMMA MigrateStep ==
  ASSUME NEW V, NEW st, NEW v \in V
  PROVE  \E meta \in MetasOf(V) :
           Migrate(st, v) = [mds    |-> PutNew(st.mds, v.tag, meta),
                             values |-> Append(st.values, Migrated(v, meta))]
<1> DEFINE had  == v.tag \in DOMAIN st.mds
           meta == IF v.what = "graph" THEN MigrateGraphDef(had)
                   ELSE MigrateValue(v, IF had THEN st.mds[v.tag] ELSE NoMeta)
<1>1. meta \in MetasOf(V)
  <2>1. had \in BOOLEAN
    OBVIOUS
  <2>2. MigrateGraphDef(had) \in MetasOf(V) /\ \A m : MigrateValue(v, m) \in MetasOf(V)
    BY <2>1, MigratedMeta, Zenon
  <2> QED
    BY <2>2, Zenon
<1>2. Migrate(st, v) = [mds    |-> PutNew(st.mds, v.tag, meta),
                        values |-> Append(st.values, Migrated(v, meta))]
  BY Zenon DEF Migrate
<1> HIDE DEF meta
<1> QED
  BY <1>1, <1>2, Zenon

\* One migrated value for every value, with its tag and what becomes of it.
Becomes(values, migrated) ==
  /\ Len(migrated) = Len(values)
  /\ \A i \in 1 .. Len(values) : /\ migrated[i].tag = values[i].tag
                                /\ migrated[i].tensor = TensorOf(values[i])

(***************************************************************************)
(* Every value of an event becomes one value, with its tag and a tensor.   *)
(***************************************************************************)
LEMMA EventValuesType ==
  ASSUME NEW V, NEW m, NEW values \in Seq(V)
  PROVE  /\ EventValues(values, m).values \in Seq(MigratedOf(V))
         /\ Becomes(values, EventValues(values, m).values)
<1> DEFINE Good(vs, o) == o \in Seq(MigratedOf(V)) /\ Becomes(vs, o)
           G == {vs \in Seq(V) : Good(vs, EventValues(vs, m).values)}
<1>1. <<>> \in G
  <2>1. EventValues(<<>>, m).values = <<>>
    BY EventValuesAppend
  <2>2. 1 .. Len(<<>>) = {}
    BY EmptySeq
  <2>3. Good(<<>>, <<>>)
    BY <2>2, EmptySeq DEF Becomes
  <2> QED
    BY <2>1, <2>3, EmptySeq
<1>2. ASSUME NEW vs \in Seq(V), NEW v \in V, vs \in G
      PROVE  Append(vs, v) \in G
  <2> DEFINE st == EventValues(vs, m)
             st1 == EventValues(Append(vs, v), m)
             o == st.values
  <2>1. st1 = Migrate(st, v)
    BY EventValuesAppend
  <2>2. Good(vs, o)
    BY <1>2
  <2> HIDE DEF st, st1
  <2>3. PICK meta \in MetasOf(V) : st1 = [mds    |-> PutNew(st.mds, v.tag, meta),
                                     values |-> Append(o, Migrated(v, meta))]
    BY <2>1, MigrateStep
  <2>4. /\ Migrated(v, meta) \in MigratedOf(V) /\ Migrated(v, meta).tag = v.tag
        /\ Migrated(v, meta).tensor = TensorOf(v)
    BY DEF Migrated, MigratedOf, TagsOf
  <2>5. st1.values = Append(o, Migrated(v, meta))
    BY <2>3
  <2> HIDE DEF o
  <2>6. Good(Append(vs, v), Append(o, Migrated(v, meta)))
    <3> DEFINE x == Migrated(v, meta)
    <3> HIDE DEF x
    <3>1. Good(Append(vs, v), Append(o, x))
      <4>1. /\ Append(o, x) \in Seq(MigratedOf(V)) /\ Len(Append(o, x)) = Len(o) + 1
            /\ \A i \in 1 .. Len(o) : Append(o, x)[i] = o[i]
            /\ Append(o, x)[Len(o) + 1] = x
        BY <2>2, <2>4, AppendProperties DEF x
      <4>2. /\ Len(Append(vs, v)) = Len(vs) + 1
            /\ \A i \in 1 .. Len(vs) : Append(vs, v)[i] = vs[i]
            /\ Append(vs, v)[Len(vs) + 1] = v
        BY AppendProperties
      <4>3. Len(vs) \in Nat
        BY LenProperties
      <4>4. x.tag = v.tag /\ x.tensor = TensorOf(v)
        BY <2>4 DEF x
      <4> QED
        BY <2>2, <4>1, <4>2, <4>3, <4>4 DEF Becomes
    <3> QED
      BY <3>1 DEF x
  <2>7. Append(vs, v) \in Seq(V)
    BY AppendProperties
  <2> QED
    BY <2>5, <2>6, <2>7 DEF st1
<1>3. Seq(V) \subseteq G
  <2> HIDE DEF G
  <2> QED
    BY <1>1, <1>2, InductionOnSeq
<1> QED
  BY <1>3

-----------------------------------------------------------------------------
\* m has the metadata of the first of these values with each tag, or what n has.
FirstIn(m, values, n) ==
  /\ DOMAIN m = DOMAIN n \cup {values[i].tag : i \in 1 .. Len(values)}
  /\ \A tag \in DOMAIN m :
       \/ tag \in DOMAIN n /\ m[tag] = n[tag]
       \/ /\ tag \notin DOMAIN n
          /\ \E i \in 1 .. Len(values) :
               /\ values[i].tag = tag /\ m[tag] = values[i].meta
               /\ \A j \in 1 .. i - 1 : values[j].tag # tag

(***************************************************************************)
(* One value more, with a tag that has been seen or has not.               *)
(***************************************************************************)
LEMMA FirstInAppend ==
  ASSUME NEW m, NEW n, NEW T, NEW values \in Seq(T), NEW d \in T,
         FirstIn(m, values, n)
  PROVE  FirstIn(PutNew(m, d.tag, d.meta), Append(values, d), n)
<1> DEFINE more == Append(values, d)
           k == Len(values)
           m1 == PutNew(m, d.tag, d.meta)
<1>1. /\ Len(more) = k + 1 /\ k \in Nat
      /\ \A i \in 1 .. k : more[i] = values[i]
      /\ more[k + 1] = d
  BY AppendProperties, LenProperties
<1>2. /\ DOMAIN m1 = DOMAIN m \cup {d.tag}
      /\ \A tag \in DOMAIN m : m1[tag] = m[tag]
      /\ d.tag \notin DOMAIN m => m1[d.tag] = d.meta
  BY DEF PutNew, Put
<1> HIDE DEF more, k, m1
<1>3. 1 .. k + 1 = (1 .. k) \cup {k + 1}
  BY <1>1
<1>4. {more[i].tag : i \in 1 .. k + 1} = {values[i].tag : i \in 1 .. k} \cup {d.tag}
  BY <1>1, <1>3
<1>5. DOMAIN m1 = DOMAIN n \cup {more[i].tag : i \in 1 .. k + 1}
  BY <1>2, <1>4 DEF FirstIn, k
<1>6. ASSUME NEW tag \in DOMAIN m, tag \notin DOMAIN n
      PROVE  \E i \in 1 .. k + 1 : /\ more[i].tag = tag /\ m1[tag] = more[i].meta
                                   /\ \A j \in 1 .. i - 1 : more[j].tag # tag
  <2>1. PICK i \in 1 .. k : /\ values[i].tag = tag /\ m[tag] = values[i].meta
                            /\ \A j \in 1 .. i - 1 : values[j].tag # tag
    BY <1>6 DEF FirstIn, k
  <2>2. i \in 1 .. k + 1 /\ 1 .. i - 1 \subseteq 1 .. k
    BY <1>1
  <2> QED
    BY <1>1, <1>2, <2>1, <2>2
<1>7. ASSUME d.tag \notin DOMAIN m
      PROVE  /\ d.tag \notin DOMAIN n /\ more[k + 1].tag = d.tag
             /\ m1[d.tag] = more[k + 1].meta
             /\ \A j \in 1 .. k : more[j].tag # d.tag
  <2>1. \A j \in 1 .. k : values[j].tag \in DOMAIN m
    BY DEF FirstIn, k
  <2>2. DOMAIN n \subseteq DOMAIN m
    BY DEF FirstIn
  <2> QED
    BY <1>1, <1>2, <1>7, <2>1, <2>2
<1>8. ASSUME NEW tag \in DOMAIN m1
      PROVE  \/ tag \in DOMAIN n /\ m1[tag] = n[tag]
             \/ /\ tag \notin DOMAIN n
                /\ \E i \in 1 .. k + 1 : /\ more[i].tag = tag /\ m1[tag] = more[i].meta
                                         /\ \A j \in 1 .. i - 1 : more[j].tag # tag
  <2>1. CASE tag \in DOMAIN n
    <3>1. tag \in DOMAIN m /\ m[tag] = n[tag]
      BY <2>1 DEF FirstIn
    <3> QED
      BY <1>2, <2>1, <3>1
  <2>2. CASE tag \in DOMAIN m /\ tag \notin DOMAIN n
    BY <1>6, <2>2
  <2>3. CASE tag \notin DOMAIN m
    <3>1. tag = d.tag /\ k + 1 \in 1 .. k + 1 /\ (k + 1) - 1 = k
      BY <1>1, <1>2, <2>3
    <3> QED
      BY <1>7, <2>3, <3>1
  <2> QED
    BY <2>1, <2>2, <2>3
<1>9. Len(more) = k + 1
  BY <1>1
<1> QED
  BY <1>5, <1>8, <1>9 DEF FirstIn, more, m1

(***************************************************************************)
(* An event gives the store the metadata of the first of its values with   *)
(* each tag that the store had none for, and nothing else.                 *)
(***************************************************************************)
LEMMA EventValuesKeepFirst ==
  ASSUME NEW V, NEW m, NEW values \in Seq(V)
  PROVE  FirstIn(EventValues(values, m).mds, EventValues(values, m).values, m)
<1> DEFINE G == {vs \in Seq(V) :
                   FirstIn(EventValues(vs, m).mds, EventValues(vs, m).values, m)}
<1>1. <<>> \in G
  <2>1. EventValues(<<>>, m).values = <<>> /\ EventValues(<<>>, m).mds = m
    BY EventValuesAppend
  <2>2. FirstIn(m, <<>>, m)
    <3>1. 1 .. Len(<<>>) = {}
      BY EmptySeq
    <3>2. {<<>>[i].tag : i \in 1 .. Len(<<>>)} = {}
      BY <3>1
    <3> QED
      BY <3>2, Zenon DEF FirstIn
  <2> QED
    BY <2>1, <2>2, EmptySeq
<1>2. ASSUME NEW vs \in Seq(V), NEW v \in V, vs \in G
      PROVE  Append(vs, v) \in G
  <2> DEFINE st == EventValues(vs, m)
             st1 == EventValues(Append(vs, v), m)
             o == st.values
  <2>1. st1 = Migrate(st, v) /\ o \in Seq(MigratedOf(V)) /\ FirstIn(st.mds, o, m)
    BY <1>2, EventValuesAppend, EventValuesType
  <2> HIDE DEF st, st1
  <2>2. PICK meta \in MetasOf(V) : st1 = [mds    |-> PutNew(st.mds, v.tag, meta),
                                         values |-> Append(o, Migrated(v, meta))]
    BY <2>1, MigrateStep
  <2> DEFINE d == Migrated(v, meta)
  <2>3. d \in MigratedOf(V) /\ d.tag = v.tag /\ d.meta = meta
    BY DEF Migrated, MigratedOf, TagsOf
  <2>4. st1.mds = PutNew(st.mds, v.tag, meta) /\ st1.values = Append(o, d)
    BY <2>2
  <2> HIDE DEF o, d
  <2>5. FirstIn(PutNew(st.mds, d.tag, d.meta), Append(o, d), m)
    BY <2>1, <2>3, FirstInAppend
  <2>6. FirstIn(st1.mds, st1.values, m)
    BY <2>3, <2>4, <2>5
  <2>7. Append(vs, v) \in Seq(V)
    BY AppendProperties
  <2> QED
    BY <2>6, <2>7 DEF st1
<1>3. Seq(V) \subseteq G
  <2> HIDE DEF G
  <2> QED
    BY <1>1, <1>2, InductionOnSeq
<1> QED
  BY <1>3
-----------------------------------------------------------------------------
(***************************************************************************)
(* Rows of three, one after the other.                                     *)
(***************************************************************************)
Threes(S) == {t \in Seq(S) : Len(t) = 3}

\* They have three elements for each row, each at its place.
LEMMA FlattenThrees ==
  ASSUME NEW S, NEW ss \in Seq(Threes(S))
  PROVE  /\ FlattenSeq(ss) \in Seq(S) /\ Len(FlattenSeq(ss)) = 3 * Len(ss)
         /\ \A i \in 1 .. Len(ss) : \A k \in 1 .. 3 :
              FlattenSeq(ss)[3 * (i - 1) + k] = ss[i][k]
<1> DEFINE Good(tt) == /\ FlattenSeq(tt) \in Seq(S) /\ Len(FlattenSeq(tt)) = 3 * Len(tt)
                       /\ \A i \in 1 .. Len(tt) : \A k \in 1 .. 3 :
                            FlattenSeq(tt)[3 * (i - 1) + k] = tt[i][k]
           G == {tt \in Seq(Threes(S)) : Good(tt)}
<1>0. Seq(Threes(S)) \subseteq Seq(Seq(S))
  <2>1. Threes(S) \subseteq Seq(S)
    BY DEF Threes
  <2> QED
    BY <2>1, SeqMonotonic
<1>1. <<>> \in G
  <2>1. FlattenSeq(<<>>) = <<>>
    BY DEF FlattenSeq
  <2>2. Len(<<>>) = 0 /\ 1 .. Len(<<>>) = {} /\ \A T : <<>> \in Seq(T)
    BY EmptySeq
  <2>3. FlattenSeq(<<>>) \in Seq(S) /\ Len(FlattenSeq(<<>>)) = 3 * Len(<<>>)
    <3>1. \A f : f = <<>> => f \in Seq(S) /\ Len(f) = 3 * Len(<<>>)
      BY <2>2
    <3> QED
      BY <2>1, <3>1, Zenon
  <2>4. \A i \in 1 .. Len(<<>>) : \A k \in 1 .. 3 :
          FlattenSeq(<<>>)[3 * (i - 1) + k] = <<>>[i][k]
    BY <2>2
  <2>5. Good(<<>>)
    BY <2>3, <2>4, Zenon
  <2> QED
    BY <2>2, <2>5
<1>2. ASSUME NEW tt \in Seq(Threes(S)), NEW t \in Threes(S), tt \in G
      PROVE  Append(tt, t) \in G
  <2> DEFINE uu == Append(tt, t)
             f == FlattenSeq(tt)
             n == Len(tt)
  <2>1. /\ uu \in Seq(Threes(S)) /\ Len(uu) = n + 1 /\ uu[n + 1] = t
        /\ \A i \in 1 .. n : uu[i] = tt[i]
        /\ n \in Nat
    BY AppendProperties, LenProperties
  <2>2. t \in Seq(S) /\ Len(t) = 3
    BY DEF Threes
  <2>3. FlattenSeq(uu) = f \o t
    BY <1>0, <2>2, FlattenAppend
  <2>4. /\ f \in Seq(S) /\ Len(f) = 3 * n
        /\ \A i \in 1 .. n : \A k \in 1 .. 3 : f[3 * (i - 1) + k] = tt[i][k]
    BY <1>2
  <2> HIDE DEF uu, f, n
  <2> DEFINE g == f \o t
  <2>5. /\ g \in Seq(S) /\ Len(g) = 3 * n + 3
        /\ \A j \in 1 .. 3 * n + 3 : g[j] = IF j <= 3 * n THEN f[j] ELSE t[j - 3 * n]
    <3>1. /\ g \in Seq(S) /\ Len(g) = Len(f) + Len(t)
          /\ \A j \in 1 .. Len(f) + Len(t) : g[j] = IF j <= Len(f) THEN f[j] ELSE t[j - Len(f)]
      BY <2>2, <2>4, ConcatProperties
    <3> HIDE DEF g
    <3> QED
      BY <2>2, <2>4, <3>1
  <2> HIDE DEF g
  <2>6. ASSUME NEW i \in 1 .. n + 1, NEW k \in 1 .. 3
        PROVE  g[3 * (i - 1) + k] = uu[i][k]
    <3>1. CASE i \in 1 .. n
      <4>1. 3 * (i - 1) + k \in 1 .. 3 * n + 3 /\ 3 * (i - 1) + k <= 3 * n
        BY <2>1, <3>1
      <4> QED
        BY <2>1, <2>4, <2>5, <3>1, <4>1
    <3>2. CASE i = n + 1
      <4>1. /\ 3 * (i - 1) + k \in 1 .. 3 * n + 3 /\ ~(3 * (i - 1) + k <= 3 * n)
            /\ 3 * (i - 1) + k - 3 * n = k
        BY <2>1, <3>2
      <4> QED
        BY <2>1, <2>5, <3>2, <4>1
    <3> QED
      BY <2>1, <3>1, <3>2
  <2>7. FlattenSeq(uu) = g /\ 3 * Len(uu) = 3 * n + 3 /\ 1 .. Len(uu) = 1 .. n + 1
    BY <2>1, <2>3 DEF g
  <2>8. Good(uu)
    BY <2>5, <2>6, <2>7, Zenon
  <2> QED
    BY <2>1, <2>8 DEF uu
<1>3. Seq(Threes(S)) \subseteq G
  <2> HIDE DEF G
  <2> QED
    BY <1>1, <1>2, InductionOnSeq
<1> QED
  BY <1>3

\* A histogram in a file has a list of counts and one of limits.
Histogram(h, S) ==
  /\ h.counts \in Seq(S) /\ h.limits \in Seq(S) /\ h.min \in S /\ h.max \in S

(***************************************************************************)
(* There are as many buckets as the shorter of its lists has.              *)
(***************************************************************************)
LEMMA BucketsOf ==
  ASSUME NEW S, NEW h, Histogram(h, S)
  PROVE  Buckets(h) \in Nat /\ Buckets(h) <= Len(h.counts) /\ Buckets(h) <= Len(h.limits)
<1> DEFINE N == {Len(h.counts), Len(h.limits)}
<1>1. N \in SUBSET Nat /\ N # {}
  BY LenProperties DEF Histogram
<1>2. Min(N) \in N /\ \A n \in N : Min(N) <= n
  <2> HIDE DEF N
  <2> QED
    BY <1>1, LeastNatural
<1> QED
  BY <1>1, <1>2 DEF Buckets

(***************************************************************************)
(* Its edges: the least value is the first left one, the greatest one the  *)
(* last right one, and the buckets adjoin.                                 *)
(***************************************************************************)
LEMMA Edges ==
  ASSUME NEW S, NEW h, Histogram(h, S), Buckets(h) > 0
  PROVE  /\ \A i \in 1 .. Buckets(h) : Lefts(h)[i] \in S /\ Rights(h)[i] \in S
         /\ Lefts(h)[1] = h.min /\ Rights(h)[Buckets(h)] = h.max
         /\ \A i \in 1 .. Buckets(h) - 1 : Rights(h)[i] = Lefts(h)[i + 1]
<1> DEFINE n == Buckets(h)
           inner == SubSeq(h.limits, 1, n - 1)
<1>1. n \in Nat /\ n <= Len(h.limits) /\ n - 1 \in Nat /\ Len(h.limits) \in Nat
  BY BucketsOf, LenProperties DEF Histogram
<1> HIDE DEF n
<1>2. inner \in Seq(S) /\ Len(inner) = n - 1
  <2>1. \A i \in 1 .. n - 1 : h.limits[i] \in S
    <3>1. \A i \in 1 .. n - 1 : i \in 1 .. Len(h.limits)
      BY <1>1
    <3> QED
      BY <3>1, ElementOfSeq DEF Histogram
  <2> QED
    BY <1>1, <2>1, SubSeqProperties
<1>3. <<h.min>> \in Seq(S) /\ <<h.max>> \in Seq(S)
  BY DEF Histogram
<1>4. Lefts(h) = <<h.min>> \o inner /\ Rights(h) = inner \o <<h.max>>
  BY DEF Lefts, Rights, n
<1> HIDE DEF inner
<1>5. /\ Lefts(h) \in Seq(S) /\ Len(Lefts(h)) = n
      /\ Lefts(h)[1] = h.min
      /\ \A i \in 1 .. n - 1 : Lefts(h)[i + 1] = inner[i]
  <2> DEFINE one == <<h.min>>
  <2>1. Len(one) = 1 /\ one[1] = h.min
    OBVIOUS
  <2> HIDE DEF one
  <2>2. /\ one \o inner \in Seq(S) /\ Len(one \o inner) = 1 + (n - 1)
        /\ \A i \in 1 .. 1 + (n - 1) : (one \o inner)[i] = IF i <= 1 THEN one[i] ELSE inner[i - 1]
    BY <1>2, <1>3, <2>1, ConcatProperties DEF one
  <2> QED
    BY <1>1, <1>4, <2>1, <2>2 DEF one
<1>6. /\ Rights(h) \in Seq(S) /\ Len(Rights(h)) = n
      /\ Rights(h)[n] = h.max
      /\ \A i \in 1 .. n - 1 : Rights(h)[i] = inner[i]
  <2> DEFINE one == <<h.max>>
  <2>1. Len(one) = 1 /\ one[1] = h.max
    OBVIOUS
  <2> HIDE DEF one
  <2>2. /\ inner \o one \in Seq(S) /\ Len(inner \o one) = (n - 1) + 1
        /\ \A i \in 1 .. (n - 1) + 1 :
             (inner \o one)[i] = IF i <= n - 1 THEN inner[i] ELSE one[i - (n - 1)]
    BY <1>2, <1>3, <2>1, ConcatProperties DEF one
  <2>3. (n - 1) + 1 = n /\ n \in 1 .. n /\ ~(n <= n - 1) /\ n - (n - 1) = 1
    BY <1>1
  <2>4. Rights(h) = inner \o one
    BY <1>4 DEF one
  <2>5. \A i \in 1 .. n - 1 : i \in 1 .. n /\ i <= n - 1
    BY <1>1
  <2> QED
    BY <2>1, <2>2, <2>3, <2>4, <2>5
<1>7. \A i \in 1 .. n : Lefts(h)[i] \in S /\ Rights(h)[i] \in S
  BY <1>5, <1>6, ElementOfSeq
<1> QED
  BY <1>5, <1>6, <1>7 DEF n

(***************************************************************************)
(* The tensor of a histogram has a row for each bucket.                    *)
(***************************************************************************)
LEMMA RowsOfHistogram ==
  ASSUME NEW S, NEW h, Histogram(h, S), NEW t, t = HistogramTensor(h)
  PROVE  /\ t.dims = <<Buckets(h), 3>> /\ t.vals \in Seq(S) /\ Len(t.vals) = 3 * Buckets(h)
         /\ \A i \in 1 .. Buckets(h) :
              /\ t.vals[3 * (i - 1) + 1] = Lefts(h)[i]
              /\ t.vals[3 * (i - 1) + 2] = Rights(h)[i]
              /\ t.vals[3 * (i - 1) + 3] = h.counts[i]
<1> DEFINE n == Buckets(h)
           rows == [i \in 1 .. n |-> <<Lefts(h)[i], Rights(h)[i], h.counts[i]>>]
<1>1. t.dims = <<n, 3>> /\ t.vals = FlattenSeq(rows)
  BY DEF HistogramTensor
<1>2. n \in Nat /\ n <= Len(h.counts) /\ Len(h.counts) \in Nat
  BY BucketsOf, LenProperties DEF Histogram
<1>3. \A i \in 1 .. n : Lefts(h)[i] \in S /\ Rights(h)[i] \in S /\ h.counts[i] \in S
  <2>1. \A i \in 1 .. n : n > 0 /\ i \in 1 .. Len(h.counts)
    BY <1>2
  <2>2. \A i \in 1 .. n : h.counts[i] \in S
    BY <2>1, ElementOfSeq DEF Histogram
  <2> QED
    BY <2>1, <2>2, Edges
<1>4. \A a \in S, b \in S, c \in S : <<a, b, c>> \in Threes(S)
  BY DEF Threes
<1> HIDE DEF n
<1>5. rows \in [1 .. n -> Threes(S)]
  BY <1>3, <1>4
<1>6. \A i \in 1 .. n : /\ rows[i][1] = Lefts(h)[i] /\ rows[i][2] = Rights(h)[i]
                        /\ rows[i][3] = h.counts[i]
  OBVIOUS
<1> HIDE DEF rows
<1>7. rows \in Seq(Threes(S)) /\ Len(rows) = n
  BY <1>2, <1>5, SeqOfFunction
<1>8. /\ FlattenSeq(rows) \in Seq(S) /\ Len(FlattenSeq(rows)) = 3 * n
      /\ \A i \in 1 .. n : \A k \in 1 .. 3 :
           FlattenSeq(rows)[3 * (i - 1) + k] = rows[i][k]
  BY <1>7, FlattenThrees
<1>9. 1 \in 1 .. 3 /\ 2 \in 1 .. 3 /\ 3 \in 1 .. 3
  OBVIOUS
<1> QED
  BY <1>1, <1>6, <1>8, <1>9 DEF n

(***************************************************************************)
(* The powers of two: the subsets of n + 1 things are those without the    *)
(* last one and those with it.                                             *)
(***************************************************************************)
LEMMA PowersOfTwo ==
  ASSUME NEW n \in Nat
  PROVE  2 ^ n \in Nat /\ 2 ^ n > 0 /\ 2 ^ (n + 1) = 2 * 2 ^ n
<1> DEFINE S == 1 .. n
           T == 1 .. n + 1
           U == {X \cup {n + 1} : X \in SUBSET S}
           f == [X \in SUBSET S |-> X \cup {n + 1}]
<1>1. IsFiniteSet(S) /\ Cardinality(S) = n /\ IsFiniteSet(T) /\ Cardinality(T) = n + 1
  BY FS_Interval
<1>2. Cardinality(SUBSET S) = 2 ^ n /\ IsFiniteSet(SUBSET S)
  BY <1>1, FS_SUBSET, Zenon
<1>3. Cardinality(SUBSET T) = 2 ^ (n + 1) /\ IsFiniteSet(SUBSET T)
  BY <1>1, FS_SUBSET, Zenon
<1>4. 2 ^ n \in Nat /\ 2 ^ n > 0
  <2>1. SUBSET S # {}
    OBVIOUS
  <2>2. Cardinality(SUBSET S) \in Nat /\ Cardinality(SUBSET S) # 0
    BY <1>2, <2>1, FS_CardinalityType, FS_EmptySet
  <2> QED
    BY <1>2, <2>2
<1>5. T = S \cup {n + 1} /\ n + 1 \notin S
  OBVIOUS
<1> HIDE DEF S, T
<1>6. SUBSET T = (SUBSET S) \cup U
  <2>1. ASSUME NEW X \in SUBSET T, n + 1 \in X
        PROVE  X \in U
    <3>1. X \ {n + 1} \in SUBSET S /\ X = (X \ {n + 1}) \cup {n + 1}
      BY <1>5, <2>1
    <3> QED
      BY <3>1
  <2>2. \A X \in SUBSET T : n + 1 \notin X => X \in SUBSET S
    BY <1>5
  <2>3. SUBSET S \subseteq SUBSET T /\ U \subseteq SUBSET T
    BY <1>5
  <2> HIDE DEF U
  <2> QED
    BY <2>1, <2>2, <2>3
<1>7. (SUBSET S) \cap U = {}
  BY <1>5
<1>8. f \in Bijection(SUBSET S, U)
  <2>1. f \in [SUBSET S -> U]
    OBVIOUS
  <2>2. ASSUME NEW X \in SUBSET S, NEW Y \in SUBSET S, f[X] = f[Y]
        PROVE  X = Y
    <3>1. X \cup {n + 1} = Y \cup {n + 1}
      BY <2>2
    <3> QED
      BY <1>5, <2>2, <3>1
  <2>3. \A Z \in U : \E X \in SUBSET S : f[X] = Z
    OBVIOUS
  <2> HIDE DEF f, U
  <2> QED
    BY <2>1, <2>2, <2>3 DEF Bijection, Injection, Surjection, IsInjective
<1> HIDE DEF U, f
<1>9. IsFiniteSet(U) /\ Cardinality(U) = 2 ^ n
  BY <1>2, <1>8, FS_Bijection DEF ExistsBijection
<1>10. Cardinality(SUBSET T) = Cardinality(SUBSET S) + Cardinality(U) - Cardinality((SUBSET S) \cap U)
  BY <1>2, <1>6, <1>9, FS_Union
<1>11. Cardinality((SUBSET S) \cap U) = 0
  BY <1>7, FS_EmptySet
<1> DEFINE p == 2 ^ n
           q == 2 ^ (n + 1)
<1>12. p \in Nat /\ p > 0 /\ q = p + p - 0
  BY <1>2, <1>3, <1>4, <1>9, <1>10, <1>11
<1> HIDE DEF p, q
<1>13. q = 2 * p
  BY <1>12
<1> QED
  BY <1>12, <1>13 DEF p, q
===============================================================================
