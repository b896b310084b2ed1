------------------------------- MODULE LeftFold -------------------------------
(***************************************************************************)
(* FoldLeft of the community modules for one operator Op: it goes over a   *)
(* sequence from the left.  A module instantiates this one with the        *)
(* operator it folds, shows that its FoldLeft is Fold, and cites FoldAppend *)
(* for an induction over the sequence.                                     *)
(***************************************************************************)
EXTENDS Integers, Sequences, SequenceTheorems, NaturalsInduction,
        WellFoundedInduction, TLAPS

CONSTANT Op(_, _)

\* FoldLeft, spelled out: the recursion takes away the last place of a set.
Greatest(places) == CHOOSE x \in places : \A y \in places : x >= y
Folding(base, seq, places, f) ==
  [p \in SUBSET places |->
     IF p = {} THEN base ELSE Op(f[p \ {Greatest(p)}], seq[Greatest(p)])]
Fold(base, seq) ==
  (CHOOSE f : f = Folding(base, seq, DOMAIN seq, f))[DOMAIN seq]

\* f solves the recursion for the first n places.
Folds(base, seq, n, f) == f = Folding(base, seq, 1 .. n, f)

\* What that says of f at each set of them.
Unfolds(base, seq, n, f) ==
  \A p \in SUBSET (1 .. n) :
    f[p] = IF p = {} THEN base
           ELSE Op(f[p \ {Greatest(p)}], seq[Greatest(p)])

(***************************************************************************)
(* Induction over the naturals: a least counterexample has a predecessor.  *)
(***************************************************************************)
LEMMA InductionOnNat ==
  ASSUME NEW G, 0 \in G, \A n \in Nat : n \in G => n + 1 \in G
  PROVE  Nat \subseteq G
<1> DEFINE Bad == Nat \ G
<1> SUFFICES ASSUME Bad # {}
             PROVE  FALSE
  OBVIOUS
<1>1. PICK n \in Bad : \A m \in Bad : <<m, n>> \notin OpToRel(<, Nat)
  <2>1. Bad \subseteq Nat
    OBVIOUS
  <2> HIDE DEF Bad
  <2> QED
    BY <2>1, NatLessThanWellFounded, WFMin, Zenon
<1>2. n # 0 /\ n - 1 \in Nat
  OBVIOUS
<1>3. n - 1 \in Bad
  BY <1>2
<1>4. n - 1 < n
  OBVIOUS
<1>5. <<n - 1, n>> \in OpToRel(<, Nat)
  BY <1>2, <1>4, Zenon DEF OpToRel
<1> QED
  BY <1>1, <1>3, <1>5

(***************************************************************************)
(* The greatest of the first places is the last of them.                   *)
(***************************************************************************)
LEMMA GreatestOfInterval ==
  ASSUME NEW n \in Nat
  PROVE  /\ Greatest(1 .. n + 1) = n + 1
         /\ (1 .. n + 1) \ {n + 1} = 1 .. n
         /\ 1 .. n + 1 # {}
BY DEF Greatest

(***************************************************************************)
(* A set of places without its greatest is one of fewer places.            *)
(***************************************************************************)
LEMMA GreatestShrinks ==
  ASSUME NEW n \in Nat, NEW p \in SUBSET (1 .. n + 1), p # {}
  PROVE  p \ {Greatest(p)} \in SUBSET (1 .. n)
<1>1. CASE n + 1 \in p
  <2>1. \A y \in p : n + 1 >= y
    OBVIOUS
  <2>2. \A x \in p : (\A y \in p : x >= y) => x = n + 1
    BY <1>1
  <2>3. Greatest(p) = n + 1
    BY <1>1, <2>1, <2>2 DEF Greatest
  <2> QED
    BY <2>3
<1>2. CASE n + 1 \notin p
  <2>1. p \in SUBSET (1 .. n)
    BY <1>2
  <2> QED
    BY <2>1
<1> QED
  BY <1>1, <1>2

(***************************************************************************)
(* The recursion at a set of places, ...                                   *)
(***************************************************************************)
LEMMA FoldingAt ==
  ASSUME NEW base, NEW seq, NEW f, NEW n \in Nat, Folds(base, seq, n, f)
  PROVE  Unfolds(base, seq, n, f)
<1> DEFINE h == Folding(base, seq, 1 .. n, f)
<1>1. \A p \in SUBSET (1 .. n) :
        h[p] = IF p = {} THEN base
               ELSE Op(f[p \ {Greatest(p)}], seq[Greatest(p)])
  BY Zenon DEF Folding
<1>2. f = h
  BY DEF Folds
<1> HIDE DEF h
<1> QED
  BY <1>1, <1>2, Zenon DEF Unfolds

(***************************************************************************)
(* ... and at the first places, which are all it comes to.                 *)
(***************************************************************************)
LEMMA FoldingStep ==
  ASSUME NEW base, NEW seq, NEW f, NEW n \in Nat, Folds(base, seq, n, f)
  PROVE  /\ f[1 .. 0] = base
         /\ \A k \in Nat :
              k + 1 <= n => f[1 .. k + 1] = Op(f[1 .. k], seq[k + 1])
<1>1. \A p \in SUBSET (1 .. n) :
        f[p] = IF p = {} THEN base
               ELSE Op(f[p \ {Greatest(p)}], seq[Greatest(p)])
  <2>1. Unfolds(base, seq, n, f)
    BY FoldingAt
  <2> QED
    BY <2>1 DEF Unfolds
<1>2. 1 .. 0 = {} /\ 1 .. 0 \in SUBSET (1 .. n)
  OBVIOUS
<1>3. f[1 .. 0] = base
  BY <1>1, <1>2, Zenon
<1>4. ASSUME NEW k \in Nat, k + 1 <= n
      PROVE  f[1 .. k + 1] = Op(f[1 .. k], seq[k + 1])
  <2>1. 1 .. k + 1 \in SUBSET (1 .. n)
    BY <1>4
  <2>2. f[1 .. k + 1] = Op(f[(1 .. k + 1) \ {Greatest(1 .. k + 1)}],
                           seq[Greatest(1 .. k + 1)])
    BY <1>1, <2>1, GreatestOfInterval, Zenon
  <2> QED
    BY <2>2, GreatestOfInterval, Zenon
<1> QED
  BY <1>3, <1>4, Zenon

(***************************************************************************)
(* There is a function that solves it for the first n places, ...          *)
(***************************************************************************)
LEMMA FoldingExists ==
  ASSUME NEW base, NEW seq, NEW n \in Nat
  PROVE  \E f : Folds(base, seq, n, f)
<1> DEFINE G == {k \in Nat : \E f : Folds(base, seq, k, f)}
<1>1. 0 \in G
  <2> DEFINE f == [p \in SUBSET (1 .. 0) |-> base]
  <2>1. \A p \in SUBSET (1 .. 0) : p = {}
    OBVIOUS
  <2>2. Folds(base, seq, 0, f)
    BY <2>1, Zenon DEF Folds, Folding
  <2> QED
    BY <2>2, Zenon
<1>2. ASSUME NEW k \in Nat, k \in G
      PROVE  k + 1 \in G
  <2>1. PICK f : Folds(base, seq, k, f)
    BY <1>2
  <2> DEFINE g == Folding(base, seq, 1 .. k + 1, f)
  <2>a. \A p \in SUBSET (1 .. k + 1) :
          g[p] = IF p = {} THEN base
                 ELSE Op(f[p \ {Greatest(p)}], seq[Greatest(p)])
    BY Zenon DEF Folding
  <2>b. \A p \in SUBSET (1 .. k) :
          f[p] = IF p = {} THEN base
                 ELSE Op(f[p \ {Greatest(p)}], seq[Greatest(p)])
    BY <2>1, FoldingAt, SMTT(30) DEF Unfolds
  <2>c. SUBSET (1 .. k) \subseteq SUBSET (1 .. k + 1)
    OBVIOUS
  <2>d. g = [p \in SUBSET (1 .. k + 1) |->
               IF p = {} THEN base
               ELSE Op(f[p \ {Greatest(p)}], seq[Greatest(p)])]
    BY DEF Folding
  <2> HIDE DEF g
  <2>2. \A p \in SUBSET (1 .. k) : g[p] = f[p]
    BY <2>a, <2>b, <2>c, Zenon
  <2>3. \A p \in SUBSET (1 .. k + 1) :
          p # {} => g[p \ {Greatest(p)}] = f[p \ {Greatest(p)}]
    BY <2>2, GreatestShrinks, Zenon
  <2>4. Folds(base, seq, k + 1, g)
    BY <2>3, <2>d, Zenon DEF Folds, Folding
  <2> QED
    BY <2>4
<1> HIDE DEF G
<1>3. Nat \subseteq G
  BY <1>1, <1>2, InductionOnNat
<1> QED
  BY <1>3 DEF G

(***************************************************************************)
(* ... which depends on the sequence at these places only.                 *)
(***************************************************************************)
LEMMA FoldingUnique ==
  ASSUME NEW base, NEW ss, NEW tt, NEW f, NEW g, NEW n \in Nat,
         Folds(base, ss, n, f), Folds(base, tt, n + 1, g),
         \A i \in 1 .. n : ss[i] = tt[i]
  PROVE  f[1 .. n] = g[1 .. n]
<1> DEFINE G == {k \in Nat : k <= n => f[1 .. k] = g[1 .. k]}
<1>1. 0 \in G
  BY n + 1 \in Nat, FoldingStep
<1>2. ASSUME NEW k \in Nat, k \in G
      PROVE  k + 1 \in G
  <2> SUFFICES ASSUME k + 1 <= n
               PROVE  f[1 .. k + 1] = g[1 .. k + 1]
    OBVIOUS
  <2>1. k + 1 <= n + 1 /\ n + 1 \in Nat /\ k + 1 \in 1 .. n /\ k <= n
    OBVIOUS
  <2>2. f[1 .. k + 1] = Op(f[1 .. k], ss[k + 1])
    BY FoldingStep
  <2>3. g[1 .. k + 1] = Op(g[1 .. k], tt[k + 1])
    BY <2>1, FoldingStep
  <2>4. f[1 .. k] = g[1 .. k] /\ ss[k + 1] = tt[k + 1]
    BY <1>2, <2>1
  <2> QED
    BY <2>2, <2>3, <2>4, Zenon
<1> HIDE DEF G
<1>3. Nat \subseteq G
  BY <1>1, <1>2, InductionOnNat
<1> QED
  BY <1>3 DEF G

(***************************************************************************)
(* A fold starts at its base and takes one element after the other.        *)
(***************************************************************************)
LEMMA FoldEmpty ==
  ASSUME NEW base
  PROVE  Fold(base, <<>>) = base
<1> DEFINE z == CHOOSE h : Folds(base, <<>>, 0, h)
<1>1. DOMAIN <<>> = 1 .. 0 /\ 0 \in Nat
  OBVIOUS
<1>2. Fold(base, <<>>) = z[1 .. 0]
  BY <1>1, Zenon DEF Fold, Folds
<1>3. Folds(base, <<>>, 0, z)
  BY <1>1, FoldingExists, Zenon
<1> HIDE DEF z
<1> QED
  BY <1>2, <1>3, FoldingStep

LEMMA FoldAppend ==
  ASSUME NEW base, NEW S, NEW seq \in Seq(S), NEW e \in S
  PROVE  Fold(base, Append(seq, e)) = Op(Fold(base, seq), e)
<1> DEFINE tt == Append(seq, e)
           n == Len(seq)
           Solution(s, k) == CHOOSE h : Folds(base, s, k, h)
<1>1. /\ n \in Nat /\ DOMAIN seq = 1 .. n /\ DOMAIN tt = 1 .. n + 1
      /\ tt[n + 1] = e /\ \A i \in 1 .. n : seq[i] = tt[i]
  BY AppendProperties, LenProperties
<1>2. \A s : \A k \in Nat : /\ Folds(base, s, k, Solution(s, k))
                            /\ DOMAIN s = 1 .. k => Fold(base, s) = Solution(s, k)[1 .. k]
  <2> SUFFICES ASSUME NEW s, NEW k \in Nat
               PROVE  /\ Folds(base, s, k, Solution(s, k))
                      /\ DOMAIN s = 1 .. k => Fold(base, s) = Solution(s, k)[1 .. k]
    OBVIOUS
  <2>1. Folds(base, s, k, Solution(s, k))
    BY FoldingExists, Zenon
  <2>2. DOMAIN s = 1 .. k => Fold(base, s) = Solution(s, k)[1 .. k]
    BY Zenon DEF Fold, Folds
  <2> QED
    BY <2>1, <2>2
<1> DEFINE f == Solution(seq, n)
           g == Solution(tt, n + 1)
<1>3. n + 1 \in Nat /\ n + 1 <= n + 1
  BY <1>1
<1>4. Folds(base, seq, n, f) /\ Folds(base, tt, n + 1, g)
  BY <1>1, <1>2, <1>3
<1>5. Fold(base, seq) = f[1 .. n] /\ Fold(base, tt) = g[1 .. n + 1]
  BY <1>1, <1>2, <1>3
<1> HIDE DEF f, g, n, tt
<1>6. f[1 .. n] = g[1 .. n]
  <2>1. n \in Nat /\ \A i \in 1 .. n : seq[i] = tt[i]
    BY <1>1
  <2>2. \A k \in Nat : /\ Folds(base, seq, k, f) /\ Folds(base, tt, k + 1, g)
                       /\ \A i \in 1 .. k : seq[i] = tt[i]
                       => f[1 .. k] = g[1 .. k]
    BY FoldingUnique
  <2> QED
    BY <1>4, <2>1, <2>2, Zenon
<1>7. g[1 .. n + 1] = Op(g[1 .. n], e)
  <2>1. n \in Nat /\ tt[n + 1] = e
    BY <1>1
  <2>2. \A m \in Nat : Folds(base, tt, m, g) =>
          \A k \in Nat : k + 1 <= m => g[1 .. k + 1] = Op(g[1 .. k], tt[k + 1])
    BY FoldingStep
  <2> QED
    BY <1>3, <1>4, <2>1, <2>2, Zenon
<1> QED
  BY <1>5, <1>6, <1>7, Zenon DEF tt
===============================================================================
