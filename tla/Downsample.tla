------------------------------ MODULE Downsample ------------------------------
(***************************************************************************)
(* What downsample (server/downsample.go) may pick from a sequence: its    *)
(* last element and any k - 1 of the others, in order.  Which others, a    *)
(* shuffle decides; its seed is fixed, but nothing may depend on that.     *)
(***************************************************************************)
EXTENDS Integers, Sequences, FiniteSetsExt

\* k places of n, in their order.
Picks(n, k) == {p \in [1 .. k -> 1 .. n] : \A j \in 2 .. k : p[j - 1] < p[j]}

\* Mutant of Chosen: the last element is one like the others.
ChosenFromAll(n, k) == Picks(n, k)

\* The places picked, for k <= n.
Chosen(n, k) == {p \in Picks(n, k) : k # 0 => p[k] = n}

\* downsampleValueData: never more than there are.
Downsampled(sample, k) ==
  LET n == Len(sample)
  IN  {[j \in DOMAIN p |-> sample[p[j]]] : p \in Chosen(n, Min({k, n}))}
=============================================================================
