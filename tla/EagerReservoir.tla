---------------------------- MODULE EagerReservoir ----------------------------
(***************************************************************************)
(* The reservoir of one time series, mem/eager_reservoir.go.               *)
(*                                                                         *)
(* Every exported method holds rsv.mutex from its first line to its last,  *)
(* so each is one step.  Sample and Last only read.  The random source is  *)
(* a choice of any value in its range.  buf stands for buf[0:stored] of    *)
(* the code, the part of the slice that holds records.                     *)
(***************************************************************************)
EXTENDS Integers, Sequences, FiniteSets

CONSTANTS Steps,          \* the steps a record may have
          Capacity,       \* len(rsv.buf), fixed when the reservoir is made
          RoundingError,  \* what float64 rounding may add to the new "seen"
          MaxOffers       \* bound: how many records are offered

(***************************************************************************)
(* Capacities are 10, 100 or 1000 (run/accumulator.go).  The quotient and  *)
(* the product of lockedPreempt are rounded, and then the ceiling can be   *)
(* one more than the exact one; it never is while stored <= 10.            *)
(***************************************************************************)
ASSUME ReservoirAssumption ==
  /\ Steps \subseteq Int
  /\ Capacity \in Nat \ {0}
  /\ RoundingError \subseteq {0, 1}
  /\ MaxOffers \in Nat

VARIABLES buf,       \* the stored records
          seen,      \* the code's count of non-preempted records
          panicked,  \* an index out of range has ended the process
          live,      \* history: the records offered and not preempted since
          offered    \* history: how many records have been offered

vars == <<buf, seen, panicked, live, offered>>

Datum == [step : Steps, id : Nat]

RangeOf(b) == {b[i] : i \in DOMAIN b}

Init ==
  /\ buf = <<>>
  /\ seen = 0
  /\ panicked = FALSE
  /\ live = {}
  /\ offered = 0

-----------------------------------------------------------------------------
\* Mutants of Kept: ">" for ">=", one step too many, and no preemption at all.
KeptIfEqual(b, firstBad) ==
  CHOOSE n \in 0 .. Len(b) :
    /\ n = 0 \/ b[n].step <= firstBad
    /\ \A i \in n + 1 .. Len(b) : b[i].step > firstBad

KeptFewer(b, firstBad) ==
  CHOOSE n \in 0 .. Len(b) :
    /\ n = 0 \/ b[n].step < firstBad - 1
    /\ \A i \in n + 1 .. Len(b) : b[i].step >= firstBad - 1

KeptAlways(b, firstBad) == Len(b)

\* How many records stay when those at the end with a step >= firstBad go.
Kept(b, firstBad) ==
  CHOOSE n \in 0 .. Len(b) :
    /\ n = 0 \/ b[n].step < firstBad
    /\ \A i \in n + 1 .. Len(b) : b[i].step >= firstBad

CeilDiv(a, b) == (a + b - 1) \div b

(***************************************************************************)
(* The values lockedPreempt may give to seen when kept of the records      *)
(* stay: the fraction PREEMPTED of what it was, rounded up.                *)
(***************************************************************************)
SeenAfterPreempt(kept) ==
  IF kept = Len(buf) THEN {seen}
  ELSE {n \in 0 .. seen :
          n - CeilDiv((Len(buf) - kept) * seen, Len(buf)) \in RoundingError}

\* Mutants of Evict: the buffer grows; the new record takes the evicted one's place.
EvictNothing(b, dst, v) == Append(b, v)
EvictInPlace(b, dst, v) == [b EXCEPT ![dst + 1] = v]

\* copy(buf[dst:stored-1], buf[dst+1:stored]); buf[stored-1] = v
Evict(b, dst, v) ==
  [i \in 1 .. Len(b) |-> IF i = Len(b) THEN v
                         ELSE IF i > dst THEN b[i + 1] ELSE b[i]]

\* The record v, number n of the count, is stored: b is what buf becomes.
Store(b, v, n) ==
  /\ buf' = b
  /\ seen' = n
  /\ live' = {d \in live : d.step < v.step} \cup {v}
  /\ offered' = offered + 1
  /\ UNCHANGED panicked

(***************************************************************************)
(* rsv.buf[rsv.stored-1] = v with stored = 0.  No caller recovers, so the  *)
(* process ends; what Offer had changed before is seen by nobody.          *)
(***************************************************************************)
Panic == panicked' = TRUE /\ UNCHANGED <<buf, seen, live, offered>>

Offer(v) ==
  /\ ~panicked
  /\ offered < MaxOffers
  /\ LET kept == Kept(buf, v.step)
         b    == SubSeq(buf, 1, kept)
     IN  \E n \in SeenAfterPreempt(kept) : \E dst \in 0 .. n :
           \/ dst >= Capacity /\ kept = 0 /\ Panic
           \/ /\ dst >= Capacity /\ kept > 0
              /\ Store([b EXCEPT ![kept] = v], v, n + 1)
           \/ /\ dst < Capacity /\ kept < Capacity
              /\ Store(Append(b, v), v, n + 1)
           \/ /\ dst < Capacity /\ kept >= Capacity
              /\ Store(Evict(b, dst, v), v, n + 1)

Next == \E s \in Steps : Offer([step |-> s, id |-> offered])

Spec == Init /\ [][Next]_vars

\* What the two read-only methods return; Last is nil until something is stored.
Sample == buf
Last == buf[Len(buf)]

-----------------------------------------------------------------------------
\* The types of the variables; the buffer never outgrows its slice.
TypeOK ==
  /\ buf \in Seq(Datum)
  /\ Len(buf) <= Capacity
  /\ seen \in Nat
  /\ panicked \in BOOLEAN
  /\ live \in SUBSET Datum
  /\ offered \in 0 .. MaxOffers

(***************************************************************************)
(* "Representation invariant: buf is stored in step-sorted order." Strictly *)
(* so: lockedPreempt finds what to drop by looking at the end of buf only, *)
(* and ReadBlob takes the first record of a step for the only one.         *)
(***************************************************************************)
StepSorted == \A i, j \in 1 .. Len(buf) : i < j => buf[i].step < buf[j].step

(***************************************************************************)
(* ListScalars, ListTensors and ListBlobSequences answer max_step with the *)
(* step of the last record of a sample.  It is there once a record has     *)
(* been offered, and no live record, sampled or not, has a greater step.   *)
(***************************************************************************)
LastIsMaxStep ==
  offered > 0 => /\ Sample # <<>>
                 /\ \A d \in live : d.step <= Last.step

Contract == INSTANCE ReservoirContract WITH sample <- RangeOf(buf)

(***************************************************************************)
(* The contract that the interface states for Offer, Sample and Last: what *)
(* a reader sees is live, holds the latest record, loses at most one old   *)
(* record at a time and none while the live ones fit.  The code keeps it   *)
(* for streams whose steps increase, but not for all: with a capacity of 3 *)
(* and the steps 1, 2, 3, 2 it has seen 3, so that the next record may     *)
(* overwrite the second 2, although only three are live.                   *)
(***************************************************************************)
ImplementsContract == Contract!Spec
StepsIncrease == [][live \subseteq live']_vars

(***************************************************************************)
(* What it does keep for every stream: the contract, except that after a   *)
(* restart a record that fits may be lost, as soon as Capacity records     *)
(* have been offered in all; one at a time, and never the latest.          *)
(***************************************************************************)
ImplementsContractUntilRestart == Contract!SpecWithRestarts

(***************************************************************************)
(* What makes the above inductive: the stored records are live ones, and   *)
(* neither seen nor they nor the live records exceed the offers, so that   *)
(* the first Capacity offers find room.                                    *)
(***************************************************************************)
IInv ==
  /\ TypeOK
  /\ StepSorted
  /\ LastIsMaxStep
  /\ RangeOf(buf) \subseteq live
  /\ seen <= offered
  /\ Len(buf) <= offered
  /\ IsFiniteSet(live) /\ Cardinality(live) <= offered

-----------------------------------------------------------------------------
(***************************************************************************)
(* "Offer accepts a record from the stream and either inserts it into the  *)
(* reservoir or discards it" (mem/eager_reservoir.go:14): it returns, for  *)
(* every stream of records.                                                *)
(***************************************************************************)
OfferReturns == ~panicked
=============================================================================
