-------------------------- MODULE ReservoirContract --------------------------
(***************************************************************************)
(* The contract of one time series as a specification: a stream of step-   *)
(* indexed records is offered, and a reader sees a sample of those that    *)
(* are still live, that is, not preempted by a later record.               *)
(***************************************************************************)
EXTENDS TimeSeries, FiniteSets

CONSTANTS Steps,      \* the steps a record may have
          Capacity,   \* how many records fit without loss
          MaxOffers   \* bound: how many records are offered

VARIABLES live,       \* the records offered and not preempted since
          sample,     \* the records a reader of the time series can see
          offered     \* how many records have been offered

vars == <<live, sample, offered>>

Init == live = {} /\ sample = {} /\ offered = 0

\* A record is its step and the position at which the stream had it.
Record(s) == [step |-> s, id |-> offered]

\* v is taken in by a reservoir that counts n records before it.
Take(v, n) ==
  /\ offered < MaxOffers
  /\ offered' = offered + 1
  /\ live' = Before(live, v.step) \cup {v}
  /\ sample' \in SamplesAfter(sample, n, Capacity, v)

(***************************************************************************)
(* As the interface has it: "can hold up to capacity elements losslessly", *)
(* where the records that count are those that v does not preempt.         *)
(***************************************************************************)
Offer(v) == Take(v, Cardinality(Before(live, v.step)))

Next == \E s \in Steps : Offer(Record(s))
Spec == Init /\ [][Next]_vars

(***************************************************************************)
(* What lockedPreempt leaves of it.  Once the stream has gone back, the    *)
(* code's count may be too high, at most by the records that have been     *)
(* preempted: then a record can be lost although all live ones would fit.  *)
(***************************************************************************)
Restarted(v) == Cardinality(Before(live, v.step)) < offered
OfferAfterRestart(v) == Restarted(v) /\ Take(v, offered)

NextWithRestarts == \E s \in Steps : Offer(Record(s)) \/ OfferAfterRestart(Record(s))
SpecWithRestarts == Init /\ [][NextWithRestarts]_vars
=============================================================================
