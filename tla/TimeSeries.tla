------------------------------ MODULE TimeSeries ------------------------------
(***************************************************************************)
(* What the reservoir of a time series may hold after each record, as the  *)
(* interface EagerReservoir of mem/eager_reservoir.go states it.  A record *)
(* has a step; one whose step does not increase preempts every earlier     *)
(* record of its step or a later one.                                      *)
(***************************************************************************)
EXTENDS Integers

\* The records of ds that a new record of step s leaves alone.
Before(ds, s) == {d \in ds : d.step < s}

\* Mutant of SamplesAfter: a reservoir that is full one record too early.
SamplesAfterEarly(sample, n, capacity, v) ==
  {Before(sample, v.step) \cup {v}}
    \cup {(Before(sample, v.step) \ {lost}) \cup {v} :
            lost \in {d \in Before(sample, v.step) : n + 1 >= capacity}}

(***************************************************************************)
(* The samples that a reservoir may have after v is offered, having had    *)
(* the given sample and counting n records before v.  The new record is    *)
(* in.  At most one record that v does not preempt is out, and none while  *)
(* those that are counted fit.  By the interface the live ones count; the  *)
(* code's own count can be anything up to all offers (line 95), and so n   *)
(* is the number of these wherever a reservoir is used below.              *)
(***************************************************************************)
SamplesAfter(sample, n, capacity, v) ==
  {Before(sample, v.step) \cup {v}}
    \cup {(Before(sample, v.step) \ {lost}) \cup {v} :
            lost \in {d \in Before(sample, v.step) : n >= capacity}}

\* The record with the greatest step, which is also the latest one.
LastOf(sample) == CHOOSE d \in sample : \A e \in sample : e.step <= d.step
=============================================================================
