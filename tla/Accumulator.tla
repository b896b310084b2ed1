------------------------------ MODULE Accumulator ------------------------------
(***************************************************************************)
(* The accumulator of one run (io/run/accumulator.go): the goroutine that  *)
(* ingests what the run's reader sends, and the RPC handlers that query    *)
(* it, under the lock mu.  A reservoir is what TimeSeries says of it; its  *)
(* methods hold a lock of their own and are one step each.                 *)
(*                                                                         *)
(* A call that only needs mu to look at the maps is one step, taken while  *)
(* mu is free; a call that goes on to a reservoir takes a second one.      *)
(***************************************************************************)
EXTENDS DataCompat, TimeSeries, FiniteSets

CONSTANTS Clients,        \* the goroutines that call the accumulator
          Tags,           \* the tags they ask for
          Streams,        \* what the run's reader may read: sequences of events
          CapacityOf(_)   \* reservoirCapacity, scaled down

ASSUME ClientsAssumption == Clients \cap {"free", "ingest"} = {}
ASSUME StreamsAssumption ==
  \A events \in Streams :
    /\ events \in Seq(ToSet(events))
    /\ \A e \in ToSet(events) :
         \/ e.kind = "error"
         \/ /\ e.kind = "event" /\ e.step \in Int
            /\ e.values \in Seq(ToSet(e.values))
            /\ \A v \in ToSet(e.values) :
                 /\ v.meta \in [plugin : STRING, class : DataClasses]
                 /\ v.what = "histo" => /\ v.data.counts \in Seq(ToSet(v.data.counts))
                                        /\ v.data.limits \in Seq(ToSet(v.data.limits))
ASSUME CapacityAssumption == \A class \in DataClasses : CapacityOf(class) \in Nat

VARIABLES stream,     \* the events that the reader reads
          received,   \* how many ValueResults have been received from it
          mds, data,  \* acc.mds and acc.data
          mu,         \* who holds acc.mu: "free", "ingest" or a client
          offering,   \* the datum in ingestDatum, NoDatum outside
          calls,      \* the reservoir call a client is about to make
          answer,     \* what its last call has returned
          listed      \* history: the last List it got

vars == <<stream, received, mds, data, mu, offering, calls, answer, listed>>

(***************************************************************************)
(* The ValueResults of a stream of events: errors, and the values with the *)
(* metadata that the reader's store, built on the way, gives them.  "from" *)
(* is history: the value as it was written.                                *)
(***************************************************************************)
ValueResult(n, e, written, v) ==
  [kind |-> "value", step |-> e.step, id |-> n, from |-> written,
   tag |-> v.tag, meta |-> v.meta, tensor |-> v.tensor]

AddResults(st, e) ==
  IF e.kind = "error"
  THEN [mds |-> st.mds, results |-> Append(st.results, [kind |-> "error"])]
  ELSE LET ev == EventValues(e.values, st.mds)
       IN  [mds |-> ev.mds,
            results |-> st.results \o
              [i \in DOMAIN ev.values |->
                 ValueResult(Len(st.results) + i, e, e.values[i], ev.values[i])]]

Results(events) == FoldLeft(AddResults, [mds |-> <<>>, results |-> <<>>], events)

ResultsOf == [events \in Streams |-> Results(events)]
ValueResults == ResultsOf[stream].results
ReaderMds == ResultsOf[stream].mds

NoDatum == [kind |-> "none"]
NoCall == [op |-> "none", tag |-> ""]
NoAnswer == [op |-> "none", tag |-> "", value |-> {}]

Init ==
  /\ stream \in Streams
  /\ received = 0
  /\ mds = <<>> /\ data = <<>>
  /\ mu = "free"
  /\ offering = NoDatum
  /\ calls = [c \in Clients |-> NoCall]
  /\ answer = [c \in Clients |-> NoAnswer]
  /\ listed = [c \in Clients |-> <<>>]

-----------------------------------------------------------------------------
(***************************************************************************)
(* The goroutine of NewAccumulator.  Its checks for a nil Datum or Value   *)
(* are left out: sendValues makes neither.                                 *)
(***************************************************************************)
Incoming == ValueResults[received + 1]

Receive(kind) ==
  /\ offering = NoDatum
  /\ received < Len(ValueResults)
  /\ Incoming.kind = kind
  /\ received' = received + 1

SwallowError ==
  /\ Receive("error")
  /\ UNCHANGED <<stream, mds, data, mu, offering, calls, answer, listed>>

\* Mutant of MetadataFor: every value brings its own.
LatestMetadata(d) == d.meta

MetadataFor(d) == IF d.tag \in DOMAIN mds THEN mds[d.tag] ELSE d.meta

Reservoir(sample, offered, capacity) ==
  [sample |-> sample, offered |-> offered, capacity |-> capacity]

\* ingestDatum up to rsv.Offer; without metadata it returns before that.
IngestDatum ==
  /\ Receive("value")
  /\ mu = "free"
  /\ LET d  == Incoming
         md == MetadataFor(d)
     IN  /\ mds' = PutNew(mds, d.tag, md)
         /\ \/ md = NoMeta /\ UNCHANGED <<data, mu, offering>>
            \/ /\ md # NoMeta
               /\ data' = PutNew(data, d.tag, Reservoir({}, 0, CapacityOf(md.class)))
               /\ mu' = "ingest"
               /\ offering' = d
  /\ UNCHANGED <<stream, calls, answer, listed>>

\* Mutant of OfferDatum: mu is not unlocked.
OfferDatumKeepsMu ==
  /\ offering # NoDatum
  /\ LET rsv == data[offering.tag]
     IN  \E s \in SamplesAfter(rsv.sample, rsv.offered, rsv.capacity, offering) :
           data' = Put(data, offering.tag, Reservoir(s, rsv.offered + 1, rsv.capacity))
  /\ offering' = NoDatum
  /\ UNCHANGED <<stream, received, mds, mu, calls, answer, listed>>

\* rsv.Offer(*datum) and the deferred mu.Unlock
OfferDatum ==
  /\ offering # NoDatum
  /\ LET rsv == data[offering.tag]
     IN  \E s \in SamplesAfter(rsv.sample, rsv.offered, rsv.capacity, offering) :
           data' = Put(data, offering.tag, Reservoir(s, rsv.offered + 1, rsv.capacity))
  /\ mu' = "free"
  /\ offering' = NoDatum
  /\ UNCHANGED <<stream, received, mds, calls, answer, listed>>

-----------------------------------------------------------------------------
\* Mutant of Lockable: the maps are read without the lock.
LockableAlways(c) == calls[c] = NoCall

Lockable(c) == calls[c] = NoCall /\ mu = "free"

Return(c, op, tag, value) ==
  /\ answer' = [answer EXCEPT ![c] = [op |-> op, tag |-> tag, value |-> value]]
  /\ UNCHANGED <<stream, received, mds, data, offering>>

List(c) ==
  /\ Lockable(c)
  /\ Return(c, "List", "", mds)
  /\ listed' = [listed EXCEPT ![c] = mds]
  /\ UNCHANGED <<mu, calls>>

Metadata(c, tag) ==
  /\ Lockable(c)
  /\ Return(c, "Metadata", tag, IF tag \in DOMAIN mds THEN mds[tag] ELSE NoMeta)
  /\ UNCHANGED <<mu, calls, listed>>

\* Sample holds mu across the call of the reservoir, if there is one.
Sample(c, tag) ==
  /\ Lockable(c)
  /\ \/ /\ tag \notin DOMAIN data
        /\ Return(c, "Sample", tag, {})
        /\ UNCHANGED <<mu, calls>>
     \/ /\ tag \in DOMAIN data
        /\ mu' = c
        /\ calls' = [calls EXCEPT ![c] = [op |-> "Sample", tag |-> tag]]
        /\ UNCHANGED <<stream, received, mds, data, offering, answer>>
  /\ UNCHANGED listed

\* Last releases mu before it calls the reservoir.
GetLast(c, tag) ==
  /\ Lockable(c)
  /\ \/ /\ tag \notin DOMAIN data
        /\ Return(c, "Last", tag, {})
        /\ UNCHANGED calls
     \/ /\ tag \in DOMAIN data
        /\ calls' = [calls EXCEPT ![c] = [op |-> "Last", tag |-> tag]]
        /\ UNCHANGED <<stream, received, mds, data, offering, answer>>
  /\ UNCHANGED <<mu, listed>>

\* rsv.Sample() or rsv.Last(); the latter is nil for an empty reservoir.
ReservoirCall(c) ==
  /\ calls[c] # NoCall
  /\ LET sample == data[calls[c].tag].sample
     IN  \/ /\ calls[c].op = "Sample"
            /\ Return(c, "Sample", calls[c].tag, sample)
            /\ mu' = "free"
         \/ /\ calls[c].op = "Last"
            /\ Return(c, "Last", calls[c].tag,
                      {d \in sample : d = LastOf(sample)})
            /\ UNCHANGED mu
  /\ calls' = [calls EXCEPT ![c] = NoCall]
  /\ UNCHANGED listed

-----------------------------------------------------------------------------
Next ==
  \/ SwallowError \/ IngestDatum \/ OfferDatum
  \/ \E c \in Clients : List(c) \/ ReservoirCall(c)
  \/ \E c \in Clients, tag \in Tags :
       Metadata(c, tag) \/ Sample(c, tag) \/ GetLast(c, tag)

Spec == Init /\ [][Next]_vars

-----------------------------------------------------------------------------
\* The types of the variables; the lock is held by whoever is inside it.
TypeOK ==
  /\ received \in 0 .. Len(ValueResults)
  /\ DOMAIN data \subseteq DOMAIN mds /\ DOMAIN mds \subseteq DOMAIN ReaderMds
  /\ mu \in {"free", "ingest"} \cup Clients
  /\ (mu = "ingest") = (offering # NoDatum)
  /\ \A c \in Clients : (mu = c) = (calls[c].op = "Sample")

\* The places in the stream of a tag's values that have been ingested.
Ingested(tag) ==
  {i \in 1 .. received :
     LET r == ValueResults[i] IN r.kind = "value" /\ r.tag = tag /\ r # offering}

(***************************************************************************)
(* "(It is not possible for a time series to be present with no data, so   *)
(* this is lossless.)"  A handler that lists the tags and then, in calls   *)
(* of their own and with ingestion going on, asks for the data of one that *)
(* has metadata always gets some.                                          *)
(***************************************************************************)
ListedTagHasData ==
  \A c \in Clients :
    (/\ answer[c].op \in {"Sample", "Last"}
     /\ answer[c].tag \in DOMAIN listed[c]
     /\ listed[c][answer[c].tag] # NoMeta) => answer[c].value # {}

(***************************************************************************)
(* The accumulator and the reader keep the first metadata of a tag each    *)
(* for itself, the reader to decide how a value is migrated, the           *)
(* accumulator to decide what the tag is listed as: they never disagree.   *)
(***************************************************************************)
AgreesWithReader == \A tag \in DOMAIN mds : mds[tag] = ReaderMds[tag]

(***************************************************************************)
(* A tag's series holds nothing but values of that tag, among them the one *)
(* ingested last, and it is lossless up to the capacity of its data class. *)
(***************************************************************************)
SeriesFollowStream ==
  \A tag \in DOMAIN data :
    LET own    == Ingested(tag)
        sample == data[tag].sample
    IN  /\ sample \subseteq {ValueResults[i] : i \in own}
        /\ \A i \in own : (\A j \in own : j <= i) => ValueResults[i] \in sample
        /\ Cardinality(own) <= CapacityOf(mds[tag].class) =>
             \A i \in own :
               \/ ValueResults[i] \in sample
               \/ \E j \in own : j > i /\ ValueResults[j].step <= ValueResults[i].step

Times(x, y) == x * y

(***************************************************************************)
(* However many counts and limits a histogram was written with, the rows   *)
(* it is stored as adjoin each other from its least to its greatest value, *)
(* with one count each; and so every stored tensor that was made from an   *)
(* older format has as many values as its shape says.                      *)
(***************************************************************************)
HistogramsWhole ==
  \A tag \in DOMAIN data : \A d \in data[tag].sample :
    LET whole     == d.from.data
        cell(i, k) == d.tensor.vals[3 * (i - 1) + k]
        n         == Len(d.tensor.vals) \div 3
    IN  /\ d.from.what \in {"simple", "image", "histo", "graph"} =>
             Len(d.tensor.vals) = FoldLeft(Times, 1, d.tensor.dims)
        /\ d.from.what = "histo" /\ n > 0 =>
             /\ cell(1, 1) = whole.min /\ cell(n, 2) = whole.max
             /\ \A i \in 1 .. n - 1 : cell(i, 2) = cell(i + 1, 1)
             /\ \A i \in 1 .. n : cell(i, 3) = whole.counts[i]

(***************************************************************************)
(* Ingestion and calls look as if each took effect at one moment, although *)
(* the maps are updated in place before the datum is offered, and Last     *)
(* looks at a reservoir without the lock.  While a tag's first datum is    *)
(* being ingested the tag is not there yet.                                *)
(***************************************************************************)
Present(f) ==
  {tag \in DOMAIN f : offering # NoDatum /\ offering.tag = tag => data[tag].offered > 0}
Store ==
  INSTANCE TagStore
    WITH mds <- [tag \in Present(mds) |-> mds[tag]],
         data <- [tag \in Present(data) |->
                    [sample |-> data[tag].sample, offered |-> data[tag].offered]]
ImplementsTagStore ==
  /\ Store!Init
  /\ [][Store!Next({r \in ToSet(ValueResults) : r.kind = "value"})]_Store!vars

=============================================================================
