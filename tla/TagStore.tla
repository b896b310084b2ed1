------------------------------- MODULE TagStore -------------------------------
(***************************************************************************)
(* What an Accumulator promises the RPC handlers: the metadata and samples *)
(* of a run's tags behave as one object that every call sees at a single   *)
(* moment.  A tag with metadata has data.                                  *)
(***************************************************************************)
EXTENDS TimeSeries, GoMap

CONSTANTS Clients,         \* the goroutines that call the accumulator
          Tags,
          NoMeta,          \* stands for nil metadata
          CapacityOf(_)    \* the reservoir capacity for a data class

VARIABLES mds,     \* the first metadata of each tag
          data,    \* [sample, offered] for each tag with metadata
          answer   \* what the last call of each client returned

vars == <<mds, data, answer>>

NoAnswer == [op |-> "none", tag |-> "", value |-> {}]

Init == mds = <<>> /\ data = <<>> /\ answer = [c \in Clients |-> NoAnswer]

Series(tag) == IF tag \in DOMAIN data THEN data[tag] ELSE [sample |-> {}, offered |-> 0]

\* A value enters the store, or is dropped as its tag has nil metadata.
Ingest(d) ==
  /\ mds' = PutNew(mds, d.tag, d.meta)
  /\ IF mds'[d.tag] = NoMeta
     THEN data' = data
     ELSE \E s \in SamplesAfter(Series(d.tag).sample, Series(d.tag).offered,
                                CapacityOf(mds'[d.tag].class), d) :
            data' = Put(data, d.tag, [sample |-> s, offered |-> Series(d.tag).offered + 1])
  /\ UNCHANGED answer

Reply(c, op, tag, value) ==
  /\ answer' = [answer EXCEPT ![c] = [op |-> op, tag |-> tag, value |-> value]]
  /\ UNCHANGED <<mds, data>>

List(c) == Reply(c, "List", "", mds)
Metadata(c, tag) ==
  Reply(c, "Metadata", tag, IF tag \in DOMAIN mds THEN mds[tag] ELSE NoMeta)
Sample(c, tag) == Reply(c, "Sample", tag, Series(tag).sample)
Last(c, tag) ==
  Reply(c, "Last", tag,
        IF tag \in DOMAIN data THEN {LastOf(Series(tag).sample)} ELSE {})

\* arriving: the values that may enter.
Next(arriving) ==
  \/ \E d \in arriving : Ingest(d)
  \/ \E c \in Clients : List(c)
  \/ \E c \in Clients, tag \in Tags :
       Metadata(c, tag) \/ Sample(c, tag) \/ Last(c, tag)
=============================================================================
