------------------------------ MODULE DataCompat ------------------------------
(***************************************************************************)
(* The compatibility transformations of mem/datacompat.go: the metadata    *)
(* and the tensor that each summary value gets, and what the metadata      *)
(* store of the run becomes.                                               *)
(*                                                                         *)
(* A value on disk is a record: its tag, "what" its oneof holds, the data  *)
(* in that, and the metadata written with it, NoMeta for a nil one.  A     *)
(* graph_def event is the one value "graph"; events of other types have no *)
(* values.  Byte strings are sequences.  A tensor has its values in vals,  *)
(* whichever of its fields they are in.                                    *)
(***************************************************************************)
EXTENDS Integers, Sequences, SequencesExt, FiniteSetsExt, GoMap

\* Of a time series; "" stands for DATA_CLASS_UNKNOWN.
DataClasses == {"", "scalar", "tensor", "blobs"}

\* A nil *SummaryMetadata.
NoMeta == [plugin |-> "", class |-> ""]

\* Values of the older formats are given this when the tag has none yet.
LegacyMeta ==
  [what \in {"simple", "image", "histo"} |->
     CASE what = "simple" -> [plugin |-> "scalars", class |-> "scalar"]
       [] what = "image"  -> [plugin |-> "images", class |-> "blobs"]
       [] what = "histo"  -> [plugin |-> "histograms", class |-> "tensor"]]

GraphMeta == [plugin |-> "graphs", class |-> "blobs"]

\* The plugins whose tensors get a data class, and that class.
TensorClass ==
  [plugin \in {"scalars", "images", "histograms"} |->
     CASE plugin = "scalars" -> "scalar" [] plugin = "images" -> "blobs"
       [] plugin = "histograms" -> "tensor"]

(***************************************************************************)
(* The metadata a value leaves with, initialMeta being what the store has  *)
(* for its tag.  A stored nil counts as none here: only the store tells a  *)
(* tag with nil metadata from one it has never seen.                       *)
(***************************************************************************)
MigrateValue(v, initialMeta) ==
  CASE initialMeta # NoMeta -> v.meta
    [] initialMeta = NoMeta /\ v.what \in DOMAIN LegacyMeta -> LegacyMeta[v.what]
    [] /\ initialMeta = NoMeta /\ v.what = "tensor"
       /\ v.meta.plugin \in DOMAIN TensorClass ->
         [v.meta EXCEPT !.class = TensorClass[v.meta.plugin]]
    [] OTHER -> v.meta

MigrateGraphDef(hasMeta) == IF hasMeta THEN NoMeta ELSE GraphMeta

-----------------------------------------------------------------------------
\* A nil *TensorProto, which is what GetTensor makes of any other value.
NoTensor == [dtype |-> "none", dims |-> <<>>, vals |-> <<>>]

Buckets(h) == Min({Len(h.counts), Len(h.limits)})

\* Mutant of Rights: the limits are the right edges, the last one as well.
RightsAsWritten(h) == SubSeq(h.limits, 1, Buckets(h))

\* The inner limits, with the least value before or the greatest after them.
Lefts(h) == <<h.min>> \o SubSeq(h.limits, 1, Buckets(h) - 1)
Rights(h) == SubSeq(h.limits, 1, Buckets(h) - 1) \o <<h.max>>

\* A row of three for every bucket: where it begins, where it ends, its count.
HistogramTensor(h) ==
  [dtype |-> "double", dims |-> <<Buckets(h), 3>>,
   vals  |-> FlattenSeq([i \in 1 .. Buckets(h) |->
                           <<Lefts(h)[i], Rights(h)[i], h.counts[i]>>])]

Decimal(n) == <<n>>  \* its digits, however many

\* Mutant of GraphTensor: its shape is left empty, as that of a scalar is.
GraphTensorScalar(graph) == [dtype |-> "string", dims |-> <<>>, vals |-> <<graph>>]

GraphTensor(graph) == [dtype |-> "string", dims |-> <<1>>, vals |-> <<graph>>]

\* What v.Value is in the end; nothing becomes of values of other kinds.
TensorOf(v) ==
  CASE v.what = "simple" -> [dtype |-> "float", dims |-> <<>>, vals |-> <<v.data>>]
    [] v.what = "image"  -> [dtype |-> "string", dims |-> <<3>>,
                             vals  |-> <<Decimal(v.data.width), Decimal(v.data.height),
                                         v.data.encoded>>]
    [] v.what = "histo"  -> HistogramTensor(v.data)
    [] v.what = "tensor" -> v.data
    [] v.what = "graph"  -> GraphTensor(v.data)
    [] OTHER             -> NoTensor

-----------------------------------------------------------------------------

Migrated(v, meta) == [tag |-> v.tag, meta |-> meta, tensor |-> TensorOf(v)]

\* Mutants of Migrate: the last metadata stays; values without any are dropped.
MigrateLastWins(st, v) ==
  LET had  == v.tag \in DOMAIN st.mds
      meta == IF v.what = "graph" THEN MigrateGraphDef(had)
              ELSE MigrateValue(v, IF had THEN st.mds[v.tag] ELSE NoMeta)
  IN  [mds    |-> Put(st.mds, v.tag, meta),
       values |-> Append(st.values, Migrated(v, meta))]

MigrateDropsBare(st, v) ==
  LET had  == v.tag \in DOMAIN st.mds
      meta == IF v.what = "graph" THEN MigrateGraphDef(had)
              ELSE MigrateValue(v, IF had THEN st.mds[v.tag] ELSE NoMeta)
  IN  [mds    |-> PutNew(st.mds, v.tag, meta),
       values |-> IF meta = NoMeta THEN st.values
                  ELSE Append(st.values, Migrated(v, meta))]

\* One value more: the first metadata of a tag is the one that stays.
Migrate(st, v) ==
  LET had  == v.tag \in DOMAIN st.mds
      meta == IF v.what = "graph" THEN MigrateGraphDef(had)
              ELSE MigrateValue(v, IF had THEN st.mds[v.tag] ELSE NoMeta)
  IN  [mds    |-> PutNew(st.mds, v.tag, meta),
       values |-> Append(st.values, Migrated(v, meta))]

\* The values that an event represents, and the metadata store after it.
EventValues(values, mds) ==
  FoldLeft(Migrate, [mds |-> mds, values |-> <<>>], values)
=============================================================================
