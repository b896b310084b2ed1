--------------------------- MODULE Accumulator_proofs ---------------------------
(***************************************************************************)
(* Proofs about the accumulator of a run (io/run/accumulator.go), for any  *)
(* handlers, streams of events, tags and reservoir capacities.             *)
(*                                                                         *)
(* The first part is about what the run's reader sends (Results); then     *)
(* come the layers of the inductive invariant, and the theorems.           *)
(***************************************************************************)
EXTENDS Accumulator, CommonLemmas

\* The values in these events, and the ValueResults that become of them.
ValuesIn(events) ==
  UNION {ToSet(e.values) : e \in {x \in ToSet(events) : x.kind = "event"}}
Error == [kind |-> "error"]
Datums(events) ==
  [kind : {"value"}, step : Int, id : Nat, from : ValuesIn(events),
   tag : TagsOf(ValuesIn(events)), meta : MetasOf(ValuesIn(events)),
   tensor : {TensorOf(v) : v \in ValuesIn(events)}]
Sent(events) == Datums(events) \cup {Error}

\* A datum knows its place, and its tensor is what becomes of the value.
Numbered(rs) ==
  \A i \in 1 .. Len(rs) :
    rs[i].kind = "value" => rs[i].id = i /\ rs[i].tensor = TensorOf(rs[i].from)

\* m has the metadata of the first of the first n results with each tag.
FirstOf(m, rs, n) ==
  /\ DOMAIN m = {rs[i].tag : i \in {j \in 1 .. n : rs[j].kind = "value"}}
  /\ \A tag \in DOMAIN m :
       \E i \in 1 .. n : /\ rs[i].kind = "value" /\ rs[i].tag = tag
                         /\ m[tag] = rs[i].meta
                         /\ \A j \in 1 .. i - 1 : rs[j].kind = "value" => rs[j].tag # tag

Good(events, st) ==
  /\ st.results \in Seq(Sent(events))
  /\ Numbered(st.results)
  /\ FirstOf(st.mds, st.results, Len(st.results))

-----------------------------------------------------------------------------
\* Results folds AddResults over the events.
Adding == INSTANCE LeftFold WITH Op <- AddResults

(***************************************************************************)
(* No event makes no result; one event more adds to what there is.         *)
(***************************************************************************)
LEMMA ResultsAppend ==
  /\ Results(<<>>) = [mds |-> <<>>, results |-> <<>>]
  /\ \A S : \A events \in Seq(S), e \in S :
       Results(Append(events, e)) = AddResults(Results(events), e)
<1>1. \A base, seq : FoldLeft(AddResults, base, seq) = Adding!Fold(base, seq)
  BY DEF FoldLeft, MapThenFoldSet, Max, Adding!Fold, Adding!Folding, Adding!Greatest
<1>2. \A es : Results(es) = Adding!Fold([mds |-> <<>>, results |-> <<>>], es)
  BY <1>1, Zenon DEF Results
<1> QED
  BY <1>2, Adding!FoldEmpty, Adding!FoldAppend

(***************************************************************************)
(* A datum more that finds the metadata of its tag, or brings it.          *)
(***************************************************************************)
LEMMA FirstOfPut ==
  ASSUME NEW m, NEW rs, NEW n \in Nat, FirstOf(m, rs, n),
         rs[n + 1].kind = "value"
  PROVE  FirstOf(PutNew(m, rs[n + 1].tag, rs[n + 1].meta), rs, n + 1)
<1> DEFINE d == rs[n + 1]
           m1 == PutNew(m, d.tag, d.meta)
<1>1. /\ DOMAIN m1 = DOMAIN m \cup {d.tag}
      /\ \A tag \in DOMAIN m : m1[tag] = m[tag]
      /\ d.tag \notin DOMAIN m => m1[d.tag] = d.meta
  BY DEF PutNew, Put
<1>2. {j \in 1 .. n + 1 : rs[j].kind = "value"}
        = {j \in 1 .. n : rs[j].kind = "value"} \cup {n + 1}
  OBVIOUS
<1> HIDE DEF m1
<1>3. DOMAIN m1 = {rs[i].tag : i \in {j \in 1 .. n + 1 : rs[j].kind = "value"}}
  BY <1>1, <1>2 DEF FirstOf
<1>4. ASSUME NEW tag \in DOMAIN m1
      PROVE  \E i \in 1 .. n + 1 :
               /\ rs[i].kind = "value" /\ rs[i].tag = tag /\ m1[tag] = rs[i].meta
               /\ \A j \in 1 .. i - 1 : rs[j].kind = "value" => rs[j].tag # tag
  <2>1. CASE tag \in DOMAIN m
    <3>1. PICK i \in 1 .. n :
            /\ rs[i].kind = "value" /\ rs[i].tag = tag /\ m[tag] = rs[i].meta
            /\ \A j \in 1 .. i - 1 : rs[j].kind = "value" => rs[j].tag # tag
      BY <2>1 DEF FirstOf
    <3>2. i \in 1 .. n + 1
      OBVIOUS
    <3> QED
      BY <1>1, <2>1, <3>1, <3>2
  <2>2. CASE tag \notin DOMAIN m
    <3>1. tag = d.tag /\ m1[tag] = d.meta
      BY <1>1, <2>2
    <3>2. \A j \in 1 .. n : rs[j].kind = "value" => rs[j].tag # tag
      BY <2>2 DEF FirstOf
    <3>3. n + 1 \in 1 .. n + 1 /\ (n + 1) - 1 = n
      OBVIOUS
    <3> QED
      BY <3>1, <3>2, <3>3
  <2> QED
    BY <2>1, <2>2
<1> QED
  BY <1>3, <1>4, Zenon DEF FirstOf, m1

(***************************************************************************)
(* An error more has no metadata.                                          *)
(***************************************************************************)
LEMMA FirstOfError ==
  ASSUME NEW m, NEW rs, NEW n \in Nat, FirstOf(m, rs, n),
         rs[n + 1].kind = "error"
  PROVE  FirstOf(m, rs, n + 1)
<1>1. {j \in 1 .. n + 1 : rs[j].kind = "value"} = {j \in 1 .. n : rs[j].kind = "value"}
  OBVIOUS
<1>2. 1 .. n \subseteq 1 .. n + 1
  OBVIOUS
<1> QED
  BY <1>1, <1>2 DEF FirstOf

(***************************************************************************)
(* FirstOf is about the first n results only.                              *)
(***************************************************************************)
LEMMA FirstOfPrefix ==
  ASSUME NEW m, NEW rs, NEW ss, NEW n \in Nat, FirstOf(m, rs, n),
         \A i \in 1 .. n : ss[i] = rs[i]
  PROVE  FirstOf(m, ss, n)
<1>1. \A i \in 1 .. n : 1 .. i - 1 \subseteq 1 .. n
  OBVIOUS
<1>2. {ss[i].tag : i \in {j \in 1 .. n : ss[j].kind = "value"}}
        = {rs[i].tag : i \in {j \in 1 .. n : rs[j].kind = "value"}}
  OBVIOUS
<1>3. ASSUME NEW tag \in DOMAIN m
      PROVE  \E i \in 1 .. n :
               /\ ss[i].kind = "value" /\ ss[i].tag = tag /\ m[tag] = ss[i].meta
               /\ \A j \in 1 .. i - 1 : ss[j].kind = "value" => ss[j].tag # tag
  <2>1. PICK i \in 1 .. n :
          /\ rs[i].kind = "value" /\ rs[i].tag = tag /\ m[tag] = rs[i].meta
          /\ \A j \in 1 .. i - 1 : rs[j].kind = "value" => rs[j].tag # tag
    BY DEF FirstOf
  <2> QED
    BY <1>1, <2>1
<1> QED
  BY <1>2, <1>3, Zenon DEF FirstOf

(***************************************************************************)
(* Two maps that hold the first metadata, of more results or of fewer,     *)
(* agree where both have any.                                              *)
(***************************************************************************)
LEMMA FirstOfAgree ==
  ASSUME NEW m, NEW k, NEW rs, NEW n \in Nat, NEW p \in Nat, n <= p,
         FirstOf(m, rs, n), FirstOf(k, rs, p)
  PROVE  DOMAIN m \subseteq DOMAIN k /\ \A tag \in DOMAIN m : m[tag] = k[tag]
<1>1. DOMAIN m \subseteq DOMAIN k
  <2>1. {j \in 1 .. n : rs[j].kind = "value"} \subseteq {j \in 1 .. p : rs[j].kind = "value"}
    OBVIOUS
  <2> QED
    BY <2>1 DEF FirstOf
<1>2. ASSUME NEW tag \in DOMAIN m
      PROVE  m[tag] = k[tag]
  <2>1. PICK i \in 1 .. n :
          /\ rs[i].kind = "value" /\ rs[i].tag = tag /\ m[tag] = rs[i].meta
          /\ \A j \in 1 .. i - 1 : rs[j].kind = "value" => rs[j].tag # tag
    BY DEF FirstOf
  <2>2. tag \in DOMAIN k
    BY <1>1
  <2>3. PICK h \in 1 .. p :
          /\ rs[h].kind = "value" /\ rs[h].tag = tag /\ k[tag] = rs[h].meta
          /\ \A j \in 1 .. h - 1 : rs[j].kind = "value" => rs[j].tag # tag
    BY <2>2 DEF FirstOf
  <2>4. i \notin 1 .. h - 1 /\ h \notin 1 .. i - 1
    BY <2>1, <2>3
  <2>5. i = h
    BY <2>4
  <2> QED
    BY <2>1, <2>3, <2>5
<1> QED
  BY <1>1, <1>2

(***************************************************************************)
(* The results that an event adds, after n others in ss.                   *)
(***************************************************************************)
LEMMA FirstOfEvent ==
  ASSUME NEW m, NEW k, NEW rs, NEW ss, NEW values, NEW n \in Nat,
         Len(values) \in Nat, FirstOf(m, rs, n), FirstIn(k, values, m),
         \A i \in 1 .. n : ss[i] = rs[i],
         \A i \in 1 .. Len(values) :
           /\ ss[n + i].kind = "value"
           /\ ss[n + i].tag = values[i].tag /\ ss[n + i].meta = values[i].meta
  PROVE  FirstOf(k, ss, n + Len(values))
<1> DEFINE p == Len(values)
<1>1. FirstOf(m, ss, n)
  BY FirstOfPrefix
<1>2. \A i \in 1 .. n + p : i \in 1 .. n \/ (i - n \in 1 .. p /\ n + (i - n) = i)
  OBVIOUS
<1>3. \A i \in 1 .. p : n + i \in 1 .. n + p
  OBVIOUS
<1>4. 1 .. n \subseteq 1 .. n + p
  OBVIOUS
<1> DEFINE places(q) == {j \in 1 .. q : ss[j].kind = "value"}
<1>5. DOMAIN k = {ss[i].tag : i \in places(n + p)}
  <2>1. DOMAIN m = {ss[i].tag : i \in places(n)}
    BY <1>1 DEF FirstOf
  <2>2. DOMAIN k = DOMAIN m \cup {values[i].tag : i \in 1 .. p}
    BY DEF FirstIn
  <2>3. \A i \in places(n + p) : i \in places(n) \/ \E j \in 1 .. p : i = n + j
    BY <1>2
  <2>4. places(n) \subseteq places(n + p)
    BY <1>4
  <2>5. \A j \in 1 .. p : n + j \in places(n + p)
    BY <1>3
  <2> HIDE DEF places, p
  <2>6. ASSUME NEW t \in DOMAIN k
        PROVE  \E i \in places(n + p) : t = ss[i].tag
    <3>1. CASE t \in DOMAIN m
      BY <2>1, <2>4, <3>1
    <3>2. CASE \E j \in 1 .. p : t = values[j].tag
      BY <2>5, <3>2 DEF p
    <3> QED
      BY <2>2, <3>1, <3>2
  <2>7. ASSUME NEW i \in places(n + p)
        PROVE  ss[i].tag \in DOMAIN k
    <3>1. CASE i \in places(n)
      BY <2>1, <2>2, <3>1
    <3>2. CASE \E j \in 1 .. p : i = n + j
      BY <2>2, <3>2 DEF p
    <3> QED
      BY <2>3, <3>1, <3>2
  <2> QED
    BY <2>6, <2>7
<1>6. ASSUME NEW tag \in DOMAIN k
      PROVE  \E i \in 1 .. n + p :
               /\ ss[i].kind = "value" /\ ss[i].tag = tag /\ k[tag] = ss[i].meta
               /\ \A j \in 1 .. i - 1 : ss[j].kind = "value" => ss[j].tag # tag
  <2>1. CASE tag \in DOMAIN m
    <3>1. k[tag] = m[tag]
      BY <2>1 DEF FirstIn
    <3>2. PICK i \in 1 .. n :
            /\ ss[i].kind = "value" /\ ss[i].tag = tag /\ m[tag] = ss[i].meta
            /\ \A j \in 1 .. i - 1 : ss[j].kind = "value" => ss[j].tag # tag
      BY <1>1, <2>1 DEF FirstOf
    <3> QED
      BY <1>4, <3>1, <3>2
  <2>2. CASE tag \notin DOMAIN m
    <3>1. PICK i \in 1 .. p :
            /\ values[i].tag = tag /\ k[tag] = values[i].meta
            /\ \A j \in 1 .. i - 1 : values[j].tag # tag
      BY <2>2 DEF FirstIn
    <3>2. \A j \in 1 .. n : ss[j].kind = "value" => ss[j].tag # tag
      <4>1. DOMAIN m = {ss[h].tag : h \in {j \in 1 .. n : ss[j].kind = "value"}}
        BY <1>1, Zenon DEF FirstOf
      <4> QED
        BY <2>2, <4>1
    <3>3. \A j \in 1 .. (n + i) - 1 :
            j \in 1 .. n \/ (j - n \in 1 .. i - 1 /\ j - n \in 1 .. p /\ n + (j - n) = j)
      OBVIOUS
    <3>4. \A j \in 1 .. (n + i) - 1 : ss[j].kind = "value" => ss[j].tag # tag
      <4> SUFFICES ASSUME NEW j \in 1 .. (n + i) - 1, ss[j].kind = "value"
                   PROVE  ss[j].tag # tag
        OBVIOUS
      <4>1. CASE j \in 1 .. n
        BY <3>2, <4>1
      <4>2. CASE j - n \in 1 .. i - 1 /\ j - n \in 1 .. p /\ n + (j - n) = j
        <5>1. ss[n + (j - n)].tag = values[j - n].tag
          BY <4>2
        <5> QED
          BY <3>1, <4>2, <5>1
      <4> QED
        BY <3>3, <4>1, <4>2
    <3>5. /\ n + i \in 1 .. n + p /\ ss[n + i].kind = "value" /\ ss[n + i].tag = tag
          /\ k[tag] = ss[n + i].meta
      BY <1>3, <3>1
    <3> QED
      BY <3>4, <3>5
  <2> QED
    BY <2>1, <2>2
<1> HIDE DEF p, places
<1>7. DOMAIN k = {ss[i].tag : i \in {j \in 1 .. n + p : ss[j].kind = "value"}}
  BY <1>5 DEF places
<1>8. FirstOf(k, ss, n + p)
  BY <1>6, <1>7, Zenon DEF FirstOf
<1> QED
  BY <1>8 DEF p

(***************************************************************************)
(* The values of an event are among those of the stream.                   *)
(***************************************************************************)
LEMMA EventType ==
  ASSUME NEW events \in Streams, NEW e \in ToSet(events), e.kind # "error"
  PROVE  /\ e.kind = "event" /\ e.step \in Int
         /\ e.values \in Seq(ValuesIn(events))
<1>1. /\ e.kind = "event" /\ e.step \in Int
      /\ e.values \in Seq(ToSet(e.values))
  BY StreamsAssumption
<1>2. ToSet(e.values) \subseteq ValuesIn(events)
  BY <1>1, Zenon DEF ValuesIn
<1> QED
  BY <1>1, <1>2, SeqMonotonic, Zenon

(***************************************************************************)
(* One event more.                                                         *)
(***************************************************************************)
LEMMA AddResultsGood ==
  ASSUME NEW events \in Streams, NEW e \in ToSet(events),
         NEW st, Good(events, st)
  PROVE  Good(events, AddResults(st, e))
<1> DEFINE R == Sent(events)
           rs == st.results
           n == Len(rs)
<1>1. rs \in Seq(R) /\ Numbered(rs) /\ FirstOf(st.mds, rs, n)
  BY DEF Good
<1>2. n \in Nat
  BY <1>1, LenProperties
<1>3. CASE e.kind = "error"
  <2> DEFINE more == Append(rs, Error)
             st1 == AddResults(st, e)
  <2>1. st1 = [mds |-> st.mds, results |-> more]
    BY <1>3 DEF AddResults, Error
  <2>2. Error \in R /\ Error.kind = "error"
    BY DEF Sent, Error
  <2> HIDE DEF R, rs, st1
  <2>3. /\ more \in Seq(R) /\ Len(more) = n + 1
        /\ \A i \in 1 .. n : more[i] = rs[i]
        /\ more[n + 1] = Error
    BY <1>1, <2>2, AppendProperties
  <2> HIDE DEF more, n
  <2>4. \A i \in 1 .. n + 1 : i \in 1 .. n \/ i = n + 1
    BY <1>2
  <2>5. Numbered(more)
    BY <1>1, <2>2, <2>3, <2>4 DEF Numbered, n
  <2>6. FirstOf(st.mds, more, n)
    BY <1>1, <1>2, <2>3, FirstOfPrefix
  <2>7. FirstOf(st.mds, more, n + 1)
    BY <1>2, <2>2, <2>3, <2>6, FirstOfError
  <2>8. st1.mds = st.mds /\ st1.results = more
    BY <2>1
  <2>9. FirstOf(st1.mds, st1.results, Len(st1.results))
    BY <2>3, <2>7, <2>8
  <2> QED
    BY <2>3, <2>5, <2>8, <2>9 DEF Good, R, st1
<1>4. CASE e.kind # "error"
  <2> DEFINE V == ValuesIn(events)
             us == e.values
             ev == EventValues(us, st.mds)
             vs == ev.values
             ds == [i \in DOMAIN vs |-> ValueResult(n + i, e, us[i], vs[i])]
             more == rs \o ds
             st1 == AddResults(st, e)
  <2>1. st1 = [mds |-> ev.mds, results |-> more]
    BY <1>4, Zenon DEF AddResults
  <2>2. us \in Seq(V) /\ e.step \in Int
    BY <1>4, EventType
  <2>3. /\ vs \in Seq(MigratedOf(V)) /\ Len(vs) = Len(us)
        /\ \A i \in 1 .. Len(us) : vs[i].tensor = TensorOf(us[i])
        /\ FirstIn(ev.mds, vs, st.mds)
    <3> HIDE DEF us, V
    <3>1. /\ vs \in Seq(MigratedOf(V)) /\ Len(vs) = Len(us)
          /\ \A i \in 1 .. Len(us) : vs[i].tensor = TensorOf(us[i])
      <4>1. vs \in Seq(MigratedOf(V)) /\ Becomes(us, vs)
        BY <2>2, EventValuesType
      <4> HIDE DEF vs
      <4> QED
        BY <4>1 DEF Becomes
    <3>2. FirstIn(ev.mds, vs, st.mds)
      BY <2>2, EventValuesKeepFirst
    <3> QED
      BY <3>1, <3>2
  <2>4. /\ Len(us) \in Nat /\ DOMAIN vs = 1 .. Len(us)
        /\ \A i \in 1 .. Len(us) : us[i] \in V /\ vs[i] \in MigratedOf(V)
    BY <2>2, <2>3, LenProperties, ElementOfSeq
  <2> HIDE DEF us, vs, ev, V, rs, n, st1
  <2>5. \A i \in 1 .. Len(us) :
          /\ ds[i] \in R /\ ds[i].kind = "value" /\ ds[i].id = n + i
          /\ ds[i].tensor = TensorOf(ds[i].from)
          /\ ds[i].tag = vs[i].tag /\ ds[i].meta = vs[i].meta
    <3> SUFFICES ASSUME NEW i \in 1 .. Len(us)
                 PROVE  /\ ds[i] \in R /\ ds[i].kind = "value" /\ ds[i].id = n + i
                        /\ ds[i].tensor = TensorOf(ds[i].from)
                        /\ ds[i].tag = vs[i].tag /\ ds[i].meta = vs[i].meta
      OBVIOUS
    <3>1. ds[i] = ValueResult(n + i, e, us[i], vs[i])
      BY <2>4
    <3>2. /\ vs[i].tag \in TagsOf(V) /\ vs[i].meta \in MetasOf(V)
          /\ vs[i].tensor = TensorOf(us[i]) /\ us[i] \in V /\ n + i \in Nat
      BY <1>2, <2>3, <2>4 DEF MigratedOf
    <3> DEFINE d == ds[i]
    <3>3. /\ d.kind = "value" /\ d.id = n + i /\ d.from = us[i]
          /\ d.tag = vs[i].tag /\ d.meta = vs[i].meta /\ d.tensor = vs[i].tensor
      BY <3>1 DEF ValueResult
    <3>4. d \in Datums(events)
      <4> DEFINE TS == {TensorOf(v) : v \in V}
                 T == TagsOf(V)
                 M == MetasOf(V)
      <4>1. vs[i].tensor \in TS /\ vs[i].tag \in T /\ vs[i].meta \in M
        BY <3>2
      <4> HIDE DEF TS, T, M
      <4>2. d \in [kind : {"value"}, step : Int, id : Nat, from : V, tag : T, meta : M,
                   tensor : TS]
        BY <2>2, <3>1, <3>2, <4>1 DEF ValueResult
      <4> QED
        BY <4>2 DEF Datums, TS, T, M, V
    <3> QED
      BY <3>2, <3>3, <3>4 DEF Sent, R
  <2>6. ds \in [1 .. Len(us) -> R]
    BY <2>4, <2>5
  <2> HIDE DEF ds, R
  <2>7. ds \in Seq(R) /\ Len(ds) = Len(us)
    BY <2>4, <2>6, SeqOfFunction
  <2>8. /\ more \in Seq(R) /\ Len(more) = n + Len(us)
        /\ \A i \in 1 .. n : more[i] = rs[i]
        /\ \A i \in 1 .. Len(us) : more[n + i] = ds[i]
    <3>1. /\ more \in Seq(R) /\ Len(more) = n + Len(us)
          /\ \A i \in 1 .. n + Len(us) : more[i] = IF i <= n THEN rs[i] ELSE ds[i - n]
      BY <1>1, <2>7, ConcatProperties, SMTT(30) DEF n
    <3> HIDE DEF more
    <3>2. \A i \in 1 .. n : i \in 1 .. n + Len(us) /\ i <= n
      BY <1>2, <2>4
    <3>3. \A i \in 1 .. Len(us) :
            n + i \in 1 .. n + Len(us) /\ ~(n + i <= n) /\ (n + i) - n = i
      BY <1>2, <2>4
    <3> QED
      BY <3>1, <3>2, <3>3
  <2> HIDE DEF more
  <2>9. \A i \in 1 .. n + Len(us) :
          i \in 1 .. n \/ (i - n \in 1 .. Len(us) /\ n + (i - n) = i)
    BY <1>2, <2>4
  <2>10. Numbered(more)
    <3> SUFFICES ASSUME NEW i \in 1 .. n + Len(us), more[i].kind = "value"
                 PROVE  more[i].id = i /\ more[i].tensor = TensorOf(more[i].from)
      BY <2>8 DEF Numbered
    <3>1. CASE i \in 1 .. n
      BY <1>1, <2>8, <3>1 DEF Numbered, n
    <3>2. CASE i - n \in 1 .. Len(us) /\ n + (i - n) = i
      <4>1. more[i] = ds[i - n]
        BY <2>8, <3>2
      <4> QED
        BY <2>5, <3>2, <4>1
    <3> QED
      BY <2>9, <3>1, <3>2
  <2>11. FirstOf(ev.mds, more, n + Len(us))
    <3>1. \A i \in 1 .. Len(vs) :
            /\ more[n + i].kind = "value"
            /\ more[n + i].tag = vs[i].tag /\ more[n + i].meta = vs[i].meta
      BY <2>3, <2>5, <2>8
    <3>2. Len(vs) \in Nat /\ Len(vs) = Len(us)
      BY <2>3, <2>4
    <3>3. FirstOf(ev.mds, more, n + Len(vs))
      BY <1>1, <1>2, <2>3, <2>8, <3>1, <3>2, FirstOfEvent
    <3> QED
      BY <3>2, <3>3
  <2>12. st1.mds = ev.mds /\ st1.results = more
    BY <2>1
  <2>13. FirstOf(st1.mds, st1.results, Len(st1.results))
    BY <2>8, <2>11, <2>12
  <2> QED
    BY <2>8, <2>10, <2>12, <2>13 DEF Good, R, st1
<1> QED
  BY <1>3, <1>4

(***************************************************************************)
(* What is sent is numbered, and the reader's store has the first metadata *)
(* of each tag.                                                            *)
(***************************************************************************)
LEMMA ResultsGood ==
  ASSUME NEW events \in Streams
  PROVE  Good(events, Results(events))
<1> DEFINE E == ToSet(events)
           G == {es \in Seq(E) : Good(events, Results(es))}
<1>1. <<>> \in G
  <2> DEFINE st == [mds |-> <<>>, results |-> <<>>]
  <2>1. st.results = <<>> /\ st.mds = <<>> /\ Len(<<>>) = 0 /\ 1 .. 0 = {}
    OBVIOUS
  <2>2. Numbered(<<>>)
    BY <2>1 DEF Numbered
  <2>3. FirstOf(<<>>, <<>>, 0)
    BY <2>1 DEF FirstOf
  <2>4. Good(events, st)
    BY <2>1, <2>2, <2>3, EmptySeq DEF Good
  <2>5. Results(<<>>) = st
    BY ResultsAppend
  <2>6. Good(events, Results(<<>>))
    BY <2>4, <2>5
  <2> QED
    BY <2>6, EmptySeq
<1>2. ASSUME NEW es \in Seq(E), NEW e \in E, es \in G
      PROVE  Append(es, e) \in G
  <2>1. Good(events, AddResults(Results(es), e))
    <3>1. \A x \in E : \A st : Good(events, st) => Good(events, AddResults(st, x))
      BY AddResultsGood
    <3> QED
      BY <1>2, <3>1, Zenon
  <2>2. Results(Append(es, e)) = AddResults(Results(es), e)
    BY ResultsAppend
  <2>3. Append(es, e) \in Seq(E)
    BY AppendProperties
  <2> QED
    BY <2>1, <2>2, <2>3
<1>3. Seq(E) \subseteq G
  <2> HIDE DEF G, E
  <2> QED
    BY <1>1, <1>2, InductionOnSeq
<1>4. events \in Seq(E)
  BY StreamsAssumption
<1> QED
  BY <1>3, <1>4

-----------------------------------------------------------------------------
(***************************************************************************)
(* The types of the variables.  What is being offered is what was received *)
(* last; a client is about to make one call at most.                       *)
(***************************************************************************)
VR == Results(stream).results
Call == {NoCall} \cup [op : {"Sample", "Last"}, tag : Tags]
Series == [sample : SUBSET Datums(stream), offered : Nat, capacity : Nat]
Types ==
  /\ stream \in Streams /\ received \in 0 .. Len(VR)
  /\ mu \in {"free", "ingest"} \cup Clients
  /\ calls \in [Clients -> Call]
  /\ DOMAIN answer = Clients /\ DOMAIN listed = Clients
  /\ data \in [DOMAIN data -> Series]
  /\ offering # NoDatum =>
       received >= 1 /\ offering = VR[received] /\ offering.kind = "value"

\* Who holds the lock.
Locking ==
  /\ (mu = "ingest") = (offering # NoDatum)
  /\ \A c \in Clients : (mu = c) = (calls[c].op = "Sample")

(***************************************************************************)
(* A tag has a series if its metadata is not nil; only the series that is  *)
(* about to get its first datum is empty.  Any other has a greatest step.  *)
(***************************************************************************)
Greatest(sample) == \E d \in sample : \A e \in sample : e.step <= d.step
InHand(tag) == offering # NoDatum /\ offering.tag = tag
SeriesOfTags ==
  /\ DOMAIN data = {tag \in DOMAIN mds : mds[tag] # NoMeta}
  /\ offering # NoDatum => offering.tag \in DOMAIN data
  /\ \A tag \in DOMAIN data : data[tag].capacity = CapacityOf(mds[tag].class)
  /\ \A tag \in DOMAIN data :
       \/ data[tag].offered > 0 /\ Greatest(data[tag].sample)
       \/ InHand(tag) /\ data[tag].offered = 0 /\ data[tag].sample = {}
  /\ \A c \in Clients :
       calls[c] # NoCall => /\ calls[c].tag \in DOMAIN data
                            /\ data[calls[c].tag].offered > 0

\* What a client has listed is still so, and has data.
Listing ==
  \A c \in Clients : \A tag \in DOMAIN listed[c] :
    /\ tag \in DOMAIN mds /\ listed[c][tag] = mds[tag]
    /\ mds[tag] # NoMeta => data[tag].offered > 0

\* The metadata is that of the first value of each tag.
MetadataOfFirst == FirstOf(mds, VR, received)

(***************************************************************************)
(* The series of a tag follow the stream: every value of the tag ingested  *)
(* so far has been offered, and the sample is what SeriesFollowStream says.*)
(* Own and Follows are its parts, of any results and series.               *)
(***************************************************************************)
Own(rs, n, hand, tag) ==
  {i \in 1 .. n : rs[i].kind = "value" /\ rs[i].tag = tag /\ rs[i] # hand}
Follows(sample, rs, own, capacity) ==
  /\ sample \subseteq {rs[i] : i \in own}
  /\ \A i \in own : (\A j \in own : j <= i) => rs[i] \in sample
  /\ Cardinality(own) <= capacity =>
       \A i \in own : \/ rs[i] \in sample
                      \/ \E j \in own : j > i /\ rs[j].step <= rs[i].step
Followed ==
  \A tag \in DOMAIN data :
    LET own == Own(VR, received, offering, tag)
    IN  /\ data[tag].offered = Cardinality(own)
        /\ Follows(data[tag].sample, VR, own, CapacityOf(mds[tag].class))

\* mds is a map.
MdsIsMap == mds = [tag \in DOMAIN mds |-> mds[tag]]

IInv == /\ Types /\ Locking /\ SeriesOfTags /\ Listing /\ MetadataOfFirst /\ MdsIsMap
        /\ ListedTagHasData /\ Followed

-----------------------------------------------------------------------------
(***************************************************************************)
(* The model's names for what the reader sends.                            *)
(***************************************************************************)
LEMMA WhatIsSent ==
  ASSUME stream \in Streams
  PROVE  ValueResults = VR /\ ReaderMds = Results(stream).mds
BY Zenon DEF ValueResults, ReaderMds, ResultsOf, VR

(***************************************************************************)
(* The results of a stream: errors, and data that know their places.       *)
(***************************************************************************)
LEMMA ResultTypes ==
  ASSUME NEW events \in Streams, NEW rs, rs = Results(events).results
  PROVE  /\ Len(rs) \in Nat
         /\ \A i \in 1 .. Len(rs) :
              \/ rs[i].kind = "error"
              \/ /\ rs[i].kind = "value" /\ rs[i] \in Datums(events)
                 /\ rs[i].id = i /\ rs[i] # NoDatum
<1>1. rs \in Seq(Sent(events)) /\ Numbered(rs)
  BY ResultsGood DEF Good
<1>2. Len(rs) \in Nat /\ \A i \in 1 .. Len(rs) : rs[i] \in Sent(events)
  BY <1>1, LenProperties, ElementOfSeq
<1>3. \A d \in Sent(events) :
        \/ d.kind = "error"
        \/ d.kind = "value" /\ d \in Datums(events) /\ d # NoDatum
  BY DEF Sent, Datums, Error, NoDatum
<1> HIDE DEF NoDatum
<1> QED
  BY <1>1, <1>2, <1>3 DEF Numbered

(***************************************************************************)
(* Whatever metadata a datum gets, its data class is known.                *)
(***************************************************************************)
LEMMA MetaClass ==
  ASSUME NEW events \in Streams, NEW m \in MetasOf(ValuesIn(events))
  PROVE  CapacityOf(m.class) \in Nat
<1>1. m.class \in DataClasses
  <2>1. \A v \in ValuesIn(events) : v.meta \in [plugin : STRING, class : DataClasses]
    BY StreamsAssumption, Zenon DEF ValuesIn
  <2>2. \A w \in DOMAIN LegacyMeta : LegacyMeta[w].class \in DataClasses
    BY DEF LegacyMeta, DataClasses
  <2>3. \A c \in Classes : c \in DataClasses
    BY DEF Classes, TensorClass, DataClasses
  <2>4. NoMeta.class \in DataClasses /\ GraphMeta.class \in DataClasses
    BY DEF NoMeta, GraphMeta, DataClasses
  <2> QED
    BY <2>1, <2>2, <2>3, <2>4 DEF MetasOf
<1> QED
  BY <1>1, CapacityAssumption

(***************************************************************************)
(* The sample after an offer has the new record, which has the greatest    *)
(* step, and nothing else that is new; and while the stream fits, all that *)
(* the record does not preempt.                                            *)
(***************************************************************************)
LEMMA AfterOffer ==
  ASSUME NEW D, \A d \in D : d.step \in Int, NEW sample \in SUBSET D, NEW v \in D,
         NEW n \in Nat, NEW capacity \in Nat,
         NEW s \in SamplesAfter(sample, n, capacity, v)
  PROVE  /\ s \in SUBSET D /\ v \in s
         /\ s \subseteq Before(sample, v.step) \cup {v}
         /\ \A e \in s : e.step <= v.step
         /\ n < capacity => s = Before(sample, v.step) \cup {v}
<1>1. \/ s = Before(sample, v.step) \cup {v}
      \/ n >= capacity /\ \E lost : s = (Before(sample, v.step) \ {lost}) \cup {v}
  BY DEF SamplesAfter
<1>2. s \subseteq Before(sample, v.step) \cup {v} /\ v \in s
  BY <1>1
<1>3. Before(sample, v.step) \in SUBSET D
      /\ \A e \in Before(sample, v.step) : e.step <= v.step
  BY DEF Before
<1>4. n < capacity => s = Before(sample, v.step) \cup {v}
  BY <1>1
<1> QED
  BY <1>2, <1>3, <1>4

\* What a client does, which is never to the series.
ClientAction(c) ==
  \/ List(c) \/ ReservoirCall(c)
  \/ \E tag \in Tags : Metadata(c, tag) \/ Sample(c, tag) \/ GetLast(c, tag)

(***************************************************************************)
(* The steps there are.                                                    *)
(***************************************************************************)
LEMMA Steps ==
  ASSUME [Next]_vars
  PROVE  SwallowError \/ IngestDatum \/ OfferDatum \/ UNCHANGED vars
           \/ \E c \in Clients : ClientAction(c)
BY Zenon DEF Next, ClientAction

(***************************************************************************)
(* Calls only read the maps.                                               *)
(***************************************************************************)
LEMMA ClientsRead ==
  ASSUME NEW c \in Clients, ClientAction(c)
  PROVE  UNCHANGED <<stream, received, mds, data, offering>>
BY Zenon DEF ClientAction, List, ReservoirCall, Metadata, Sample, GetLast, Return

(***************************************************************************)
(* What is received is the next result.                                    *)
(***************************************************************************)
LEMMA Receiving ==
  ASSUME Types, NEW kind, Receive(kind)
  PROVE  /\ received + 1 \in 1 .. Len(VR) /\ received' = received + 1
         /\ VR[received + 1].kind = kind /\ Incoming = VR[received + 1]
         /\ offering = NoDatum
<1>1. ValueResults = VR /\ Incoming = VR[received + 1]
  BY WhatIsSent DEF Types, Incoming
<1>2. Len(VR) \in Nat
  BY ResultTypes DEF Types, VR
<1> HIDE DEF VR
<1> QED
  BY <1>1, <1>2 DEF Types, Receive

(***************************************************************************)
(* The metadata that ingestDatum goes by is that of a value in the stream. *)
(***************************************************************************)
LEMMA MetadataKnown ==
  ASSUME Types, MetadataOfFirst, Receive("value")
  PROVE  /\ Incoming \in Datums(stream) /\ Incoming.id = received + 1
         /\ Incoming.kind = "value" /\ Incoming # NoDatum
         /\ MetadataFor(Incoming) \in MetasOf(ValuesIn(stream))
<1> DEFINE d == Incoming
<1>1. /\ received + 1 \in 1 .. Len(VR) /\ VR[received + 1].kind = "value"
      /\ d = VR[received + 1]
  BY Receiving
<1>2. \A i \in 1 .. Len(VR) : VR[i].kind = "value" =>
        VR[i] \in Datums(stream) /\ VR[i].id = i /\ VR[i] # NoDatum
  BY ResultTypes DEF Types, VR
<1>3. \A i \in 1 .. Len(VR) : VR[i].kind = "value" =>
        VR[i].meta \in MetasOf(ValuesIn(stream))
  BY <1>2 DEF Datums
<1>4. received \in Nat /\ 1 .. received \subseteq 1 .. Len(VR)
  BY <1>1 DEF Types
<1> HIDE DEF VR, d
<1>5. CASE d.tag \in DOMAIN mds
  <2>1. PICK i \in 1 .. received : VR[i].kind = "value" /\ mds[d.tag] = VR[i].meta
    BY <1>5 DEF MetadataOfFirst, FirstOf
  <2>2. mds[d.tag] \in MetasOf(ValuesIn(stream))
    BY <1>3, <1>4, <2>1
  <2> QED
    BY <1>1, <1>2, <1>5, <2>2 DEF MetadataFor, d
<1>6. CASE d.tag \notin DOMAIN mds
  BY <1>1, <1>2, <1>3, <1>6 DEF MetadataFor, d
<1> QED
  BY <1>5, <1>6

-----------------------------------------------------------------------------
(***************************************************************************)
(* What an offer makes of the series.                                      *)
(***************************************************************************)
LEMMA OfferEffect ==
  ASSUME Types, SeriesOfTags, OfferDatum
  PROVE  /\ offering = VR[received] /\ received \in 1 .. Len(VR)
         /\ offering \in Datums(stream) /\ offering.tag \in DOMAIN data
         /\ \E s \in SamplesAfter(data[offering.tag].sample, data[offering.tag].offered,
                                  data[offering.tag].capacity, offering) :
              data' = Put(data, offering.tag,
                          Reservoir(s, data[offering.tag].offered + 1,
                                    data[offering.tag].capacity))
<1>1. Len(VR) \in Nat
  BY ResultTypes DEF Types, VR
<1>2. /\ offering = VR[received] /\ received \in 1 .. Len(VR)
      /\ offering.kind = "value" /\ offering.tag \in DOMAIN data
  BY <1>1 DEF OfferDatum, Types, SeriesOfTags
<1>3. offering \in Datums(stream)
  BY <1>2, ResultTypes DEF Types, VR
<1> QED
  BY <1>2, <1>3, Zenon DEF OfferDatum

(***************************************************************************)
(* At first nothing has been received, and nobody does anything.           *)
(***************************************************************************)
LEMMA InitHolds == Init => IInv
<1> SUFFICES ASSUME Init
             PROVE  IInv
  OBVIOUS
<1> USE DEF Init
<1>1. Types
  <2>1. Len(VR) \in Nat
    BY ResultTypes DEF VR
  <2>2. received \in 0 .. Len(VR)
    BY <2>1
  <2>3. data \in [DOMAIN data -> Series] /\ DOMAIN data = {}
    OBVIOUS
  <2>4. NoCall \in Call
    BY DEF Call
  <2>5. /\ calls \in [Clients -> Call]
        /\ DOMAIN answer = Clients /\ DOMAIN listed = Clients
    BY <2>4
  <2> QED
    BY <2>2, <2>3, <2>5, Zenon DEF Types
<1>2. Locking
  BY ClientsAssumption DEF Locking, NoCall
<1>3. SeriesOfTags /\ Listing /\ ListedTagHasData /\ Followed
  <2>1. DOMAIN data = {} /\ DOMAIN mds = {}
    OBVIOUS
  <2>2. \A c \in Clients : calls[c] = NoCall /\ DOMAIN listed[c] = {}
    OBVIOUS
  <2>3. \A c \in Clients : answer[c].op = "none"
    BY DEF NoAnswer
  <2>4. Followed
    BY <2>1, Zenon DEF Followed
  <2>5. SeriesOfTags /\ Listing
    BY <2>1, <2>2, Zenon DEF SeriesOfTags, Listing
  <2>6. ListedTagHasData
    BY <2>3 DEF ListedTagHasData
  <2> QED
    BY <2>4, <2>5, <2>6
<1>4. MetadataOfFirst
  <2>1. 1 .. 0 = {}
    OBVIOUS
  <2> QED
    BY <2>1 DEF MetadataOfFirst, FirstOf
<1>5. MdsIsMap
  BY DEF MdsIsMap
<1> QED
  BY <1>1, <1>2, <1>3, <1>4, <1>5 DEF IInv

(***************************************************************************)
(* Types.                                                                  *)
(***************************************************************************)
LEMMA TypesStep ==
  ASSUME Types, SeriesOfTags, MetadataOfFirst, [Next]_vars
  PROVE  Types'
<1>1. stream' = stream /\ VR' = VR
  BY Zenon DEF Next, SwallowError, IngestDatum, OfferDatum, List, ReservoirCall, Metadata,
     Sample, GetLast, Return, vars, VR
<1>2. Len(VR) \in Nat
  BY ResultTypes DEF Types, VR
<1> DEFINE Rest == /\ mu \in {"free", "ingest"} \cup Clients
                   /\ calls \in [Clients -> Call]
                   /\ DOMAIN answer = Clients /\ DOMAIN listed = Clients
           Ingest == /\ received \in 0 .. Len(VR)
                     /\ data \in [DOMAIN data -> [sample : SUBSET Datums(stream),
                                                  offered : Nat, capacity : Nat]]
                     /\ offering # NoDatum =>
                          /\ received >= 1 /\ offering = VR[received]
                          /\ offering.kind = "value"
<1>t. Types <=> stream \in Streams /\ Rest /\ Ingest
  BY DEF Types, Series
<1>u. Types' <=> stream' \in Streams /\ Rest' /\ Ingest'
  BY DEF Types, Series
<1> HIDE DEF VR
<1>3. CASE SwallowError
  <2>1. received + 1 \in 1 .. Len(VR) /\ received' = received + 1 /\ offering = NoDatum
    BY <1>3, Receiving DEF SwallowError
  <2>2. received' \in 0 .. Len(VR)
    BY <1>2, <2>1
  <2>3. Ingest'
    BY <1>1, <1>3, <1>t, <2>1, <2>2 DEF SwallowError
  <2>4. Rest'
    BY <1>3, <1>t DEF SwallowError
  <2> QED
    BY <1>1, <1>t, <1>u, <2>3, <2>4
<1>4. CASE IngestDatum
  <2> DEFINE d == Incoming
             md == MetadataFor(d)
             rsv == Reservoir({}, 0, CapacityOf(md.class))
  <2>1. /\ received + 1 \in 1 .. Len(VR) /\ received' = received + 1 /\ offering = NoDatum
        /\ d = VR[received + 1] /\ VR[received + 1].kind = "value"
    BY <1>4, Receiving DEF IngestDatum
  <2>2. CapacityOf(md.class) \in Nat
    BY <1>4, MetadataKnown, MetaClass DEF IngestDatum, Types
  <2>3. received' \in 0 .. Len(VR) /\ received' >= 1
    BY <1>2, <2>1
  <2>4. \/ UNCHANGED <<data, mu, offering>>
        \/ data' = PutNew(data, d.tag, rsv) /\ mu' = "ingest" /\ offering' = d
    BY <1>4, Zenon DEF IngestDatum
  <2>5. Rest'
    <3>1. UNCHANGED <<calls, answer, listed>>
      BY <1>4 DEF IngestDatum
    <3> QED
      BY <1>t, <2>4, <3>1
  <2> HIDE DEF d, md
  <2>6. rsv \in [sample : SUBSET Datums(stream), offered : Nat, capacity : Nat]
    BY <2>2 DEF Reservoir
  <2> HIDE DEF rsv
  <2>7. Ingest'
    <3>1. CASE UNCHANGED <<data, mu, offering>>
      BY <1>1, <1>t, <2>1, <2>3, <3>1
    <3>2. CASE data' = PutNew(data, d.tag, rsv) /\ mu' = "ingest" /\ offering' = d
      <4>1. data' \in [DOMAIN data' -> [sample : SUBSET Datums(stream),
                                       offered : Nat, capacity : Nat]]
        BY <1>t, <2>6, <3>2 DEF PutNew, Put
      <4>2. /\ received' >= 1 /\ offering' = VR[received']
            /\ offering'.kind = "value"
        BY <2>1, <2>3, <3>2
      <4> QED
        BY <1>1, <2>3, <4>1, <4>2
    <3> QED
      BY <2>4, <3>1, <3>2
  <2> QED
    BY <1>1, <1>t, <1>u, <2>5, <2>7
<1>5. CASE OfferDatum
  <2> DEFINE o == offering.tag
             rsv == data[o]
  <2>1. /\ o \in DOMAIN data /\ offering \in Datums(stream)
        /\ \E s \in SamplesAfter(rsv.sample, rsv.offered, rsv.capacity, offering) :
             data' = Put(data, o, Reservoir(s, rsv.offered + 1, rsv.capacity))
    BY <1>5, OfferEffect, Zenon
  <2>2. PICK s \in SamplesAfter(rsv.sample, rsv.offered, rsv.capacity, offering) :
          data' = Put(data, o, Reservoir(s, rsv.offered + 1, rsv.capacity))
    BY <2>1
  <2>3. rsv \in [sample : SUBSET Datums(stream), offered : Nat, capacity : Nat]
    BY <1>t, <2>1
  <2>4. s \in SUBSET Datums(stream)
    <3>1. \A d \in Datums(stream) : d.step \in Int
      BY DEF Datums
    <3> QED
      BY <2>1, <2>3, <3>1, AfterOffer
  <2>5. data' \in [DOMAIN data' -> [sample : SUBSET Datums(stream),
                                   offered : Nat, capacity : Nat]]
    <3> DEFINE r == Reservoir(s, rsv.offered + 1, rsv.capacity)
    <3>1. r \in [sample : SUBSET Datums(stream), offered : Nat, capacity : Nat]
      BY <2>3, <2>4 DEF Reservoir
    <3> HIDE DEF r
    <3> QED
      BY <1>t, <2>2, <3>1 DEF Put, r
  <2>6. Ingest'
    BY <1>1, <1>5, <1>t, <2>5 DEF OfferDatum
  <2>7. Rest'
    BY <1>5, <1>t DEF OfferDatum
  <2> QED
    BY <1>1, <1>t, <1>u, <2>6, <2>7
<1>6. ASSUME NEW c \in Clients, ClientAction(c)
      PROVE  Types'
  <2>1. UNCHANGED <<stream, received, mds, data, offering>>
    BY <1>6, ClientsRead
  <2>2. mu' \in {"free", "ingest"} \cup Clients
    BY <1>6, <1>t, Zenon DEF ClientAction, List, ReservoirCall, Metadata, Sample, GetLast
  <2>3. DOMAIN answer' = Clients /\ DOMAIN listed' = Clients
    <3>1. answer' = answer \/ \E a : answer' = [answer EXCEPT ![c] = a]
      BY <1>6, Zenon DEF ClientAction, List, ReservoirCall, Metadata, Sample, GetLast, Return
    <3>2. listed' = listed \/ listed' = [listed EXCEPT ![c] = mds]
      BY <1>6, Zenon DEF ClientAction, List, ReservoirCall, Metadata, Sample, GetLast
    <3> QED
      BY <1>t, <3>1, <3>2
  <2>4. calls' \in [Clients -> Call]
    <3>1. \/ calls' = calls
          \/ calls' = [calls EXCEPT ![c] = NoCall]
          \/ \E op \in {"Sample", "Last"}, tag \in Tags :
               calls' = [calls EXCEPT ![c] = [op |-> op, tag |-> tag]]
      BY <1>6, Zenon DEF ClientAction, List, ReservoirCall, Metadata, Sample, GetLast
    <3>2. \A op \in {"Sample", "Last"}, tag \in Tags : [op |-> op, tag |-> tag] \in Call
      BY DEF Call
    <3>3. NoCall \in Call
      BY DEF Call
    <3> HIDE DEF Call, NoCall
    <3> QED
      BY <1>t, <3>1, <3>2, <3>3
  <2>5. Rest'
    BY <2>2, <2>3, <2>4
  <2>6. Ingest'
    BY <1>1, <1>t, <2>1
  <2> QED
    BY <1>1, <1>t, <1>u, <2>5, <2>6
<1>7. CASE UNCHANGED vars
  <2>1. Rest' /\ Ingest'
    BY <1>1, <1>7, <1>t DEF vars
  <2> QED
    BY <1>1, <1>t, <1>u, <2>1
<1> QED
  BY <1>3, <1>4, <1>5, <1>6, <1>7, Steps

-----------------------------------------------------------------------------
(***************************************************************************)
(* The lock is taken when it is free, and released by who has it.          *)
(***************************************************************************)
LEMMA LockingStep ==
  ASSUME Types, MetadataOfFirst, Locking, [Next]_vars
  PROVE  Locking'
<1>n. NoCall.op = "none" /\ NoDatum = NoDatum
  BY DEF NoCall
<1>c. "ingest" \notin Clients /\ "free" \notin Clients /\ calls \in [Clients -> Call]
  BY ClientsAssumption DEF Types
<1> HIDE DEF NoDatum
<1>1. CASE SwallowError \/ UNCHANGED vars
  <2>1. UNCHANGED <<mu, offering, calls>>
    BY <1>1, Zenon DEF SwallowError, vars, Receive
  <2>2. offering' = offering
    BY <2>1
  <2> QED
    BY <2>1, <2>2 DEF Locking
<1>2. CASE IngestDatum
  <2>1. calls' = calls /\ mu = "free" /\ offering = NoDatum /\ Incoming # NoDatum
    BY <1>2, MetadataKnown, Receiving DEF IngestDatum
  <2>2. \/ mu' = mu /\ offering' = offering
        \/ mu' = "ingest" /\ offering' = Incoming
    BY <1>2, Zenon DEF IngestDatum
  <2> HIDE DEF Incoming
  <2> QED
    BY <1>c, <2>1, <2>2 DEF Locking
<1>3. CASE OfferDatum
  <2>1. mu' = "free" /\ offering' = NoDatum /\ calls' = calls /\ offering # NoDatum
    BY <1>3, Zenon DEF OfferDatum
  <2> QED
    BY <1>c, <2>1 DEF Locking
<1>4. ASSUME NEW c \in Clients, ClientAction(c)
      PROVE  Locking'
  <2>1. offering' = offering
    BY <1>4, ClientsRead
  <2>2. \/ mu' = mu /\ calls' = calls
        \/ /\ mu = "free" /\ calls[c] = NoCall /\ mu' = c
           /\ \E tag : calls' = [calls EXCEPT ![c] = [op |-> "Sample", tag |-> tag]]
        \/ /\ calls[c] = NoCall /\ mu' = mu
           /\ \E tag : calls' = [calls EXCEPT ![c] = [op |-> "Last", tag |-> tag]]
        \/ calls[c].op = "Sample" /\ mu' = "free" /\ calls' = [calls EXCEPT ![c] = NoCall]
        \/ calls[c].op = "Last" /\ mu' = mu /\ calls' = [calls EXCEPT ![c] = NoCall]
    BY <1>4, Zenon DEF ClientAction, List, ReservoirCall, Metadata, Sample, GetLast, Lockable
  <2> HIDE DEF NoCall, Call
  <2> QED
    BY <1>c, <1>n, <2>1, <2>2 DEF Locking
<1> QED
  BY <1>1, <1>2, <1>3, <1>4, Steps

(***************************************************************************)
(* A tag gets the metadata of its first value, and keeps it.               *)
(***************************************************************************)
LEMMA MetadataStep ==
  ASSUME Types, MetadataOfFirst, [Next]_vars
  PROVE  MetadataOfFirst' /\ \A tag \in DOMAIN mds : /\ tag \in DOMAIN mds'
                                                     /\ mds'[tag] = mds[tag]
<1>1. VR' = VR
  BY Zenon DEF Next, SwallowError, IngestDatum, OfferDatum, List, ReservoirCall, Metadata,
     Sample, GetLast, Return, vars, VR
<1>2. received \in Nat
  BY DEF Types
<1>3. CASE SwallowError
  <2>1. VR[received + 1].kind = "error" /\ received' = received + 1 /\ mds' = mds
    BY <1>3, Receiving DEF SwallowError
  <2> HIDE DEF VR
  <2>2. FirstOf(mds, VR, received + 1)
    BY <1>2, <2>1, FirstOfError DEF MetadataOfFirst
  <2> QED
    BY <1>1, <2>1, <2>2 DEF MetadataOfFirst
<1>4. CASE IngestDatum
  <2> DEFINE d == VR[received + 1]
  <2>1. d.kind = "value" /\ received' = received + 1 /\ Incoming = d
    BY <1>4, Receiving DEF IngestDatum
  <2>2. mds' = PutNew(mds, d.tag, MetadataFor(d))
    BY <1>4, <2>1 DEF IngestDatum
  <2>3. mds' = PutNew(mds, d.tag, d.meta)
    BY <2>2 DEF PutNew, MetadataFor
  <2> HIDE DEF VR
  <2>4. FirstOf(mds', VR, received + 1)
    BY <1>2, <2>1, <2>3, FirstOfPut DEF MetadataOfFirst
  <2>5. \A tag \in DOMAIN mds : tag \in DOMAIN mds' /\ mds'[tag] = mds[tag]
    BY <2>3 DEF PutNew, Put
  <2> QED
    BY <1>1, <2>1, <2>4, <2>5 DEF MetadataOfFirst
<1>5. ASSUME UNCHANGED <<received, mds>>
      PROVE  MetadataOfFirst' /\ \A tag \in DOMAIN mds : /\ tag \in DOMAIN mds'
                                                         /\ mds'[tag] = mds[tag]
  BY <1>1, <1>5 DEF MetadataOfFirst
<1>6. UNCHANGED <<received, mds>> \/ SwallowError \/ IngestDatum
  BY Steps, ClientsRead, Zenon DEF OfferDatum, vars
<1> QED
  BY <1>3, <1>4, <1>5, <1>6

(***************************************************************************)
(* A tag gets a series with its first datum, and only then; what has been  *)
(* offered stays offered.                                                  *)
(***************************************************************************)
LEMMA SeriesOfTagsStep ==
  ASSUME Types, Locking, MetadataOfFirst, SeriesOfTags, [Next]_vars
  PROVE  /\ SeriesOfTags'
         /\ \A tag \in DOMAIN data : /\ tag \in DOMAIN data'
                                     /\ data[tag].offered > 0 => data'[tag].offered > 0
<1> DEFINE Tagged == DOMAIN data = {tag \in DOMAIN mds : mds[tag] # NoMeta}
           Hand == offering # NoDatum => offering.tag \in DOMAIN data
           Capacity == \A tag \in DOMAIN data : data[tag].capacity = CapacityOf(mds[tag].class)
           Filled == \A tag \in DOMAIN data :
             \/ data[tag].offered > 0 /\ Greatest(data[tag].sample)
             \/ InHand(tag) /\ data[tag].offered = 0 /\ data[tag].sample = {}
           Calling == \A c \in Clients :
             calls[c] # NoCall => /\ calls[c].tag \in DOMAIN data
                                  /\ data[calls[c].tag].offered > 0
           Grows == \A tag \in DOMAIN data :
                      /\ tag \in DOMAIN data'
                      /\ data[tag].offered > 0 => data'[tag].offered > 0
<1>s. /\ SeriesOfTags <=> Tagged /\ Hand /\ Capacity /\ Filled /\ Calling
      /\ SeriesOfTags' <=> Tagged' /\ Hand' /\ Capacity' /\ Filled' /\ Calling'
  BY Zenon DEF SeriesOfTags
<1>t. data \in [DOMAIN data -> Series]
  BY DEF Types
<1>1. CASE IngestDatum
  <2> DEFINE d == Incoming
             md == MetadataFor(d)
             rsv == Reservoir({}, 0, CapacityOf(md.class))
  <2>1. /\ offering = NoDatum /\ d # NoDatum /\ calls' = calls
        /\ mds' = PutNew(mds, d.tag, md)
        /\ \/ md = NoMeta /\ UNCHANGED <<data, offering>>
           \/ md # NoMeta /\ data' = PutNew(data, d.tag, rsv) /\ offering' = d
    BY <1>1, MetadataKnown, Receiving, Zenon DEF IngestDatum
  <2>2. d.tag \in DOMAIN mds => md = mds[d.tag]
    BY DEF MetadataFor
  <2>3. /\ DOMAIN mds' = DOMAIN mds \cup {d.tag}
        /\ \A tag \in DOMAIN mds : mds'[tag] = mds[tag]
        /\ mds'[d.tag] = md
    BY <2>1, <2>2 DEF PutNew, Put
  <2> HIDE DEF d, md, NoMeta, NoDatum
  <2>4. CASE md = NoMeta /\ UNCHANGED <<data, offering>>
    <3>1. Tagged' /\ Hand' /\ Capacity'
      BY <1>s, <2>3, <2>4
    <3>2. Filled' /\ Calling' /\ Grows
      BY <1>s, <2>1, <2>4 DEF InHand
    <3> QED
      BY <1>s, <3>1, <3>2
  <2>5. CASE md # NoMeta /\ data' = PutNew(data, d.tag, rsv) /\ offering' = d
    <3>1. rsv.offered = 0 /\ rsv.sample = {} /\ rsv.capacity = CapacityOf(md.class)
      BY DEF Reservoir
    <3> HIDE DEF rsv
    <3>2. /\ DOMAIN data' = DOMAIN data \cup {d.tag}
          /\ \A tag \in DOMAIN data : data'[tag] = data[tag]
          /\ d.tag \notin DOMAIN data => data'[d.tag] = rsv
      BY <2>5 DEF PutNew, Put
    <3>3. Tagged' /\ Hand'
      BY <1>s, <2>3, <2>5, <3>2
    <3>4. Capacity'
      BY <1>s, <2>3, <3>1, <3>2
    <3>5. \A tag \in DOMAIN data : data[tag].offered > 0 /\ Greatest(data[tag].sample)
      BY <1>s, <2>1 DEF InHand
    <3>6. \A tag \in DOMAIN data' : tag \in DOMAIN data \/ (tag = d.tag /\ tag \notin DOMAIN data)
      BY <3>2
    <3>7. Filled'
      BY <2>1, <2>5, <3>1, <3>2, <3>5, <3>6 DEF InHand
    <3>8. Calling' /\ Grows
      BY <1>s, <2>1, <3>2
    <3> QED
      BY <1>s, <3>3, <3>4, <3>7, <3>8
  <2> QED
    BY <2>1, <2>4, <2>5
<1>2. CASE OfferDatum
  <2> DEFINE o == offering.tag
  <2>1. /\ o \in DOMAIN data /\ offering \in Datums(stream)
        /\ \E s \in SamplesAfter(data[o].sample, data[o].offered, data[o].capacity, offering) :
             data' = Put(data, o, Reservoir(s, data[o].offered + 1, data[o].capacity))
    BY <1>2, OfferEffect, Zenon
  <2>2. mds' = mds /\ calls' = calls /\ offering' = NoDatum
    BY <1>2 DEF OfferDatum
  <2>3. PICK s \in SamplesAfter(data[o].sample, data[o].offered, data[o].capacity, offering) :
          data' = Put(data, o, Reservoir(s, data[o].offered + 1, data[o].capacity))
    BY <2>1
  <2>4. data[o] \in [sample : SUBSET Datums(stream), offered : Nat, capacity : Nat]
    BY <1>t, <2>1 DEF Series
  <2>5. offering \in s /\ \A e \in s : e.step <= offering.step
    <3>1. \A d \in Datums(stream) : d.step \in Int
      BY DEF Datums
    <3> QED
      BY <2>1, <2>4, <3>1, AfterOffer
  <2>6. Greatest(s)
    BY <2>5 DEF Greatest
  <2> HIDE DEF o, NoDatum, NoMeta
  <2>7. /\ DOMAIN data' = DOMAIN data
        /\ \A tag \in DOMAIN data : tag # o => data'[tag] = data[tag]
        /\ data'[o].offered = data[o].offered + 1 /\ data'[o].capacity = data[o].capacity
        /\ data'[o].sample = s
    BY <2>1, <2>3 DEF Put, Reservoir
  <2>8. Tagged' /\ Hand' /\ Capacity'
    BY <1>s, <2>2, <2>7
  <2>9. data'[o].offered > 0
    BY <2>4, <2>7
  <2>10. \A tag \in DOMAIN data : tag # o => data[tag].offered > 0 /\ Greatest(data[tag].sample)
    BY <1>s DEF InHand, o
  <2>11. Filled'
    BY <2>6, <2>7, <2>9, <2>10
  <2>12. Calling' /\ Grows
    BY <1>s, <2>2, <2>7, <2>9
  <2> QED
    BY <1>s, <2>8, <2>11, <2>12
<1>3. ASSUME UNCHANGED <<mds, data, offering>>, Calling'
      PROVE  SeriesOfTags' /\ Grows
  <2>1. Tagged' /\ Hand' /\ Capacity' /\ Filled' /\ Grows
    BY <1>3, <1>s DEF InHand
  <2> QED
    BY <1>3, <1>s, <2>1
<1>4. CASE SwallowError \/ UNCHANGED vars
  <2>1. UNCHANGED <<mds, data, offering, calls>>
    BY <1>4, Zenon DEF SwallowError, Receive, vars
  <2>2. Calling'
    BY <1>s, <2>1
  <2> QED
    BY <1>3, <2>1, <2>2
<1>5. ASSUME NEW c \in Clients, ClientAction(c)
      PROVE  SeriesOfTags' /\ Grows
  <2>1. UNCHANGED <<mds, data, offering>>
    BY <1>5, ClientsRead
  <2>2. \/ calls' = calls
        \/ calls' = [calls EXCEPT ![c] = NoCall]
        \/ /\ mu = "free"
           /\ \E tag \in DOMAIN data, op \in {"Sample", "Last"} :
                calls' = [calls EXCEPT ![c] = [op |-> op, tag |-> tag]]
    BY <1>5, Zenon DEF ClientAction, List, ReservoirCall, Metadata, Sample, GetLast, Lockable
  <2>3. calls \in [Clients -> Call]
    BY DEF Types
  <2>4. mu = "free" => \A tag \in DOMAIN data : data[tag].offered > 0
    BY <1>s DEF Locking, InHand
  <2> HIDE DEF NoCall, Call
  <2>5. Calling'
    BY <1>s, <2>1, <2>2, <2>3, <2>4
  <2> QED
    BY <1>3, <2>1, <2>5
<1> QED
  BY <1>1, <1>2, <1>4, <1>5, Steps

-----------------------------------------------------------------------------
(***************************************************************************)
(* A client lists the tags while nothing is being ingested; from then on   *)
(* they keep their metadata, and their data.                               *)
(***************************************************************************)
LEMMA ListingStep ==
  ASSUME Types, Locking, MetadataOfFirst, SeriesOfTags, Listing, [Next]_vars
  PROVE  Listing'
<1>1. /\ \A tag \in DOMAIN mds : tag \in DOMAIN mds' /\ mds'[tag] = mds[tag]
      /\ \A tag \in DOMAIN data : /\ tag \in DOMAIN data'
                                  /\ data[tag].offered > 0 => data'[tag].offered > 0
  BY MetadataStep, SeriesOfTagsStep
<1>2. DOMAIN data = {tag \in DOMAIN mds : mds[tag] # NoMeta}
  BY DEF SeriesOfTags
<1>3. \/ listed' = listed
      \/ \E c \in Clients : /\ mu = "free" /\ mds' = mds /\ data' = data
                            /\ listed' = [listed EXCEPT ![c] = mds]
  <2>1. ASSUME NEW c \in Clients, ClientAction(c)
        PROVE  \/ listed' = listed
               \/ mu = "free" /\ listed' = [listed EXCEPT ![c] = mds]
    BY <2>1, Zenon DEF ClientAction, List, ReservoirCall, Metadata, Sample, GetLast, Lockable
  <2>2. \A c \in Clients : ClientAction(c) => mds' = mds /\ data' = data
    BY ClientsRead
  <2>3. SwallowError \/ IngestDatum \/ OfferDatum \/ UNCHANGED vars => listed' = listed
    BY Zenon DEF SwallowError, IngestDatum, OfferDatum, vars
  <2> QED
    BY <2>1, <2>2, <2>3, Steps, Zenon
<1>4. mu = "free" => \A tag \in DOMAIN data : data[tag].offered > 0
  BY DEF Locking, SeriesOfTags, InHand
<1>5. DOMAIN listed = Clients
  BY DEF Types
<1> HIDE DEF NoMeta
<1>6. CASE listed' = listed
  BY <1>1, <1>2, <1>6 DEF Listing
<1>7. CASE \E c \in Clients : /\ mu = "free" /\ mds' = mds /\ data' = data
                             /\ listed' = [listed EXCEPT ![c] = mds]
  BY <1>2, <1>4, <1>5, <1>7 DEF Listing
<1> QED
  BY <1>3, <1>6, <1>7

(***************************************************************************)
(* Sample and Last find data where a listed tag has metadata.              *)
(***************************************************************************)
LEMMA ListedStep ==
  ASSUME Types, SeriesOfTags, Listing, ListedTagHasData, [Next]_vars
  PROVE  ListedTagHasData'
<1> DEFINE Fine(a, l) == (/\ a.op \in {"Sample", "Last"}
                          /\ a.tag \in DOMAIN l /\ l[a.tag] # NoMeta) => a.value # {}
           Answer(op, tag, value) == [op |-> op, tag |-> tag, value |-> value]
<1>f. /\ ListedTagHasData <=> \A c \in Clients : Fine(answer[c], listed[c])
      /\ ListedTagHasData' <=> \A c \in Clients : Fine(answer'[c], listed'[c])
  BY DEF ListedTagHasData
<1>1. CASE SwallowError \/ IngestDatum \/ OfferDatum \/ UNCHANGED vars
  <2>1. UNCHANGED <<answer, listed>>
    BY <1>1, Zenon DEF SwallowError, IngestDatum, OfferDatum, vars
  <2> QED
    BY <2>1 DEF ListedTagHasData
<1>2. ASSUME NEW c \in Clients, ClientAction(c)
      PROVE  ListedTagHasData'
  <2>0. DOMAIN answer = Clients /\ DOMAIN listed = Clients
    BY DEF Types
  <2>1. ASSUME NEW a, answer' = [answer EXCEPT ![c] = a], listed' = listed,
               Fine(a, listed[c])
        PROVE  ListedTagHasData'
    <3> HIDE DEF Fine
    <3> QED
      BY <1>f, <2>0, <2>1
  <2>2. CASE List(c)
    <3>1. /\ answer' = [answer EXCEPT ![c] = Answer("List", "", mds)]
          /\ listed' = [listed EXCEPT ![c] = mds]
      BY <2>2, Zenon DEF List, Return
    <3>2. Fine(answer'[c], listed'[c])
      BY <2>0, <3>1
    <3>3. \A d \in Clients : d # c => answer'[d] = answer[d] /\ listed'[d] = listed[d]
      BY <2>0, <3>1
    <3> HIDE DEF Fine
    <3> QED
      BY <1>f, <3>2, <3>3
  <2>3. CASE \E tag \in Tags : Metadata(c, tag)
    <3>1. PICK tag, value : answer' = [answer EXCEPT ![c] = Answer("Metadata", tag, value)]
                            /\ listed' = listed
      BY <2>3, Zenon DEF Metadata, Return
    <3> QED
      BY <2>1, <3>1
  <2>4. ASSUME NEW tag \in Tags, Sample(c, tag) \/ GetLast(c, tag)
        PROVE  ListedTagHasData'
    <3>1. listed' = listed
      BY <2>4, Zenon DEF Sample, GetLast
    <3>2. \/ answer' = answer
          \/ /\ tag \notin DOMAIN data
             /\ \E op \in {"Sample", "Last"} : answer' = [answer EXCEPT ![c] = Answer(op, tag, {})]
      BY <2>4, Zenon DEF Sample, GetLast, Return
    <3>3. tag \notin DOMAIN data => ~(tag \in DOMAIN listed[c] /\ listed[c][tag] # NoMeta)
      BY DEF Listing, SeriesOfTags
    <3>4. CASE answer' = answer
      BY <1>f, <3>1, <3>4
    <3>5. CASE /\ tag \notin DOMAIN data
               /\ \E op \in {"Sample", "Last"} : answer' = [answer EXCEPT ![c] = Answer(op, tag, {})]
      BY <2>1, <3>1, <3>3, <3>5
    <3> QED
      BY <3>2, <3>4, <3>5
  <2>5. CASE ReservoirCall(c)
    <3> DEFINE sample == data[calls[c].tag].sample
    <3>1. PICK op, value : /\ answer' = [answer EXCEPT ![c] = Answer(op, calls[c].tag, value)]
                           /\ listed' = listed /\ calls[c] # NoCall
                           /\ value = sample \/ value = {d \in sample : d = LastOf(sample)}
      BY <2>5, Zenon DEF ReservoirCall, Return
    <3>2. calls[c].tag \in DOMAIN data /\ data[calls[c].tag].offered > 0
      BY <3>1 DEF SeriesOfTags
    <3>3. Greatest(sample)
      BY <3>2 DEF SeriesOfTags
    <3> HIDE DEF sample
    <3>4. LastOf(sample) \in sample
      BY <3>3 DEF Greatest, LastOf
    <3>5. value # {}
      BY <3>1, <3>4
    <3> HIDE DEF NoCall
    <3> QED
      BY <2>1, <3>1, <3>5
  <2> QED
    BY <1>2, <2>2, <2>3, <2>4, <2>5 DEF ClientAction
<1> QED
  BY <1>1, <1>2, Steps

-----------------------------------------------------------------------------
(***************************************************************************)
(* Followed says what SeriesFollowStream says, and more.                   *)
(***************************************************************************)
LEMMA FollowedMeans ==
  ASSUME Types, Followed
  PROVE  SeriesFollowStream
<1>1. \A tag : Ingested(tag) = Own(VR, received, offering, tag)
  BY WhatIsSent, Zenon DEF Ingested, Own, Types
<1>2. ValueResults = VR
  BY WhatIsSent DEF Types
<1> HIDE DEF VR
<1> QED
  BY <1>1, <1>2, Zenon DEF SeriesFollowStream, Follows, Followed

(***************************************************************************)
(* A record is offered that comes after all others of its series.          *)
(***************************************************************************)
LEMMA FollowsOffer ==
  ASSUME NEW sample, NEW rs, NEW capacity \in Nat, NEW n \in Nat, NEW own \in SUBSET (1 .. n),
         NEW k \in Nat, n < k, \A i \in own \cup {k} : rs[i].step \in Int,
         Follows(sample, rs, own, capacity),
         NEW s \in SamplesAfter(sample, Cardinality(own), capacity, rs[k])
  PROVE  /\ Cardinality(own \cup {k}) = Cardinality(own) + 1
         /\ Follows(s, rs, own \cup {k}, capacity)
<1>1. Cardinality(own) \in Nat /\ Cardinality(own \cup {k}) = Cardinality(own) + 1
  <2>1. IsFiniteSet(1 .. n)
    BY FS_Interval
  <2>2. IsFiniteSet(own)
    BY <2>1, FS_Subset
  <2>3. k \notin own
    OBVIOUS
  <2> QED
    BY <2>2, <2>3, FS_AddElement, FS_CardinalityType
<1> DEFINE D == {rs[i] : i \in own \cup {k}}
           c == Cardinality(own)
<1>2. /\ s \in SUBSET D /\ rs[k] \in s
      /\ s \subseteq Before(sample, rs[k].step) \cup {rs[k]}
      /\ c < capacity => s = Before(sample, rs[k].step) \cup {rs[k]}
  <2>1. \A d \in D : d.step \in Int
    OBVIOUS
  <2>2. sample \in SUBSET D /\ rs[k] \in D
    BY DEF Follows
  <2> HIDE DEF D
  <2>3. c \in Nat
    BY <1>1
  <2> QED
    BY <2>1, <2>2, <2>3, AfterOffer
<1>3. \A i \in own \cup {k} : (\A j \in own \cup {k} : j <= i) => rs[i] \in s
  <2>1. \A i \in own : ~(k <= i)
    OBVIOUS
  <2> QED
    BY <1>2, <2>1
<1>4. ASSUME c + 1 <= capacity, NEW i \in own \cup {k}
      PROVE  rs[i] \in s \/ \E j \in own \cup {k} : j > i /\ rs[j].step <= rs[i].step
  <2>1. CASE i = k
    BY <1>2, <2>1
  <2>2. CASE i \in own
    <3>1. k > i
      BY <2>2
    <3>2. CASE rs[k].step <= rs[i].step
      BY <3>1, <3>2
    <3>3. CASE rs[i].step < rs[k].step
      <4>1. s = Before(sample, rs[k].step) \cup {rs[k]}
        BY <1>1, <1>2, <1>4
      <4>2. c <= capacity
        BY <1>1, <1>4
      <4>3. rs[i] \in sample \/ \E j \in own : j > i /\ rs[j].step <= rs[i].step
        BY <2>2, <4>2 DEF Follows
      <4>4. rs[i] \in sample => rs[i] \in s
        BY <3>3, <4>1 DEF Before
      <4> QED
        BY <4>3, <4>4
    <3>4. rs[k].step \in Int /\ rs[i].step \in Int
      BY <2>2
    <3>5. rs[k].step <= rs[i].step \/ rs[i].step < rs[k].step
      BY <3>4
    <3> QED
      BY <3>2, <3>3, <3>5
  <2> QED
    BY <2>1, <2>2
<1> HIDE DEF c
<1>5. Cardinality(own \cup {k}) <= capacity =>
        \A i \in own \cup {k} : \/ rs[i] \in s
                              \/ \E j \in own \cup {k} : j > i /\ rs[j].step <= rs[i].step
  BY <1>1, <1>4 DEF c
<1> QED
  BY <1>1, <1>2, <1>3, <1>5 DEF Follows

(***************************************************************************)
(* Every value of a tag that has a series is offered to it, in the order   *)
(* of the stream.                                                          *)
(***************************************************************************)
LEMMA FollowedStep ==
  ASSUME Types, Locking, MetadataOfFirst, SeriesOfTags, Followed, [Next]_vars
  PROVE  Followed'
<1>v. VR' = VR
  BY Zenon DEF Next, SwallowError, IngestDatum, OfferDatum, List, ReservoirCall, Metadata,
     Sample, GetLast, Return, vars, VR
<1>r. /\ Len(VR) \in Nat
      /\ \A i \in 1 .. Len(VR) : VR[i].kind = "value" =>
           VR[i] \in Datums(stream) /\ VR[i].id = i /\ VR[i] # NoDatum /\ VR[i].step \in Int
  <2>1. \A d \in Datums(stream) : d.step \in Int
    BY DEF Datums
  <2> QED
    BY <2>1, ResultTypes DEF Types, VR
<1>n. received \in Nat /\ 1 .. received \subseteq 1 .. Len(VR)
  BY <1>r DEF Types
<1> HIDE DEF VR, NoDatum, NoMeta
<1> DEFINE Good1(tag, d, m, own) ==
             /\ d[tag].offered = Cardinality(own)
             /\ Follows(d[tag].sample, VR, own, CapacityOf(m[tag].class))
           O == [tag \in DOMAIN data |-> Own(VR, received, offering, tag)]
<1>f. \A tag \in DOMAIN data : Good1(tag, data, mds, Own(VR, received, offering, tag))
  BY DEF Followed
<1>g. Followed' <=>
        \A tag \in DOMAIN data' : Good1(tag, data', mds', Own(VR, received', offering', tag))
  BY <1>v DEF Followed
<1>m. \A tag \in DOMAIN data : tag \in DOMAIN mds /\ mds'[tag] = mds[tag]
  BY MetadataStep DEF SeriesOfTags
<1>i. 1 .. received + 1 = (1 .. received) \cup {received + 1}
  BY <1>n
<1>1. CASE SwallowError
  <2>1. /\ VR[received + 1].kind = "error" /\ received' = received + 1
        /\ UNCHANGED <<data, mds, offering>>
    BY <1>1, Receiving, Zenon DEF SwallowError, Receive
  <2>2. \A tag : Own(VR, received', offering', tag) = Own(VR, received, offering, tag)
    BY <1>i, <2>1 DEF Own
  <2> HIDE DEF Good1
  <2> QED
    BY <1>f, <1>g, <2>1, <2>2
<1>2. CASE IngestDatum
  <2> DEFINE d == VR[received + 1]
             md == MetadataFor(d)
             rsv == Reservoir({}, 0, CapacityOf(md.class))
  <2>1. /\ received + 1 \in 1 .. Len(VR) /\ received' = received + 1 /\ d.kind = "value"
        /\ Incoming = d /\ offering = NoDatum
    BY <1>2, Receiving DEF IngestDatum
  <2>2. /\ mds' = PutNew(mds, d.tag, md)
        /\ \/ md = NoMeta /\ UNCHANGED <<data, offering>>
           \/ md # NoMeta /\ data' = PutNew(data, d.tag, rsv) /\ offering' = d
    BY <1>2, <2>1, Zenon DEF IngestDatum
  <2>3. d.tag \in DOMAIN mds => md = mds[d.tag]
    BY DEF MetadataFor
  <2>4. \A i \in 1 .. received : VR[i].kind = "value" => VR[i] # d /\ VR[i] # NoDatum
    <3>1. \A i \in 1 .. received : VR[i].kind = "value" => VR[i].id = i /\ VR[i] # NoDatum
      BY <1>n, <1>r
    <3>2. d.id = received + 1
      BY <1>r, <2>1
    <3>3. \A i \in 1 .. received : i # received + 1
      BY <1>n
    <3> QED
      BY <3>1, <3>2, <3>3
  <2>5. d # NoDatum
    BY <1>r, <2>1
  <2> HIDE DEF d, md, Good1
  <2>6. CASE md = NoMeta /\ UNCHANGED <<data, offering>>
    <3>1. d.tag \notin DOMAIN data
      <4>1. DOMAIN data = {tag \in DOMAIN mds : mds[tag] # NoMeta}
        BY DEF SeriesOfTags
      <4> QED
        BY <2>3, <2>6, <4>1
    <3>2. \A tag \in DOMAIN data : Own(VR, received', offering', tag)
                                     = Own(VR, received, offering, tag)
      BY <1>i, <2>1, <2>6, <3>1 DEF Own, d
    <3>3. \A tag \in DOMAIN data : Good1(tag, data', mds', Own(VR, received', offering', tag))
      BY <1>f, <1>m, <2>6, <3>2 DEF Good1
    <3> QED
      BY <1>g, <2>6, <3>3
  <2>7. CASE md # NoMeta /\ data' = PutNew(data, d.tag, rsv) /\ offering' = d
    <3>1. \A tag : Own(VR, received', offering', tag) = Own(VR, received, offering, tag)
      <4> SUFFICES ASSUME NEW tag
                   PROVE  Own(VR, received', d, tag) = Own(VR, received, NoDatum, tag)
        BY <2>1, <2>7
      <4>1. Own(VR, received', d, tag) = {i \in 1 .. received : VR[i].kind = "value" /\ VR[i].tag = tag /\ VR[i] # d}
        BY <1>i, <2>1 DEF Own, d
      <4> QED
        BY <2>4, <4>1 DEF Own
    <3>2. /\ DOMAIN data' = DOMAIN data \cup {d.tag}
          /\ \A tag \in DOMAIN data : data'[tag] = data[tag]
          /\ d.tag \notin DOMAIN data => data'[d.tag] = rsv
      BY <2>7 DEF PutNew, Put
    <3>3. \A tag \in DOMAIN data : Good1(tag, data', mds', Own(VR, received', offering', tag))
      BY <1>f, <1>m, <3>1, <3>2 DEF Good1
    <3>4. ASSUME d.tag \notin DOMAIN data
          PROVE  Good1(d.tag, data', mds', Own(VR, received', offering', d.tag))
      <4>1. d.tag \notin DOMAIN mds
        <5>1. DOMAIN data = {tag \in DOMAIN mds : mds[tag] # NoMeta}
          BY DEF SeriesOfTags
        <5> QED
          BY <2>3, <2>7, <3>4, <5>1
      <4>2. \A i \in 1 .. received : VR[i].kind = "value" => VR[i].tag # d.tag
        <5>1. DOMAIN mds = {VR[i].tag : i \in {j \in 1 .. received : VR[j].kind = "value"}}
          BY Zenon DEF MetadataOfFirst, FirstOf
        <5> QED
          BY <4>1, <5>1
      <4>3. Own(VR, received', offering', d.tag) = {}
        BY <3>1, <4>2 DEF Own
      <4>4. data'[d.tag].offered = 0 /\ data'[d.tag].sample = {}
        BY <3>2, <3>4 DEF Reservoir
      <4>5. Cardinality({}) = 0
        BY FS_EmptySet
      <4>6. \A c : Follows({}, VR, {}, c)
        BY DEF Follows
      <4> QED
        BY <4>3, <4>4, <4>5, <4>6 DEF Good1
    <3> QED
      BY <1>g, <3>2, <3>3, <3>4
  <2> QED
    BY <2>2, <2>6, <2>7
<1>3. CASE OfferDatum
  <2> DEFINE o == offering.tag
             own == Own(VR, received, offering, o)
             capacity == CapacityOf(mds[o].class)
  <2>1. /\ o \in DOMAIN data /\ offering = VR[received] /\ received \in 1 .. Len(VR)
        /\ offering.kind = "value"
        /\ \E s \in SamplesAfter(data[o].sample, data[o].offered, data[o].capacity, offering) :
             data' = Put(data, o, Reservoir(s, data[o].offered + 1, data[o].capacity))
    <3>1. offering.kind = "value"
      BY <1>3 DEF OfferDatum, Types
    <3> QED
      BY <1>3, <3>1, OfferEffect, Zenon
  <2>2. mds' = mds /\ offering' = NoDatum /\ received' = received
    BY <1>3, Zenon DEF OfferDatum
  <2>3. PICK s \in SamplesAfter(data[o].sample, data[o].offered, data[o].capacity, offering) :
          data' = Put(data, o, Reservoir(s, data[o].offered + 1, data[o].capacity))
    BY <2>1
  <2>4. /\ data[o].offered = Cardinality(own) /\ data[o].capacity = capacity
        /\ Follows(data[o].sample, VR, own, capacity)
        /\ data[o].capacity \in Nat
    BY <1>f, <2>1 DEF Types, Series, SeriesOfTags
  <2>5. \A i \in 1 .. received - 1 : VR[i].kind = "value" => VR[i] # offering
    <3>1. \A i \in 1 .. received - 1 : i \in 1 .. Len(VR) /\ i # received
      BY <1>n, <1>r, <2>1
    <3>2. offering.id = received
      BY <1>r, <2>1
    <3>3. \A i \in 1 .. Len(VR) : VR[i].kind = "value" => VR[i].id = i
      BY <1>r
    <3> QED
      BY <3>1, <3>2, <3>3
  <2>6. received - 1 \in Nat /\ received - 1 < received
        /\ 1 .. received = (1 .. received - 1) \cup {received}
    BY <2>1, <1>n
  <2>7. own = {i \in 1 .. received - 1 : VR[i].kind = "value" /\ VR[i].tag = o}
    BY <2>1, <2>5, <2>6 DEF Own
  <2>8. \A i \in 1 .. received : VR[i].kind = "value" => VR[i].step \in Int /\ VR[i] # NoDatum
    BY <1>n, <1>r
  <2> HIDE DEF Good1
  <2>9. Own(VR, received', offering', o) = own \cup {received}
    BY <2>1, <2>2, <2>6, <2>7, <2>8 DEF Own
  <2>10. \A tag : tag # o => Own(VR, received', offering', tag) = Own(VR, received, offering, tag)
    <3> SUFFICES ASSUME NEW tag, tag # o
                 PROVE  Own(VR, received, NoDatum, tag) = Own(VR, received, offering, tag)
      BY <2>2
    <3>1. \A i \in 1 .. received : VR[i].kind = "value" /\ VR[i].tag = tag => VR[i] # offering
      OBVIOUS
    <3> QED
      BY <2>8, <3>1 DEF Own
  <2> HIDE DEF own, capacity, o
  <2>11. /\ Cardinality(own \cup {received}) = Cardinality(own) + 1
         /\ Follows(s, VR, own \cup {received}, capacity)
    <3>1. own \in SUBSET (1 .. received - 1)
      BY <2>7
    <3>2. \A i \in own \cup {received} : VR[i].step \in Int
      BY <2>1, <2>6, <2>7, <2>8
    <3>3. /\ s \in SamplesAfter(data[o].sample, Cardinality(own), capacity, VR[received])
          /\ capacity \in Nat
      BY <2>1, <2>3, <2>4
    <3>4. \A smp, vrs : \A cap \in Nat, n \in Nat : \A ow \in SUBSET (1 .. n) : \A k \in Nat :
            n < k /\ (\A i \in ow \cup {k} : vrs[i].step \in Int) /\ Follows(smp, vrs, ow, cap) =>
              \A t \in SamplesAfter(smp, Cardinality(ow), cap, vrs[k]) :
                /\ Cardinality(ow \cup {k}) = Cardinality(ow) + 1
                /\ Follows(t, vrs, ow \cup {k}, cap)
      BY FollowsOffer, ZenonT(40)
    <3>5. received \in Nat
      BY DEF Types
    <3>6. \A ow \in SUBSET (1 .. received - 1) :
            /\ \A i \in ow \cup {received} : VR[i].step \in Int
            /\ Follows(data[o].sample, VR, ow, capacity)
            => \A t \in SamplesAfter(data[o].sample, Cardinality(ow), capacity, VR[received]) :
                 /\ Cardinality(ow \cup {received}) = Cardinality(ow) + 1
                 /\ Follows(t, VR, ow \cup {received}, capacity)
      BY <2>6, <3>3, <3>4, <3>5
    <3>7. Follows(data[o].sample, VR, own, capacity)
      BY <2>4
    <3> QED
      BY <3>1, <3>2, <3>3, <3>6, <3>7, Zenon
  <2>12. /\ DOMAIN data' = DOMAIN data
         /\ \A tag \in DOMAIN data : tag # o => data'[tag] = data[tag]
         /\ data'[o].offered = data[o].offered + 1 /\ data'[o].sample = s
    BY <2>1, <2>3 DEF Put, Reservoir
  <2>13. Good1(o, data', mds', Own(VR, received', offering', o))
    BY <2>2, <2>4, <2>9, <2>11, <2>12 DEF Good1, capacity
  <2>14. ASSUME NEW tag \in DOMAIN data, tag # o
         PROVE  Good1(tag, data', mds', Own(VR, received', offering', tag))
    BY <1>f, <2>2, <2>10, <2>12, <2>14 DEF Good1
  <2> QED
    BY <1>g, <2>12, <2>13, <2>14
<1>4. ASSUME UNCHANGED <<received, mds, data, offering>>
      PROVE  Followed'
  BY <1>4, <1>v DEF Followed
<1>5. UNCHANGED <<received, mds, data, offering>> \/ SwallowError \/ IngestDatum \/ OfferDatum
  BY Steps, ClientsRead, Zenon DEF vars
<1> QED
  BY <1>1, <1>2, <1>3, <1>4, <1>5
(***************************************************************************)
(* It stays a map.                                                         *)
(***************************************************************************)
LEMMA MapStep ==
  ASSUME MdsIsMap, [Next]_vars
  PROVE  MdsIsMap'
<1>1. mds' = mds \/ \E d, m : mds' = PutNew(mds, d, m)
  BY Zenon DEF Next, SwallowError, IngestDatum, OfferDatum, List, ReservoirCall, Metadata,
     Sample, GetLast, Return, vars
<1> QED
  BY <1>1 DEF MdsIsMap, PutNew, Put

-----------------------------------------------------------------------------
(***************************************************************************)
(* The inductive invariant.                                                *)
(***************************************************************************)
LEMMA StepHolds ==
  ASSUME IInv, [Next]_vars
  PROVE  IInv'
<1> USE DEF IInv
<1>1. Types' /\ Locking' /\ MetadataOfFirst'
  BY TypesStep, LockingStep, MetadataStep
<1>2. SeriesOfTags' /\ Listing' /\ ListedTagHasData'
  BY SeriesOfTagsStep, ListingStep, ListedStep
<1>3. Followed'
  BY FollowedStep
<1>4. MdsIsMap'
  BY MapStep
<1> QED
  BY <1>1, <1>2, <1>3, <1>4

(***************************************************************************)
(* The invariant holds of every reachable state.                           *)
(***************************************************************************)
THEOREM Inductive == Spec => []IInv
<1>1. Init => IInv
  BY InitHolds
<1>2. IInv /\ [Next]_vars => IInv'
  BY StepHolds
<1> QED
  BY <1>1, <1>2, PTL DEF Spec

(***************************************************************************)
(* The metadata of the accumulator is part of that of the reader: both     *)
(* keep the first of each tag.                                             *)
(***************************************************************************)
LEMMA PartOfReaders ==
  ASSUME Types, MetadataOfFirst
  PROVE  /\ DOMAIN mds \subseteq DOMAIN ReaderMds
         /\ \A tag \in DOMAIN mds : mds[tag] = ReaderMds[tag]
<1>1. FirstOf(ReaderMds, VR, Len(VR))
  BY WhatIsSent, ResultsGood DEF Types, Good, VR
<1>2. Len(VR) \in Nat
  BY ResultTypes DEF Types, VR
<1>3. received \in Nat /\ received <= Len(VR)
  BY <1>2 DEF Types
<1> HIDE DEF VR
<1> QED
  BY <1>1, <1>2, <1>3, FirstOfAgree DEF MetadataOfFirst

(***************************************************************************)
(* The types hold, and the lock is held by whoever is inside it: by        *)
(* ingestion from the check of the metadata to the end of the offer, by    *)
(* Sample across the call of the reservoir.                                *)
(***************************************************************************)
THEOREM TypeCorrect == Spec => []TypeOK
<1>1. IInv => TypeOK
  <2> SUFFICES ASSUME IInv
               PROVE  TypeOK
    OBVIOUS
  <2>1. received \in 0 .. Len(ValueResults) /\ mu \in {"free", "ingest"} \cup Clients
    BY WhatIsSent DEF IInv, Types
  <2>2. DOMAIN data \subseteq DOMAIN mds
    BY DEF IInv, SeriesOfTags
  <2>3. DOMAIN mds \subseteq DOMAIN ReaderMds
    BY PartOfReaders DEF IInv
  <2> QED
    BY <2>1, <2>2, <2>3, Zenon DEF TypeOK, IInv, Locking
<1> QED
  BY <1>1, Inductive, PTL

(***************************************************************************)
(* A tag that a handler has listed with metadata has data whenever it is   *)
(* asked for, whatever was ingested in between.                            *)
(***************************************************************************)
THEOREM ListedThenFound == Spec => []ListedTagHasData
<1>1. IInv => ListedTagHasData
  BY DEF IInv
<1> QED
  BY <1>1, Inductive, PTL

(***************************************************************************)
(* The accumulator lists a tag with the metadata by which the reader       *)
(* migrates its values.                                                    *)
(***************************************************************************)
THEOREM OneMetadata == Spec => []AgreesWithReader
<1>1. IInv => AgreesWithReader
  BY PartOfReaders DEF IInv, AgreesWithReader
<1> QED
  BY <1>1, Inductive, PTL

(***************************************************************************)
(* Each series holds values of its tag, the last one among them, and all   *)
(* that are not preempted while they fit.                                  *)
(***************************************************************************)
THEOREM SeriesFollow == Spec => []SeriesFollowStream
<1>1. IInv => SeriesFollowStream
  BY FollowedMeans DEF IInv
<1> QED
  BY <1>1, Inductive, PTL

(***************************************************************************)
(* The number of values that a shape of one or two dimensions says.        *)
(***************************************************************************)
Product == INSTANCE LeftFold WITH Op <- Times
LEMMA Products ==
  /\ FoldLeft(Times, 1, <<>>) = 1
  /\ \A n \in Nat, m \in Nat : /\ FoldLeft(Times, 1, <<n>>) = n
                              /\ FoldLeft(Times, 1, <<n, m>>) = n * m
<1>1. \A base, seq : FoldLeft(Times, base, seq) = Product!Fold(base, seq)
  BY DEF FoldLeft, MapThenFoldSet, Max, Product!Fold, Product!Folding, Product!Greatest
<1>2. Product!Fold(1, <<>>) = 1
  BY Product!FoldEmpty
<1>3. \A s \in Seq(Nat), n \in Nat : Product!Fold(1, Append(s, n)) = Times(Product!Fold(1, s), n)
  BY Product!FoldAppend
<1>4. \A n \in Nat, m \in Nat :
        /\ <<>> \in Seq(Nat) /\ <<n>> \in Seq(Nat)
        /\ Append(<<>>, n) = <<n>> /\ Append(<<n>>, m) = <<n, m>>
  <2> SUFFICES ASSUME NEW n \in Nat, NEW m \in Nat
               PROVE  /\ <<>> \in Seq(Nat) /\ <<n>> \in Seq(Nat)
                      /\ Append(<<>>, n) = <<n>> /\ Append(<<n>>, m) = <<n, m>>
    OBVIOUS
  <2>1. <<>> \in Seq(Nat) /\ <<n>> \in Seq(Nat)
    BY EmptySeq
  <2>2. Append(<<>>, n) = <<n>>
    OBVIOUS
  <2>3. Append(<<n>>, m) = <<n, m>>
    <3> DEFINE s == <<n>>
               t == <<n, m>>
    <3>1. s \in Seq(Nat) /\ Len(s) = 1 /\ s[1] = n
      BY <2>1
    <3>2. t \in Seq(Nat) /\ Len(t) = 2 /\ t[1] = n /\ t[2] = m
      OBVIOUS
    <3> HIDE DEF s, t
    <3>3. /\ Append(s, m) \in Seq(Nat) /\ Len(Append(s, m)) = 2
          /\ Append(s, m)[1] = n /\ Append(s, m)[2] = m
      <4>1. \A q \in Seq(Nat), e \in Nat :
              /\ Append(q, e) \in Seq(Nat) /\ Len(Append(q, e)) = Len(q) + 1
              /\ \A i \in 1 .. Len(q) : Append(q, e)[i] = q[i]
              /\ Append(q, e)[Len(q) + 1] = e
        BY AppendProperties
      <4>2. 1 + 1 = 2 /\ 1 \in 1 .. 1
        OBVIOUS
      <4>3. /\ Append(s, m) \in Seq(Nat) /\ Len(Append(s, m)) = Len(s) + 1
            /\ \A i \in 1 .. Len(s) : Append(s, m)[i] = s[i]
            /\ Append(s, m)[Len(s) + 1] = m
        BY <3>1, <4>1, Zenon
      <4> QED
        BY <3>1, <4>2, <4>3
    <3> DEFINE u == Append(s, m)
    <3> HIDE DEF u
    <3>4. u = t
      BY <3>2, <3>3, SeqEqual DEF u
    <3> QED
      BY <3>4 DEF s, t, u
  <2> QED
    BY <2>1, <2>2, <2>3
<1>5. \A n \in Nat : Product!Fold(1, <<n>>) = Times(1, n)
  BY <1>2, <1>3, <1>4, Zenon
<1>6. \A n \in Nat, m \in Nat : Product!Fold(1, <<n, m>>) = Times(Times(1, n), m)
  BY <1>3, <1>4, <1>5, Zenon
<1>7. \A n \in Nat, m \in Nat : Times(1, n) = n /\ Times(Times(1, n), m) = n * m
  BY DEF Times
<1>8. FoldLeft(Times, 1, <<>>) = 1
  BY <1>1, <1>2, Zenon
<1>9. ASSUME NEW n \in Nat, NEW m \in Nat
      PROVE  FoldLeft(Times, 1, <<n>>) = n /\ FoldLeft(Times, 1, <<n, m>>) = n * m
  <2>1. Product!Fold(1, <<n>>) = n /\ Product!Fold(1, <<n, m>>) = n * m
    BY <1>5, <1>6, <1>7
  <2> QED
    BY <1>1, <2>1, Zenon
<1> QED
  BY <1>8, <1>9, Zenon

(***************************************************************************)
(* What HistogramsWhole says of a tensor.                                  *)
(***************************************************************************)
WholeTensor(t, what, h) ==
  LET cell(i, k) == t.vals[3 * (i - 1) + k]
      n == Len(t.vals) \div 3
  IN  /\ what \in {"simple", "image", "histo", "graph"} =>
           Len(t.vals) = FoldLeft(Times, 1, t.dims)
      /\ what = "histo" /\ n > 0 =>
           /\ cell(1, 1) = h.min /\ cell(n, 2) = h.max
           /\ \A i \in 1 .. n - 1 : cell(i, 2) = cell(i + 1, 1)
           /\ \A i \in 1 .. n : cell(i, 3) = h.counts[i]

(***************************************************************************)
(* It is so of whatever becomes of a value.                                *)
(***************************************************************************)
LEMMA TensorsWhole ==
  ASSUME NEW v, v.what = "histo" => \E S : Histogram(v.data, S)
  PROVE  WholeTensor(TensorOf(v), v.what, v.data)
<1> DEFINE t == TensorOf(v)
           size == FoldLeft(Times, 1, t.dims)
<1>1. CASE v.what = "histo"
  <2>1. PICK S : Histogram(v.data, S)
    BY <1>1
  <2> DEFINE h == v.data
             n == Buckets(h)
  <2>2. t = HistogramTensor(h)
    BY <1>1 DEF TensorOf
  <2> HIDE DEF t, h
  <2>3. /\ t.dims = <<n, 3>> /\ Len(t.vals) = 3 * n
        /\ \A i \in 1 .. n : /\ t.vals[3 * (i - 1) + 1] = Lefts(h)[i]
                             /\ t.vals[3 * (i - 1) + 2] = Rights(h)[i]
                             /\ t.vals[3 * (i - 1) + 3] = h.counts[i]
    BY <2>1, <2>2, RowsOfHistogram DEF h
  <2>4. n \in Nat
    BY <2>1, BucketsOf DEF h
  <2>5. n > 0 => /\ Lefts(h)[1] = h.min /\ Rights(h)[n] = h.max
                 /\ \A i \in 1 .. n - 1 : Rights(h)[i] = Lefts(h)[i + 1]
    BY <2>1, Edges DEF h
  <2> HIDE DEF n
  <2>6. Len(t.vals) \div 3 = n /\ n * 3 = 3 * n
    BY <2>3, <2>4
  <2>7. size = Len(t.vals)
    <3>1. \A k \in Nat : FoldLeft(Times, 1, <<k, 3>>) = k * 3
      BY Products
    <3> QED
      BY <2>3, <2>4, <2>6, <3>1, Zenon
  <2>8. n > 0 =>
          /\ t.vals[3 * (1 - 1) + 1] = h.min /\ t.vals[3 * (n - 1) + 2] = h.max
          /\ \A i \in 1 .. n - 1 : t.vals[3 * (i - 1) + 2] = t.vals[3 * (i + 1 - 1) + 1]
          /\ \A i \in 1 .. n : t.vals[3 * (i - 1) + 3] = h.counts[i]
    <3>1. n > 0 => 1 \in 1 .. n /\ n \in 1 .. n
      BY <2>4
    <3>2. \A i \in 1 .. n - 1 : i \in 1 .. n /\ i + 1 \in 1 .. n
      BY <2>4
    <3> QED
      BY <2>3, <2>5, <3>1, <3>2
  <2>9. \A q : q = n =>
          (q > 0 =>
             /\ t.vals[3 * (1 - 1) + 1] = h.min /\ t.vals[3 * (q - 1) + 2] = h.max
             /\ \A i \in 1 .. q - 1 : t.vals[3 * (i - 1) + 2] = t.vals[3 * (i + 1 - 1) + 1]
             /\ \A i \in 1 .. q : t.vals[3 * (i - 1) + 3] = h.counts[i])
    BY <2>8, Zenon
  <2>10. WholeTensor(t, v.what, h)
    <3> DEFINE q == Len(t.vals) \div 3
    <3>1. q > 0 =>
             /\ t.vals[3 * (1 - 1) + 1] = h.min /\ t.vals[3 * (q - 1) + 2] = h.max
             /\ \A i \in 1 .. q - 1 : t.vals[3 * (i - 1) + 2] = t.vals[3 * (i + 1 - 1) + 1]
             /\ \A i \in 1 .. q : t.vals[3 * (i - 1) + 3] = h.counts[i]
      BY <2>6, <2>9, Zenon
    <3>2. Len(t.vals) = FoldLeft(Times, 1, t.dims)
      BY <2>7
    <3> QED
      BY <3>1, <3>2 DEF WholeTensor
  <2> QED
    BY <2>10, Zenon DEF t, h
<1>2. CASE v.what # "histo"
  <2>1. ASSUME v.what \in {"simple", "image", "graph"}
        PROVE  Len(t.vals) = size
    <3>1. CASE v.what = "simple"
      <4>1. t.dims = <<>> /\ Len(t.vals) = 1
        BY <3>1 DEF TensorOf
      <4> QED
        BY <4>1, Products, Zenon
    <3>2. CASE v.what = "image"
      <4>1. t.dims = <<3>> /\ Len(t.vals) = 3 /\ 3 \in Nat
        BY <3>2 DEF TensorOf
      <4> QED
        BY <4>1, Products, Zenon
    <3>3. CASE v.what = "graph"
      <4>1. t.dims = <<1>> /\ Len(t.vals) = 1 /\ 1 \in Nat
        BY <3>3 DEF TensorOf, GraphTensor
      <4> QED
        BY <4>1, Products, Zenon
    <3> QED
      BY <2>1, <3>1, <3>2, <3>3
  <2> HIDE DEF t
  <2> QED
    BY <1>2, <2>1 DEF WholeTensor, t
<1> QED
  BY <1>1, <1>2

(***************************************************************************)
(* The rows of every stored histogram adjoin each other from the least     *)
(* value to the greatest, and every tensor made of an older format has as  *)
(* many values as its shape says.                                          *)
(***************************************************************************)
THEOREM Tensors == Spec => []HistogramsWhole
<1>1. IInv => HistogramsWhole
  <2> SUFFICES ASSUME IInv, NEW tag \in DOMAIN data, NEW d \in data[tag].sample
               PROVE  WholeTensor(d.tensor, d.from.what, d.from.data)
    BY Zenon DEF HistogramsWhole, WholeTensor
  <2>1. /\ VR \in Seq(Sent(stream)) /\ Numbered(VR)
        /\ \A i \in 1 .. Len(VR) : VR[i].kind = "value" => VR[i] \in Datums(stream)
    BY ResultsGood, ResultTypes DEF IInv, Types, Good, VR
  <2>2. PICK i \in 1 .. Len(VR) : d = VR[i] /\ VR[i].kind = "value"
    <3>1. d \in {VR[i] : i \in Own(VR, received, offering, tag)}
      BY DEF IInv, Followed, Follows
    <3>2. 1 .. received \subseteq 1 .. Len(VR)
      <4>1. Len(VR) \in Nat
        BY <2>1, LenProperties
      <4> QED
        BY <4>1 DEF IInv, Types
    <3> QED
      BY <3>1, <3>2 DEF Own
  <2>3. d.tensor = TensorOf(d.from) /\ d.from \in ValuesIn(stream)
    BY <2>1, <2>2 DEF Numbered, Datums
  <2>4. d.from.what = "histo" => \E S : Histogram(d.from.data, S)
    <3> SUFFICES ASSUME d.from.what = "histo"
                 PROVE  \E S : Histogram(d.from.data, S)
      OBVIOUS
    <3> DEFINE h == d.from.data
               S == (ToSet(h.counts) \cup ToSet(h.limits)) \cup {h.min, h.max}
    <3>1. h.counts \in Seq(ToSet(h.counts)) /\ h.limits \in Seq(ToSet(h.limits))
      <4>1. \A v \in ValuesIn(stream) : v.what = "histo" =>
              /\ v.data.counts \in Seq(ToSet(v.data.counts))
              /\ v.data.limits \in Seq(ToSet(v.data.limits))
        BY StreamsAssumption, ZenonT(40) DEF ValuesIn, IInv, Types
      <4> QED
        BY <2>3, <4>1
    <3>2. ToSet(h.counts) \subseteq S /\ ToSet(h.limits) \subseteq S /\ h.min \in S /\ h.max \in S
      OBVIOUS
    <3> HIDE DEF S
    <3>3. h.counts \in Seq(S) /\ h.limits \in Seq(S)
      BY <3>1, <3>2, SeqMonotonic, Zenon
    <3> QED
      BY <3>2, <3>3, Zenon DEF Histogram
  <2> QED
    BY <2>3, <2>4, TensorsWhole, Zenon
<1> QED
  BY <1>1, Inductive, PTL

-----------------------------------------------------------------------------
(***************************************************************************)
(* The refinement: M and D are the maps that the calls see.                *)
(***************************************************************************)
M == [tag \in Present(mds) |-> mds[tag]]
D == [tag \in Present(data) |->
        [sample |-> data[tag].sample, offered |-> data[tag].offered]]
SeriesIn(tag) == IF tag \in DOMAIN D THEN D[tag] ELSE [sample |-> {}, offered |-> 0]

\* What the operations of the store do, in the words of this module.
Ingests(d) ==
  /\ M' = PutNew(M, d.tag, d.meta)
  /\ IF M'[d.tag] = NoMeta
     THEN D' = D
     ELSE \E s \in SamplesAfter(SeriesIn(d.tag).sample, SeriesIn(d.tag).offered,
                               CapacityOf(M'[d.tag].class), d) :
            D' = Put(D, d.tag, [sample |-> s, offered |-> SeriesIn(d.tag).offered + 1])
  /\ UNCHANGED answer
Replies(c, op, tag, value) ==
  /\ answer' = [answer EXCEPT ![c] = [op |-> op, tag |-> tag, value |-> value]]
  /\ UNCHANGED <<M, D>>

(***************************************************************************)
(* They are the same operations.                                           *)
(***************************************************************************)
LEMMA SameIngest == \A d : Ingests(d) => Store!Ingest(d)
<1>1. \A tag : Store!Series(tag) = SeriesIn(tag)
  BY DEF Store!Series, SeriesIn, D
<1>2. /\ \A m, k, x : Store!PutNew(m, k, x) = PutNew(m, k, x)
      /\ \A m, k, x : Store!Put(m, k, x) = Put(m, k, x)
  BY DEF Store!PutNew, Store!Put, PutNew, Put
<1>3. \A q, n, k, v : Store!SamplesAfter(q, n, k, v) = SamplesAfter(q, n, k, v)
  BY DEF Store!SamplesAfter, SamplesAfter, Store!Before, Before
<1>4. \A d : Store!Ingest(d) <=>
        /\ M' = Store!PutNew(M, d.tag, d.meta)
        /\ IF M'[d.tag] = NoMeta
           THEN D' = D
           ELSE \E s \in Store!SamplesAfter(Store!Series(d.tag).sample,
                                            Store!Series(d.tag).offered,
                                            CapacityOf(M'[d.tag].class), d) :
                  D' = Store!Put(D, d.tag, [sample |-> s, offered |-> Store!Series(d.tag).offered + 1])
        /\ UNCHANGED answer
  BY DEF Store!Ingest, M, D
<1> QED
  BY <1>1, <1>2, <1>3, <1>4 DEF Ingests

(***************************************************************************)
(* And so are the calls.                                                   *)
(***************************************************************************)
LEMMA SameReply ==
  /\ \A c : Replies(c, "List", "", M) => Store!List(c)
  /\ \A c, tag :
       /\ Replies(c, "Metadata", tag, IF tag \in DOMAIN M THEN M[tag] ELSE NoMeta)
            => Store!Metadata(c, tag)
       /\ Replies(c, "Sample", tag, SeriesIn(tag).sample) => Store!Sample(c, tag)
       /\ Replies(c, "Last", tag, IF tag \in DOMAIN D THEN {LastOf(SeriesIn(tag).sample)} ELSE {})
            => Store!Last(c, tag)
<1>1. \A tag : Store!Series(tag) = SeriesIn(tag)
  BY DEF Store!Series, SeriesIn, D
<1>2. \A q : Store!LastOf(q) = LastOf(q)
  BY DEF Store!LastOf, LastOf
<1>3. \A c, op, tag, value : Store!Reply(c, op, tag, value) <=> Replies(c, op, tag, value)
  BY Zenon DEF Store!Reply, Replies, M, D
<1>4. /\ \A c : Store!List(c) <=> Store!Reply(c, "List", "", M)
      /\ \A c, tag :
           /\ Store!Metadata(c, tag) <=>
                Store!Reply(c, "Metadata", tag, IF tag \in DOMAIN M THEN M[tag] ELSE NoMeta)
           /\ Store!Sample(c, tag) <=> Store!Reply(c, "Sample", tag, Store!Series(tag).sample)
           /\ Store!Last(c, tag) <=>
                Store!Reply(c, "Last", tag,
                            IF tag \in DOMAIN D THEN {Store!LastOf(Store!Series(tag).sample)}
                            ELSE {})
  BY Zenon DEF Store!List, Store!Metadata, Store!Sample, Store!Last, M, D
<1> QED
  BY <1>1, <1>2, <1>3, <1>4
(***************************************************************************)
(* At first the store is empty.                                            *)
(***************************************************************************)
LEMMA InitStore == Init => Store!Init
<1> SUFFICES ASSUME Init
             PROVE  Store!Init
  OBVIOUS
<1>1. DOMAIN M = {} /\ DOMAIN D = {}
  BY DEF Init, M, D, Present
<1>2. M = <<>> /\ D = <<>>
  BY <1>1 DEF M, D
<1>3. answer = [c \in Clients |-> Store!NoAnswer]
  BY Zenon DEF Init, NoAnswer, Store!NoAnswer
<1> QED
  BY <1>2, <1>3, Zenon DEF Store!Init, M, D

(***************************************************************************)
(* The tag whose first datum is in hand is new to the store, and is listed *)
(* as that datum says.                                                     *)
(***************************************************************************)
LEMMA FirstInHand ==
  ASSUME IInv, offering # NoDatum, data[offering.tag].offered = 0
  PROVE  mds[offering.tag] = offering.meta
<1> DEFINE o == offering.tag
<1>1. /\ o \in DOMAIN data /\ o \in DOMAIN mds
      /\ received >= 1 /\ offering = VR[received] /\ received \in Nat
      /\ offering.kind = "value"
  BY DEF IInv, SeriesOfTags, Types
<1>2. Own(VR, received, offering, o) = {}
  <2>1. Cardinality(Own(VR, received, offering, o)) = 0
    BY <1>1 DEF IInv, Followed
  <2>2. IsFiniteSet(Own(VR, received, offering, o))
    <3>0. received \in Int /\ 1 \in Int
      BY <1>1
    <3>1. IsFiniteSet(1 .. received)
      BY <3>0, FS_Interval, Zenon
    <3> QED
      BY <3>1, FS_Subset DEF Own
  <2> QED
    BY <2>1, <2>2, FS_EmptySet
<1>3. PICK i \in 1 .. received : /\ VR[i].kind = "value" /\ VR[i].tag = o
                                /\ mds[o] = VR[i].meta
  BY <1>1 DEF IInv, MetadataOfFirst, FirstOf
<1>4. VR[i] = offering
  BY <1>2, <1>3 DEF Own
<1> QED
  BY <1>3, <1>4

(***************************************************************************)
(* While nothing is in hand the calls see the maps as they are.            *)
(***************************************************************************)
LEMMA FreeView ==
  ASSUME IInv, offering = NoDatum
  PROVE  M = mds /\ DOMAIN D = DOMAIN data
BY DEF M, D, Present, IInv, MdsIsMap

(***************************************************************************)
(* Ingestion: the datum enters as it is offered, or as it is dropped.      *)
(***************************************************************************)
LEMMA IngestRefines ==
  ASSUME IInv, IngestDatum
  PROVE  Ingests(Incoming) \/ UNCHANGED <<M, D, answer>>
<1> DEFINE d == Incoming
           md == MetadataFor(d)
           rsv == Reservoir({}, 0, CapacityOf(md.class))
<1>1. /\ offering = NoDatum /\ answer' = answer
      /\ mds' = PutNew(mds, d.tag, md)
      /\ \/ md = NoMeta /\ UNCHANGED <<data, offering>>
         \/ md # NoMeta /\ data' = PutNew(data, d.tag, rsv) /\ offering' = d
  BY Zenon DEF IngestDatum, Receive
<1>2. /\ d.tag \in DOMAIN mds => md = mds[d.tag]
      /\ d.tag \notin DOMAIN mds => md = d.meta
  BY DEF MetadataFor
<1>3. d # NoDatum
  BY MetadataKnown DEF IngestDatum, IInv
<1>4. /\ DOMAIN data = {tag \in DOMAIN mds : mds[tag] # NoMeta}
      /\ \A tag \in DOMAIN data : data[tag].offered > 0
  BY <1>1 DEF IInv, SeriesOfTags, InHand
<1>5. M = mds /\ DOMAIN D = DOMAIN data
  BY <1>1, FreeView
<1> HIDE DEF d, md, rsv, NoMeta, NoDatum
<1>6. CASE md = NoMeta /\ UNCHANGED <<data, offering>>
  <2>1. M' = mds'
    BY <1>1, <1>6 DEF M, Present, IInv, MdsIsMap, PutNew, Put
  <2>2. D' = D
    BY <1>1, <1>6 DEF D, Present
  <2>3. M' = PutNew(M, d.tag, d.meta)
    BY <1>1, <1>2, <1>5, <2>1 DEF PutNew
  <2>4. M'[d.tag] = NoMeta
    BY <1>1, <1>2, <1>6, <2>1 DEF PutNew, Put
  <2> QED
    BY <1>1, <2>2, <2>3, <2>4, Zenon DEF Ingests, d
<1>7. CASE md # NoMeta /\ data' = PutNew(data, d.tag, rsv) /\ offering' = d
  <2>1. CASE d.tag \in DOMAIN data
    <3>1. mds' = mds /\ data' = data
      BY <1>1, <1>4, <1>7, <2>1 DEF PutNew
    <3>2. data'[d.tag].offered > 0
      BY <1>4, <2>1, <3>1
    <3>3. M' = M /\ D' = D
      BY <1>1, <1>3, <1>7, <3>1, <3>2 DEF M, D, Present
    <3> QED
      BY <1>1, <3>3
  <2>2. CASE d.tag \notin DOMAIN data
    <3>1. d.tag \notin DOMAIN mds
      BY <1>2, <1>4, <1>7, <2>2
    <3>2. data'[d.tag].offered = 0
      BY <1>7, <2>2 DEF PutNew, Put, rsv, Reservoir
    <3>3. /\ DOMAIN mds' = DOMAIN mds \cup {d.tag}
          /\ \A tag \in DOMAIN mds : mds'[tag] = mds[tag]
          /\ DOMAIN data' = DOMAIN data \cup {d.tag}
          /\ \A tag \in DOMAIN data : data'[tag] = data[tag]
      BY <1>1, <1>7, <2>2, <3>1 DEF PutNew, Put
    <3>4. /\ {tag \in DOMAIN mds' : d # NoDatum /\ d.tag = tag => data'[tag].offered > 0}
               = DOMAIN mds
          /\ {tag \in DOMAIN data' : d # NoDatum /\ d.tag = tag => data'[tag].offered > 0}
               = DOMAIN data
      BY <1>3, <2>2, <3>1, <3>2, <3>3
    <3>5. M' = [tag \in DOMAIN mds |-> mds[tag]]
      BY <1>7, <3>3, <3>4 DEF M, Present
    <3>6. D' = [tag \in DOMAIN data |->
                  [sample |-> data[tag].sample, offered |-> data[tag].offered]]
      BY <1>7, <3>3, <3>4 DEF D, Present
    <3>7. M = [tag \in DOMAIN mds |-> mds[tag]]
      BY <1>1 DEF M, Present
    <3>8. D = [tag \in DOMAIN data |->
                  [sample |-> data[tag].sample, offered |-> data[tag].offered]]
      BY <1>1 DEF D, Present
    <3> QED
      BY <1>1, <3>5, <3>6, <3>7, <3>8
  <2> QED
    BY <2>1, <2>2
<1> QED
  BY <1>1, <1>6, <1>7

(***************************************************************************)
(* The offer: that is when the datum enters.                               *)
(***************************************************************************)
LEMMA OfferRefines ==
  ASSUME IInv, OfferDatum
  PROVE  Ingests(offering)
<1> DEFINE o == offering.tag
<1>1. /\ offering # NoDatum /\ offering' = NoDatum
      /\ mds' = mds /\ answer' = answer
  BY Zenon DEF OfferDatum
<1>2. /\ o \in DOMAIN data /\ o \in DOMAIN mds /\ mds[o] # NoMeta
      /\ DOMAIN data = {tag \in DOMAIN mds : mds[tag] # NoMeta}
      /\ data[o].capacity = CapacityOf(mds[o].class)
      /\ \A tag \in DOMAIN data : data[tag].offered > 0 \/ tag = o
      /\ data[o].offered > 0 \/ (data[o].offered = 0 /\ data[o].sample = {})
  BY <1>1 DEF IInv, SeriesOfTags, InHand
<1>3. PICK s \in SamplesAfter(data[o].sample, data[o].offered, data[o].capacity, offering) :
        data' = Put(data, o, Reservoir(s, data[o].offered + 1, data[o].capacity))
  BY OfferEffect, Zenon DEF IInv
<1>4. data[o].offered = 0 => mds[o] = offering.meta
  BY <1>1, FirstInHand
<1>5. ~(0 > 0)
  OBVIOUS
<1>6. M' = mds /\ M' = [tag \in DOMAIN mds |-> mds[tag]]
  BY <1>1 DEF M, Present, IInv, MdsIsMap
<1>7. D' = [tag \in DOMAIN data |->
              [sample |-> IF tag = o THEN s ELSE data[tag].sample,
               offered |-> IF tag = o THEN data[o].offered + 1 ELSE data[tag].offered]]
  <2>1. Present(data)' = DOMAIN data'
    BY <1>1 DEF Present
  <2>2. /\ DOMAIN data' = DOMAIN data
        /\ data'[o].sample = s /\ data'[o].offered = data[o].offered + 1
        /\ \A tag \in DOMAIN data : tag # o => data'[tag] = data[tag]
    BY <1>2, <1>3 DEF Put, Reservoir
  <2> HIDE DEF o
  <2> QED
    BY <2>1, <2>2 DEF D
<1>8. CASE data[o].offered > 0
  <2>1. Present(mds) = DOMAIN mds /\ Present(data) = DOMAIN data
    BY <1>8 DEF Present
  <2>2. M = [tag \in DOMAIN mds |-> mds[tag]]
    BY <2>1 DEF M
  <2>3. D = [tag \in DOMAIN data |->
               [sample |-> data[tag].sample, offered |-> data[tag].offered]]
    BY <2>1 DEF D
  <2>4. SeriesIn(o).sample = data[o].sample /\ SeriesIn(o).offered = data[o].offered
    BY <1>2, <2>3 DEF SeriesIn
  <2>5. M' = PutNew(M, o, offering.meta)
    BY <1>2, <1>6, <2>2 DEF PutNew
  <2>6. D' = Put(D, o, [sample |-> s, offered |-> SeriesIn(o).offered + 1])
    BY <1>2, <1>7, <2>3, <2>4 DEF Put
  <2> QED
    BY <1>1, <1>2, <1>3, <1>6, <2>4, <2>5, <2>6, Zenon DEF Ingests
<1>9. CASE data[o].offered = 0
  <2>1. /\ Present(mds) = DOMAIN mds \ {o} /\ Present(data) = DOMAIN data \ {o}
    BY <1>1, <1>2, <1>5, <1>9 DEF Present
  <2>2. M = [tag \in DOMAIN mds \ {o} |-> mds[tag]]
    BY <2>1 DEF M
  <2>3. D = [tag \in DOMAIN data \ {o} |->
               [sample |-> data[tag].sample, offered |-> data[tag].offered]]
    BY <2>1 DEF D
  <2>4. SeriesIn(o).sample = data[o].sample /\ SeriesIn(o).offered = data[o].offered
    BY <1>2, <1>9, <2>3 DEF SeriesIn
  <2>5. M' = PutNew(M, o, offering.meta)
    <3>1. /\ DOMAIN M = DOMAIN mds \ {o} /\ \A tag \in DOMAIN M : M[tag] = mds[tag]
          /\ (DOMAIN mds \ {o}) \cup {o} = DOMAIN mds
      BY <1>2, <2>2
    <3>2. mds[o] = offering.meta
      BY <1>4, <1>9
    <3> HIDE DEF o
    <3>3. PutNew(M, o, offering.meta)
            = [q \in DOMAIN mds |-> IF q = o THEN offering.meta ELSE M[q]]
      BY <3>1 DEF PutNew, Put
    <3> QED
      BY <1>6, <3>1, <3>2, <3>3
  <2>6. D' = Put(D, o, [sample |-> s, offered |-> SeriesIn(o).offered + 1])
    BY <1>2, <1>7, <2>3, <2>4 DEF Put
  <2> QED
    BY <1>1, <1>2, <1>3, <1>6, <2>4, <2>5, <2>6, Zenon DEF Ingests
<1> QED
  BY <1>2, <1>8, <1>9

(***************************************************************************)
(* A call is answered from the maps at the moment that it looks at them,   *)
(* or, if it goes on to a reservoir, from that when it is called.          *)
(***************************************************************************)
LEMMA CallRefines ==
  ASSUME IInv, NEW c \in Clients, ClientAction(c)
  PROVE  \/ UNCHANGED <<M, D, answer>>
         \/ Store!List(c)
         \/ \E tag \in Tags : Store!Metadata(c, tag) \/ Store!Sample(c, tag) \/ Store!Last(c, tag)
<1>1. UNCHANGED <<stream, received, mds, data, offering>>
  BY ClientsRead
<1>2. M' = M /\ D' = D
  BY <1>1 DEF M, D, Present
<1>3. mu = "free" => offering = NoDatum
  BY DEF IInv, Locking
<1>4. DOMAIN D = Present(data) /\ \A tag \in DOMAIN D :
        D[tag].sample = data[tag].sample
  BY DEF D
<1>5. CASE List(c)
  <2>1. mu = "free" /\ answer' = [answer EXCEPT ![c] = [op |-> "List", tag |-> "", value |-> mds]]
    BY <1>5, Zenon DEF List, Lockable, Return
  <2>2. M = mds
    BY <1>3, <2>1, FreeView
  <2> QED
    BY <1>2, <2>1, <2>2, SameReply, Zenon DEF Replies
<1>6. ASSUME NEW tag \in Tags, Metadata(c, tag)
      PROVE  Store!Metadata(c, tag)
  <2>1. /\ mu = "free"
        /\ answer' = [answer EXCEPT ![c] =
             [op |-> "Metadata", tag |-> tag,
              value |-> IF tag \in DOMAIN mds THEN mds[tag] ELSE NoMeta]]
    BY <1>6, Zenon DEF Metadata, Lockable, Return
  <2>2. M = mds
    BY <1>3, <2>1, FreeView
  <2> QED
    BY <1>2, <2>1, <2>2, SameReply, Zenon DEF Replies
<1>7. ASSUME NEW tag \in Tags, Sample(c, tag)
      PROVE  answer' = answer \/ Store!Sample(c, tag)
  <2> SUFFICES ASSUME answer' # answer
               PROVE  Store!Sample(c, tag)
    OBVIOUS
  <2>1. /\ mu = "free" /\ tag \notin DOMAIN data
        /\ answer' = [answer EXCEPT ![c] = [op |-> "Sample", tag |-> tag, value |-> {}]]
    BY <1>7, Zenon DEF Sample, Lockable, Return
  <2>2. SeriesIn(tag).sample = {}
    BY <1>3, <2>1, FreeView DEF SeriesIn
  <2> QED
    BY <1>2, <2>1, <2>2, SameReply, Zenon DEF Replies
<1>8. ASSUME NEW tag \in Tags, GetLast(c, tag)
      PROVE  answer' = answer \/ Store!Last(c, tag)
  <2> SUFFICES ASSUME answer' # answer
               PROVE  Store!Last(c, tag)
    OBVIOUS
  <2>1. /\ mu = "free" /\ tag \notin DOMAIN data
        /\ answer' = [answer EXCEPT ![c] = [op |-> "Last", tag |-> tag, value |-> {}]]
    BY <1>8, Zenon DEF GetLast, Lockable, Return
  <2>2. tag \notin DOMAIN D
    BY <1>3, <2>1, FreeView
  <2> QED
    BY <1>2, <2>1, <2>2, SameReply, Zenon DEF Replies
<1>9. CASE ReservoirCall(c)
  <2> DEFINE tag == calls[c].tag
             sample == data[tag].sample
  <2>1. /\ calls[c] # NoCall
        /\ \/ answer' = [answer EXCEPT ![c] = [op |-> "Sample", tag |-> tag, value |-> sample]]
           \/ answer' = [answer EXCEPT ![c] = [op |-> "Last", tag |-> tag,
                           value |-> {d \in sample : d = LastOf(sample)}]]
    BY <1>9, Zenon DEF ReservoirCall, Return
  <2>2. tag \in Tags
    BY <2>1 DEF IInv, Types, Call
  <2>3. /\ tag \in DOMAIN data /\ data[tag].offered > 0
        /\ Greatest(sample) \/ data[tag].offered = 0
    BY <2>1 DEF IInv, SeriesOfTags
  <2> HIDE DEF tag
  <2>4. tag \in DOMAIN D /\ SeriesIn(tag).sample = sample
    BY <1>4, <2>3 DEF Present, SeriesIn
  <2>5. Greatest(sample)
    BY <2>3
  <2> HIDE DEF sample
  <2>6. {d \in sample : d = LastOf(sample)} = {LastOf(sample)}
    BY <2>5 DEF Greatest, LastOf
  <2>7. CASE answer' = [answer EXCEPT ![c] = [op |-> "Sample", tag |-> tag, value |-> sample]]
    <3>1. Replies(c, "Sample", tag, SeriesIn(tag).sample)
      BY <1>2, <2>4, <2>7, Zenon DEF Replies
    <3> QED
      BY <2>2, <3>1, SameReply, Zenon
  <2>8. CASE answer' = [answer EXCEPT ![c] = [op |-> "Last", tag |-> tag,
                          value |-> {d \in sample : d = LastOf(sample)}]]
    <3>1. Replies(c, "Last", tag, IF tag \in DOMAIN D THEN {LastOf(SeriesIn(tag).sample)} ELSE {})
      BY <1>2, <2>4, <2>6, <2>8, Zenon DEF Replies
    <3> QED
      BY <2>2, <3>1, SameReply, Zenon
  <2> QED
    BY <2>1, <2>7, <2>8
<1> QED
  BY <1>2, <1>5, <1>6, <1>7, <1>8, <1>9, Zenon DEF ClientAction

(***************************************************************************)
(* The accumulator is a store that takes one value or answers one call at  *)
(* a time, although ingestion updates its maps before it offers the datum, *)
(* and Last looks at the reservoir without the lock.                       *)
(***************************************************************************)
THEOREM Refinement == Spec => ImplementsTagStore
<1> DEFINE Values == {r \in ToSet(ValueResults) : r.kind = "value"}
<1>1. ASSUME IInv, [Next]_vars
      PROVE  Store!Next(Values) \/ UNCHANGED Store!vars
  <2> USE <1>1
  <2>1. UNCHANGED <<M, D, answer>> => UNCHANGED Store!vars
    BY DEF Store!vars, M, D
  <2>2. \A d \in Values : Ingests(d) => Store!Next(Values)
    BY SameIngest, Zenon DEF Store!Next
  <2>3. ValueResults = VR
    BY WhatIsSent DEF IInv, Types
  <2>4. \A i \in 1 .. Len(VR) : VR[i].kind = "value" => VR[i] \in Values
    <3>1. VR \in Seq(Sent(stream))
      BY ResultsGood DEF IInv, Types, Good, VR
    <3> HIDE DEF VR
    <3>2. DOMAIN VR = 1 .. Len(VR)
      BY <3>1, LenProperties
    <3> QED
      BY <2>3, <3>2 DEF ToSet
  <2>5. CASE SwallowError \/ UNCHANGED vars
    <3>1. UNCHANGED <<mds, data, offering, answer>>
      BY <2>5, Zenon DEF SwallowError, vars
    <3>2. UNCHANGED <<M, D, answer>>
      BY <3>1 DEF M, D, Present
    <3> QED
      BY <2>1, <3>2
  <2>6. CASE IngestDatum
    <3>1. Incoming \in Values
      <4>1. Receive("value")
        BY <2>6, Zenon DEF IngestDatum
      <4>2. /\ received + 1 \in 1 .. Len(VR) /\ VR[received + 1].kind = "value"
            /\ Incoming = VR[received + 1]
        BY <4>1, Receiving DEF IInv
      <4> QED
        BY <2>4, <4>2, Zenon
    <3> QED
      BY <2>1, <2>2, <2>6, <3>1, IngestRefines, Zenon
  <2>7. CASE OfferDatum
    <3>1. offering = VR[received] /\ received \in 1 .. Len(VR)
      BY <2>7, OfferEffect DEF IInv
    <3>2. offering.kind = "value"
      BY <2>7 DEF OfferDatum, IInv, Types
    <3> QED
      BY <2>2, <2>4, <2>7, <3>1, <3>2, OfferRefines, Zenon
  <2>8. ASSUME NEW c \in Clients, ClientAction(c)
        PROVE  Store!Next(Values) \/ UNCHANGED Store!vars
    BY <2>1, <2>8, CallRefines, Zenon DEF Store!Next
  <2> QED
    BY <1>1, <2>5, <2>6, <2>7, <2>8, Steps, Zenon
<1>2. Init => Store!Init
  BY InitStore
<1> QED
  BY <1>1, <1>2, Inductive, PTL DEF Spec, ImplementsTagStore

===============================================================================
