--------------------------- MODULE DataServer_proofs ---------------------------
(***************************************************************************)
(* Proofs about the RPC handlers (server/server.go), for any directories,  *)
(* values, requests and numbers of changes on disk: whatever the loader,   *)
(* the readers and the accumulators do between the steps of a handler.     *)
(*                                                                         *)
(* The invariant says of each reader which files it can have open, and of  *)
(* each series that its sample is ordered by step as it is by place.  What *)
(* a handler has read from an accumulator stays true of it: the value is   *)
(* still there or there is a later one.                                    *)
(***************************************************************************)
EXTENDS DataServer, CommonLemmas

\* Everything that may be logged, and what becomes of it.
Values == UNION {UNION {{event.value : event \in Events(s, d)} : d \in Dirs} : s \in Scenarios}
Metas == MetasOf(Values)
Tags == TagsOf(Values)
Stores == UNION {[tags -> Metas] : tags \in SUBSET Tags}
Datum == [step : Int, dir : Dirs, at : Nat \X Nat, tag : Tags, meta : Metas,
          tensor : {TensorOf(v) : v \in Values}]
Stored == [md : Metas, sample : SUBSET Datum, offered : Nat]
Accumulators == UNION {[tags -> Stored] : tags \in SUBSET Tags}
ReaderState == [path : Dirs, doing : {"asleep", "reloading", "closed"}]
Progress == [opened : SUBSET Nat, at : Nat \X Nat, mds : Stores, sending : Seq(Datum)]

\* The types of what the loader, the readers and the accumulators share.
Types ==
  /\ scenario \in Scenarios /\ disk \subseteq Dirs /\ changes \in 0 .. MaxChanges
  /\ born \in [Dirs -> Nat] /\ gone \in [Dirs -> Nat]
  /\ found \in [stayed : SUBSET Dirs, appeared : SUBSET Dirs, on : BOOLEAN]
  /\ state \in Seq(ReaderState)
  /\ readers \in Seq(Progress) /\ Len(readers) = Len(state)
  /\ accs \in Seq(Accumulators) /\ Len(accs) = Len(state)

\* Every second change of a directory makes it again; what has gone was there.
Incarnations ==
  \A d \in Dirs :
    /\ 2 * born[d] <= changes + (IF d \in disk THEN 2 ELSE 1)
    /\ gone[d] <= born[d] /\ (d \in disk => gone[d] < born[d])

Discovering ==
  found.stayed \subseteq found.appeared /\ (found.on => found.stayed \subseteq disk)

\* The readers in the map are those that have not been closed.
Path(r) == state[r].path
Mapped ==
  /\ data = [name \in Names(data) |-> data[name]]
  /\ \A name \in Names(data) :
       /\ data[name] \in DOMAIN state /\ state[data[name]].doing # "closed"
       /\ Path(data[name]) = Logdir \o name
       /\ \E d \in Dirs : name = Rel(Logdir, d)
  /\ \A r \in DOMAIN state :
       state[r].doing # "closed" => \E name \in Names(data) : data[name] = r

\* A reader has opened nothing that had gone before it was made, or came after.
Opened ==
  \A r \in DOMAIN state :
    /\ readers[r].opened \subseteq 1 .. born[Path(r)]
    /\ \A k \in readers[r].opened : k > gone[Path(r)] <=> state[r].doing # "closed"
    /\ found.on /\ Path(r) \in disk /\ born[Path(r)] \in readers[r].opened =>
         Path(r) \in found.stayed

\* Of two places in a directory's files, p is the later one.
After(p, q) == p[1] > q[1] \/ (p[1] = q[1] /\ p[2] > q[2])

\* x is what became of a value that reader r has found where x says.
Source(x) == scenario.logged[x.dir][x.at[1]][x.at[2]]
Genuine(r, x) ==
  /\ x \in Datum /\ x.dir = Path(r) /\ x.at[1] \in readers[r].opened
  /\ x.at[2] \in 1 .. Len(scenario.logged[x.dir][x.at[1]])
  /\ x.step = Source(x).step /\ x.tag = Source(x).value.tag
  /\ x.tensor = TensorOf(Source(x).value)

OnTheWay(r, x) ==
  Genuine(r, x) /\ x.at = readers[r].at /\ x.tag \in DOMAIN readers[r].mds
Sending ==
  \A r \in DOMAIN state :
    /\ DOMAIN accs[r] \subseteq DOMAIN readers[r].mds
    /\ Len(readers[r].sending) <= 1
    /\ readers[r].sending # <<>> => OnTheWay(r, Head(readers[r].sending))

\* A sample: each value has been read, the later the greater its step.
Sampling(r, tag) ==
  LET series == accs[r][tag]
  IN  /\ IsFiniteSet(series.sample) /\ (series.md = NoMeta <=> series.sample = {})
      /\ \A x \in series.sample :
           /\ Genuine(r, x) /\ x.tag = tag
           /\ (readers[r].sending = <<>> /\ x.at = readers[r].at) \/ After(readers[r].at, x.at)
      /\ \A x, y \in series.sample :
           /\ x # y => x.step # y.step
           /\ x.step < y.step => After(y.at, x.at)
Sampled == \A r \in DOMAIN state : \A tag \in DOMAIN accs[r] : Sampling(r, tag)

World == Types /\ Incarnations /\ Discovering /\ Mapped /\ Opened /\ Sending /\ Sampled

-----------------------------------------------------------------------------
\* x has been in the sample of its series, and what is there now is not older.
Held(r, x) ==
  /\ Genuine(r, x) /\ x.tag \in DOMAIN accs[r]
  /\ LET sample == accs[r][x.tag].sample
     IN  /\ x \in sample \/ \E y \in sample : After(y.at, x.at)
         /\ \A y \in sample : y.step = x.step => y = x \/ After(y.at, x.at)

\* The entry e of an answer comes from reader r.
Served(e) == {e.newest} \cup ToSet(e.points)
Backs(r, e) ==
  /\ r \in DOMAIN state /\ e.run = Rel(Logdir, Path(r))
  /\ e.tag \in DOMAIN accs[r] /\ accs[r][e.tag].md = e.md
  /\ \A x \in Served(e) : x.tag = e.tag /\ Held(r, x)

\* It is one that the request asks for, with the points it asks for.
Fulfils(e, request) ==
  /\ AskedFor(request, e)
  /\ request.op = "Read" =>
       /\ \A j \in 1 .. Len(e.points) - 1 : e.points[j].step < e.points[j + 1].step
       /\ Len(e.points) = IF e.md.class = "blobs" THEN e.stored
                          ELSE Min({request.points, e.stored})
       /\ e.points # <<>> => e.points[Len(e.points)] = e.newest
  /\ e.md.class = "blobs" => \A x \in ToSet(e.points) : x.tensor.dims # <<>>

\* These are entries of an answer to a call that began when "dropped" had gone.
Entries(entries, request, dropped) ==
  \A e \in entries :
    /\ Fulfils(e, request)
    /\ \A x \in Served(e) : x.at[1] > dropped[x.dir]
    /\ \E r \in DOMAIN state : Backs(r, e)

\* Reader r has opened nothing that had gone when the call began.
Since(r) == \A k \in readers[r].opened : k > call.gone[Path(r)]
Dropped == \A d \in Dirs : call.gone[d] \in Nat /\ call.gone[d] <= gone[d]
Going == Len(answers) < Len(scenario.requests)

\* A handler that lists or reads: its map of runs, and the run it is at.
IsMap(m) == m = [k \in DOMAIN m |-> m[k]]
IsReading(x) ==
  x = [pc |-> "reading", runs |-> x.runs, run |-> x.run, acc |-> x.acc, tags |-> x.tags,
       entries |-> x.entries, due |-> x.due, gone |-> x.gone]
Usable(name, r) ==
  /\ r \in DOMAIN state /\ name = Rel(Logdir, Path(r))
  /\ MatchesFilter(req.runs, name) /\ Since(r)
Visited ==
  /\ IsMap(call.runs)
  /\ \A name \in DOMAIN call.runs : Usable(name, call.runs[name])
  /\ call.tags # {} => Usable(call.run, call.acc) /\ call.tags \subseteq Matching(call.acc)

\* What is due is in a run still to visit, in a tag still to visit, or listed.
StillDue(s) ==
  \/ /\ s.run \in DOMAIN call.runs
     /\ LET acc == accs[call.runs[s.run]] IN s.tag \in DOMAIN acc /\ acc[s.tag].md = s.md
  \/ s.run = call.run /\ s.tag \in call.tags /\ accs[call.acc][s.tag].md = s.md
  \/ \E e \in call.entries : e.run = s.run /\ e.tag = s.tag /\ e.md = s.md

\* So is what an earlier answer had, or something later.
StillNewer(a) ==
  \/ a.run \in DOMAIN call.runs /\ Backs(call.runs[a.run], a)
  \/ a.run = call.run /\ a.tag \in call.tags /\ Backs(call.acc, a)
  \/ \E b \in call.entries : /\ b.run = a.run /\ b.tag = a.tag
                             /\ b.newest = a.newest \/ Later(b.newest, a.newest)
Listing ==
  call.pc = "reading" =>
    /\ IsReading(call)
    /\ Going /\ req.op \in {"List", "Read"} /\ (req.op = "Read" => req.points >= 0)
    /\ Dropped /\ Visited
    /\ Entries(call.entries, req, call.gone)
    /\ \A s \in call.due : AskedFor(req, s) => StillDue(s)
    /\ \A i \in Series : \A a \in answers[i].entries :
         Present(a.newest) /\ AskedFor(req, a) => StillNewer(a)

Counting ==
  call.pc = "sized" =>
    call = [pc |-> "sized", size |-> call.size] /\ Going /\ req.op = "ListRuns"

\* A reference that has been served, and what it was made for.
Referring ==
  \A ref \in refs :
    /\ ref.key = <<ref.key[1], ref.of.tag, ref.of.step, ref.index>>
    /\ ref.key[1] = Rel(Logdir, ref.of.dir)
    /\ ref.of.tensor.dims # <<>> /\ ref.index \in 0 .. Head(ref.of.tensor.dims) - 1
    /\ \E r \in DOMAIN state : Held(r, ref.of)

\* A handler that has decoded one: the run's reader has what it was made for,
\* if that was not dropped before the call.
Exact(x) == x.step \in -MaxExact .. MaxExact
Fetching ==
  call.pc = "blob" =>
    /\ Going /\ req.op = "ReadBlob" /\ call.ref \in refs /\ Dropped
    /\ call.bk.step \in MinInt .. MaxInt
    /\ call.bk.tag = call.ref.of.tag /\ call.bk.index = call.ref.index
    /\ Exact(call.ref.of) => call.bk.step = call.ref.of.step
    /\ call.acc # 0 =>
         call.acc \in DOMAIN state /\ Path(call.acc) = call.ref.of.dir /\ Since(call.acc)
    /\ \/ call.acc # 0 /\ Held(call.acc, call.ref.of)
       \/ call.ref.of.at[1] <= call.gone[call.ref.of.dir]

\* The answers so far.
Answered ==
  /\ answers \in Seq(ToSet(answers)) /\ Len(answers) <= Len(scenario.requests)
  /\ \A i \in DOMAIN answers : /\ answers[i].req = scenario.requests[i]
                              /\ answers[i].status \in {"OK", "NotFound", "InvalidArgument"}
  /\ \A i \in Series : Entries(answers[i].entries, answers[i].req, answers[i].gone)
  /\ \A i \in Blobs : answers[i].ref \in refs
Calling == call.pc \in {"idle", "sized", "reading", "blob", "panicked"}

Calls ==
  /\ Calling /\ Counting /\ Listing /\ Fetching /\ Referring /\ Answered
  /\ ServedFromTheRun /\ ReadsGoForward /\ AnswerComplete
  /\ BlobKeyNamesItsBlob /\ BlobFoundWhileStored /\ PanicOnlyIfMixed

IInv == World /\ Calls

-----------------------------------------------------------------------------
(***************************************************************************)
(* The name of a run directory says which one it is, ...                   *)
(***************************************************************************)
LEMMA RelSays ==
  ASSUME NEW d \in Dirs
  PROVE  /\ Rel(Logdir, d) \in Seq(STRING) /\ d \in Seq(STRING)
         /\ d = Logdir \o Rel(Logdir, d)
<1>1. Logdir \in Seq(STRING) /\ d \in Seq(STRING) /\ IsPrefix(Logdir, d)
  BY ServerAssumption
<1> QED
  BY <1>1, PrefixAndRest DEF Rel

(***************************************************************************)
(* ... so no two runs in the map have the same reader.                     *)
(***************************************************************************)
LEMMA NamesOfReaders ==
  ASSUME Mapped
  PROVE  /\ \A name \in Names(data) : /\ Logdir \o name \in Dirs
                                      /\ Rel(Logdir, Logdir \o name) = name
                                      /\ Path(data[name]) = Logdir \o name
         /\ \A a, b \in Names(data) : data[a] = data[b] => a = b
<1>1. ASSUME NEW name \in Names(data)
      PROVE  /\ Logdir \o name \in Dirs /\ Rel(Logdir, Logdir \o name) = name
             /\ Path(data[name]) = Logdir \o name
  <2>1. PICK d \in Dirs : name = Rel(Logdir, d)
    BY DEF Mapped
  <2>2. d = Logdir \o name
    BY <2>1, RelSays
  <2> QED
    BY <2>1, <2>2 DEF Mapped
<1>2. ASSUME NEW a \in Names(data), NEW b \in Names(data), data[a] = data[b]
      PROVE  a = b
  BY <1>1, <1>2, Zenon
<1> QED
  BY <1>1, <1>2, Zenon

(***************************************************************************)
(* What is in the nth file of a directory has been described above.        *)
(***************************************************************************)
LEMMA LoggedThere ==
  ASSUME NEW s \in Scenarios, NEW d \in Dirs, NEW k \in 1 .. Len(s.logged[d]),
         NEW j \in 1 .. Len(s.logged[d][k])
  PROVE  /\ s.logged[d][k][j] \in Events(s, d) /\ Loggable(s.logged[d][k][j])
         /\ s.logged[d][k][j].value \in Values
<1> DEFINE event == s.logged[d][k][j]
<1>1. /\ s.logged[d] \in Seq(Seq(Events(s, d)))
      /\ \A e \in Events(s, d) : Loggable(e)
  BY ScenariosAssumption
<1>2. s.logged[d][k] \in Seq(Events(s, d))
  BY <1>1, ElementOfSeq
<1>3. event \in Events(s, d)
  BY <1>2, ElementOfSeq
<1>4. event.value \in Values
  <2> HIDE DEF event
  <2>1. event.value \in UNION {{e.value : e \in Events(s, c)} : c \in Dirs}
    BY <1>3
  <2> QED
    BY <2>1 DEF Values
<1> QED
  BY <1>1, <1>3, <1>4

(***************************************************************************)
(* The places of the sequences.                                            *)
(***************************************************************************)
LEMMA Places ==
  ASSUME Types
  PROVE  /\ DOMAIN state = 1 .. Len(state) /\ Len(state) \in Nat
         /\ DOMAIN readers = DOMAIN state /\ DOMAIN accs = DOMAIN state
         /\ \A r \in DOMAIN state : /\ state[r] \in ReaderState /\ readers[r] \in Progress
                                    /\ accs[r] \in Accumulators /\ Path(r) \in Dirs
<1>1. /\ state \in Seq(ReaderState) /\ readers \in Seq(Progress) /\ accs \in Seq(Accumulators)
      /\ Len(readers) = Len(state) /\ Len(accs) = Len(state)
  BY DEF Types
<1>2. /\ DOMAIN state = 1 .. Len(state) /\ Len(state) \in Nat
      /\ DOMAIN readers = 1 .. Len(readers) /\ DOMAIN accs = 1 .. Len(accs)
  BY <1>1, LenProperties
<1>3. /\ \A r \in 1 .. Len(state) : state[r] \in ReaderState
      /\ \A r \in 1 .. Len(readers) : readers[r] \in Progress
      /\ \A r \in 1 .. Len(accs) : accs[r] \in Accumulators
  BY <1>1, ElementOfSeq
<1>4. \A s \in ReaderState : s.path \in Dirs
  BY DEF ReaderState
<1>5. \A r \in 1 .. Len(state) : Path(r) \in Dirs
  BY <1>3, <1>4, Zenon DEF Path
<1> QED
  BY <1>1, <1>2, <1>3, <1>5

(***************************************************************************)
(* A server that has just started.                                         *)
(***************************************************************************)
LEMMA WorldInit == Init => World
<1> SUFFICES ASSUME Init
             PROVE  World
  OBVIOUS
<1>1. /\ state = <<>> /\ readers = <<>> /\ accs = <<>> /\ data = <<>>
  BY DEF Init, MapInit
<1>2. DOMAIN state = {} /\ Len(state) = 0 /\ DOMAIN data = {}
  BY <1>1
<1>3. Types
  <2>1. MaxChanges \in Nat
    BY ServerAssumption
  <2>2. \A S : <<>> \in Seq(S)
    BY EmptySeq
  <2>3. found \in [stayed : SUBSET Dirs, appeared : SUBSET Dirs, on : BOOLEAN]
    BY DEF Init, NotDiscovering
  <2> QED
    BY <1>1, <2>1, <2>2, <2>3 DEF Init, Types
<1>4. Incarnations
  BY DEF Init, Incarnations
<1>5. Discovering
  BY DEF Init, Discovering, NotDiscovering
<1>6. Mapped
  BY <1>1, <1>2 DEF Mapped, Names
<1>7. Opened /\ Sending /\ Sampled
  BY <1>2 DEF Opened, Sending, Sampled
<1> QED
  BY <1>3, <1>4, <1>5, <1>6, <1>7 DEF World

-----------------------------------------------------------------------------
(***************************************************************************)
(* What the loader, a reader or an accumulator does to the world.  Readers *)
(* stay where they are, with what they have read; what they open has not   *)
(* gone; directories go and come; tags keep their metadata.                *)
(***************************************************************************)
Keeps(r) ==
  /\ scenario' = scenario /\ state'[r].path = state[r].path
  /\ readers[r].opened \subseteq readers'[r].opened

Grows ==
  /\ scenario' = scenario /\ call.pc # "panicked"
  /\ \A r \in DOMAIN state :
       /\ r \in DOMAIN state' /\ Keeps(r)
       /\ \A k \in readers'[r].opened :
            k \in readers[r].opened \/ (k > gone[Path(r)] /\ born[Path(r)] = k)
       /\ \A tag \in DOMAIN accs[r] :
            tag \in DOMAIN accs'[r] /\ accs'[r][tag].md = accs[r][tag].md
       /\ \A x : Held(r, x) => Held(r, x)'
  /\ \A d \in Dirs :
       /\ gone[d] <= gone'[d] /\ born[d] <= born'[d]
       /\ born'[d] = born[d] /\ d \in disk' => d \in disk

\* A value that has been found where it says stays there.
LEMMA GenuineStays ==
  ASSUME NEW r, NEW x, Keeps(r), Genuine(r, x)
  PROVE  Genuine(r, x)'
BY DEF Keeps, Genuine, Source, Path

\* So does what is known of a sample that does not change.
LEMMA SampleStays ==
  ASSUME NEW r, Keeps(r), accs'[r] = accs[r]
  PROVE  /\ \A x : Held(r, x) => Held(r, x)'
         /\ \A tag : /\ Sampling(r, tag)
                     /\ readers'[r].sending = readers[r].sending
                     /\ readers'[r].at = readers[r].at
                     => Sampling(r, tag)'
<1>1. \A x : Genuine(r, x) => Genuine(r, x)'
  BY GenuineStays
<1>2. \A x : Held(r, x) => Held(r, x)'
  BY <1>1, Zenon DEF Held
<1>3. ASSUME NEW tag, Sampling(r, tag),
             readers'[r].sending = readers[r].sending, readers'[r].at = readers[r].at
      PROVE  Sampling(r, tag)'
  BY <1>1, <1>3, Zenon DEF Sampling
<1> QED
  BY <1>2, <1>3

(***************************************************************************)
(* Nothing that concerns the readers happens.                              *)
(***************************************************************************)
LEMMA ReadersStay ==
  ASSUME World, call.pc # "panicked", UNCHANGED <<scenario, data, state, readers, accs>>,
         \A d \in Dirs : /\ gone[d] <= gone'[d] /\ born[d] <= born'[d]
                         /\ born'[d] = born[d] /\ d \in disk' => d \in disk
  PROVE  Mapped' /\ Sending' /\ Sampled' /\ Grows
<1>1. Mapped'
  BY DEF World, Mapped, Path, Names
<1>2. Sending'
  BY DEF World, Sending, OnTheWay, Genuine, Source, Path
<1>3. \A r : Keeps(r)
  BY DEF Keeps
<1>4. \A r : accs'[r] = accs[r]
  OBVIOUS
<1>5. \A r : /\ \A x : Held(r, x) => Held(r, x)'
             /\ \A tag : Sampling(r, tag) => Sampling(r, tag)'
  BY <1>3, <1>4, SampleStays
<1>6. Sampled'
  BY <1>5 DEF World, Sampled
<1>7. Grows
  BY <1>3, <1>5 DEF Grows
<1> QED
  BY <1>1, <1>2, <1>6, <1>7

\* Bounds of the numbers that the steps below compare.
LEMMA Numbers ==
  ASSUME World
  PROVE  /\ MaxChanges \in Nat /\ changes \in Nat /\ changes <= MaxChanges
         /\ \A d \in Dirs : /\ born[d] \in Nat /\ gone[d] \in Nat /\ gone[d] <= born[d]
                            /\ d \in disk => gone[d] < born[d]
BY ServerAssumption DEF World, Types, Incarnations

(***************************************************************************)
(* A directory is removed, or made again.                                  *)
(***************************************************************************)
LEMMA ChangeKeepsWorld ==
  ASSUME World, NEW d \in Dirs, Change(d)
  PROVE  World' /\ Grows
<1>1. /\ changes < MaxChanges /\ changes' = changes + 1 /\ call.pc # "panicked"
      /\ UNCHANGED <<scenario, data, state, gone, readers, accs>>
      /\ \/ d \in disk /\ disk' = disk \ {d} /\ born' = born
         \/ d \notin disk /\ disk' = disk \cup {d} /\ born' = [born EXCEPT ![d] = @ + 1]
      /\ found' = IF found.on
                  THEN [found EXCEPT !.stayed = @ \ {d}, !.appeared = @ \cup {d}] ELSE found
  BY DEF Change, Running, runVars
<1>2. /\ changes \in 0 .. MaxChanges /\ MaxChanges \in Nat
      /\ born \in [Dirs -> Nat] /\ gone \in [Dirs -> Nat] /\ disk \subseteq Dirs
  BY ServerAssumption DEF World, Types
<1>3. born' \in [Dirs -> Nat] /\ \A e \in Dirs : e # d => born'[e] = born[e]
  BY <1>1, <1>2
<1>4. \/ d \in disk /\ d \notin disk' /\ born'[d] = born[d]
      \/ d \notin disk /\ d \in disk' /\ born'[d] = born[d] + 1
  BY <1>1, <1>2
<1>5. \A e \in Dirs : e # d => (e \in disk' <=> e \in disk)
  BY <1>1
<1>6. /\ found \in [stayed : SUBSET Dirs, appeared : SUBSET Dirs, on : BOOLEAN]
      /\ found.stayed \subseteq found.appeared /\ (found.on => found.stayed \subseteq disk)
  BY DEF World, Types, Discovering
<1>7. /\ found' \in [stayed : SUBSET Dirs, appeared : SUBSET Dirs, on : BOOLEAN]
      /\ found'.stayed \subseteq found'.appeared
      /\ found'.on = found.on
      /\ found.on => found'.stayed = found.stayed \ {d}
  BY <1>1, <1>6
<1>8. Types'
  <2>1. changes' \in 0 .. MaxChanges /\ disk' \subseteq Dirs
    BY <1>1, <1>2
  <2> QED
    BY <1>1, <1>3, <1>7, <2>1 DEF World, Types
<1>9. \A e \in Dirs : /\ gone[e] <= born[e] /\ gone[e] \in Nat /\ born[e] \in Nat
                      /\ 2 * born[e] <= changes + (IF e \in disk THEN 2 ELSE 1)
                      /\ e \in disk => gone[e] < born[e]
  BY <1>2 DEF World, Incarnations
<1>10. \A e \in Dirs : /\ born[e] <= born'[e]
                       /\ born'[e] = born[e] /\ e \in disk' => e \in disk
  <2>1. born[d] <= born'[d] /\ (born'[d] = born[d] => d \notin disk')
    BY <1>4, <1>9
  <2> QED
    BY <1>3, <1>5, <1>9, <2>1
<1>11. Incarnations'
  <2>1. ASSUME NEW e \in Dirs
        PROVE  /\ 2 * born'[e] <= changes' + (IF e \in disk' THEN 2 ELSE 1)
               /\ gone[e] <= born'[e] /\ (e \in disk' => gone[e] < born'[e])
    <3>1. changes \in Int /\ changes' = changes + 1
      BY <1>1, <1>2
    <3>2. CASE e # d
      BY <1>3, <1>5, <1>9, <3>1, <3>2
    <3>3. CASE e = d
      BY <1>4, <1>9, <3>1, <3>3
    <3> QED
      BY <3>2, <3>3
  <2> QED
    BY <1>1, <2>1 DEF Incarnations
<1>12. Discovering'
  <2>1. found.on => found.stayed \ {d} \subseteq disk'
    BY <1>5, <1>6
  <2> QED
    BY <1>7, <2>1 DEF Discovering
<1>13. Opened'
  <2>1. ASSUME NEW r \in DOMAIN state
        PROVE  /\ readers[r].opened \subseteq 1 .. born'[Path(r)]
               /\ \A k \in readers[r].opened : k > gone[Path(r)] <=> state[r].doing # "closed"
               /\ found'.on /\ Path(r) \in disk' /\ born'[Path(r)] \in readers[r].opened =>
                    Path(r) \in found'.stayed
    <3>1. Path(r) \in Dirs
      BY Places DEF World
    <3>2. /\ readers[r].opened \subseteq 1 .. born[Path(r)]
          /\ \A k \in readers[r].opened : k > gone[Path(r)] <=> state[r].doing # "closed"
          /\ found.on /\ Path(r) \in disk /\ born[Path(r)] \in readers[r].opened =>
               Path(r) \in found.stayed
      BY DEF World, Opened
    <3> HIDE DEF Path
    <3>3. readers[r].opened \subseteq 1 .. born'[Path(r)]
      <4>1. born[Path(r)] \in Nat /\ born'[Path(r)] \in Nat /\ born[Path(r)] <= born'[Path(r)]
        BY <1>2, <1>3, <1>10, <3>1
      <4> QED
        BY <3>2, <4>1
    <3>4. CASE Path(r) # d
      BY <1>3, <1>5, <1>7, <3>1, <3>2, <3>3, <3>4
    <3>5. CASE Path(r) = d
      <4>1. Path(r) \in disk' => born'[Path(r)] \notin 1 .. born[Path(r)]
        BY <1>4, <1>9, <3>1, <3>5
      <4> QED
        BY <3>2, <3>3, <4>1
    <3> QED
      BY <3>4, <3>5
  <2> QED
    BY <1>1, <2>1 DEF Opened, Path
<1>14. Mapped' /\ Sending' /\ Sampled' /\ Grows
  <2>1. \A e \in Dirs : gone[e] <= gone'[e]
    BY <1>1, <1>9
  <2> QED
    BY <1>1, <1>10, <2>1, ReadersStay
<1> QED
  BY <1>8, <1>11, <1>12, <1>13, <1>14 DEF World

(***************************************************************************)
(* A discovery begins.                                                     *)
(***************************************************************************)
LEMMA DiscoverKeepsWorld ==
  ASSUME World, Discover
  PROVE  World' /\ Grows
<1>1. /\ found' = [stayed |-> disk, appeared |-> disk, on |-> TRUE]
      /\ UNCHANGED <<scenario, disk, born, changes, data, state, gone, readers, accs>>
      /\ call.pc # "panicked"
  BY DEF Discover, Running, runVars, diskVars
<1>2. Types'
  <2>1. disk \subseteq Dirs
    BY DEF World, Types
  <2>2. found' \in [stayed : SUBSET Dirs, appeared : SUBSET Dirs, on : BOOLEAN]
    BY <1>1, <2>1
  <2> QED
    BY <1>1, <2>2 DEF World, Types
<1>3. Incarnations' /\ Discovering'
  BY <1>1 DEF World, Incarnations, Discovering
<1>4. Opened'
  BY <1>1 DEF World, Opened, Path
<1>5. Mapped' /\ Sending' /\ Sampled' /\ Grows
  <2>1. \A e \in Dirs : gone[e] <= gone'[e] /\ born[e] <= born'[e]
    BY <1>1, Numbers
  <2> QED
    BY <1>1, <2>1, ReadersStay
<1> QED
  BY <1>2, <1>3, <1>4, <1>5 DEF World

-----------------------------------------------------------------------------
\* Reader r of state s becomes what it is in t: only what it does changes.
Does(s, t, r, what) == t[r].doing = what /\ t[r].path = s[r].path

(***************************************************************************)
(* One reader begins or ends a reload.                                     *)
(***************************************************************************)
LEMMA OneReader ==
  ASSUME NEW what \in {"asleep", "reloading", "closed"}, state \in Seq(ReaderState),
         NEW r \in 1 .. Len(state)
  PROVE  LET t == [state EXCEPT ![r].doing = what]
         IN  /\ t \in Seq(ReaderState) /\ Len(t) = Len(state) /\ DOMAIN t = DOMAIN state
             /\ Does(state, t, r, what)
             /\ \A q \in 1 .. Len(state) : q # r => t[q] = state[q]
<1> DEFINE e == [state[r] EXCEPT !.doing = what]
           t == [state EXCEPT ![r] = e]
<1>1. state[r] \in ReaderState
  BY ElementOfSeq
<1>2. e \in ReaderState /\ e.doing = what /\ e.path = state[r].path
  BY <1>1 DEF ReaderState
<1> HIDE DEF e
<1>3. /\ t \in Seq(ReaderState) /\ Len(t) = Len(state) /\ t[r] = e
      /\ \A q \in 1 .. Len(state) : q # r => t[q] = state[q]
  <2>1. /\ t \in Seq(ReaderState) /\ Len(t) = Len(state)
        /\ \A q \in 1 .. Len(t) : t[q] = IF q = r THEN e ELSE state[q]
    BY <1>2, ExceptSeq
  <2> HIDE DEF t
  <2> QED
    BY <2>1
<1>4. DOMAIN t = DOMAIN state
  OBVIOUS
<1> QED
  BY <1>2, <1>3, <1>4, Zenon DEF Does, e

(***************************************************************************)
(* A reader changes what it does, as to reloads, and may open what is      *)
(* there now; nothing is discovered meanwhile.                             *)
(***************************************************************************)
Reloads(r, what) ==
  /\ state' = [state EXCEPT ![r].doing = what]
  /\ \/ readers' = readers
     \/ /\ Path(r) \in disk
        /\ readers' = [readers EXCEPT ![r].opened = @ \cup {born[Path(r)]}]
  /\ UNCHANGED <<scenario, disk, born, changes, data, found, gone, accs>>

\* What the reader opens has not gone, and nothing else changes.
LEMMA ReloadsKeepsWorld ==
  ASSUME World, call.pc # "panicked", NEW r \in DOMAIN state, state[r].doing # "closed",
         NEW what \in {"asleep", "reloading"}, Reloads(r, what),
         found.on => readers' = readers
  PROVE  World' /\ Grows
<1>1. /\ DOMAIN state = 1 .. Len(state) /\ DOMAIN readers = DOMAIN state
      /\ \A q \in DOMAIN state : readers[q] \in Progress /\ Path(q) \in Dirs
      /\ state \in Seq(ReaderState)
  BY Places DEF World, Types
<1>2. /\ state' \in Seq(ReaderState) /\ Len(state') = Len(state)
      /\ DOMAIN state' = DOMAIN state
      /\ Does(state, state', r, what)
      /\ \A q \in DOMAIN state : q # r => state'[q] = state[q]
  <2> DEFINE t == [state EXCEPT ![r].doing = what]
  <2>1. what \in {"asleep", "reloading", "closed"} /\ r \in 1 .. Len(state)
    BY <1>1
  <2>2. /\ t \in Seq(ReaderState) /\ Len(t) = Len(state) /\ DOMAIN t = DOMAIN state
        /\ Does(state, t, r, what)
        /\ \A q \in 1 .. Len(state) : q # r => t[q] = state[q]
    BY <1>1, <2>1, OneReader, Zenon
  <2>3. state' = t
    BY DEF Reloads
  <2> HIDE DEF t
  <2> QED
    BY <1>1, <2>2, <2>3
<1> DEFINE more == IF readers' = readers THEN {} ELSE {born[Path(r)]}
<1>3. more # {} => Path(r) \in disk /\ ~found.on
  BY DEF Reloads
<1>4. /\ readers' \in Seq(Progress) /\ Len(readers') = Len(state)
      /\ readers'[r].opened = readers[r].opened \cup more
      /\ \A q \in DOMAIN state : /\ q # r => readers'[q] = readers[q]
                                 /\ readers'[q].at = readers[q].at
                                 /\ readers'[q].mds = readers[q].mds
                                 /\ readers'[q].sending = readers[q].sending
  <2>1. readers \in Seq(Progress) /\ Len(readers) = Len(state)
    BY DEF World, Types
  <2>2. CASE readers' = readers
    BY <2>1, <2>2
  <2>3. CASE readers' # readers
    <3> DEFINE e == [readers[r] EXCEPT !.opened = @ \cup {born[Path(r)]}]
               t == [readers EXCEPT ![r] = e]
    <3>1. readers' = t
      BY <2>3 DEF Reloads
    <3>2. born[Path(r)] \in Nat /\ readers[r] \in Progress
      BY <1>1, Numbers
    <3>3. /\ e \in Progress /\ e.opened = readers[r].opened \cup {born[Path(r)]}
          /\ e.at = readers[r].at /\ e.mds = readers[r].mds
          /\ e.sending = readers[r].sending
      BY <3>2 DEF Progress
    <3> HIDE DEF e
    <3>4. /\ t \in Seq(Progress) /\ Len(t) = Len(readers)
          /\ \A q \in 1 .. Len(t) : t[q] = IF q = r THEN e ELSE readers[q]
      BY <1>1, <2>1, <3>3, ExceptSeq
    <3> HIDE DEF t
    <3>5. \A q \in DOMAIN state : t[q] = IF q = r THEN e ELSE readers[q]
      BY <1>1, <2>1, <3>4
    <3> QED
      BY <2>1, <2>3, <3>1, <3>3, <3>4, <3>5
  <2> QED
    BY <2>2, <2>3
<1> HIDE DEF more
<1>5. UNCHANGED <<scenario, disk, born, changes, data, found, gone, accs>>
  BY DEF Reloads
<1>6. \A q \in DOMAIN state :
        /\ state'[q].path = state[q].path
        /\ state'[q].doing # "closed" <=> state[q].doing # "closed"
  BY <1>2, <1>1, Zenon DEF Does
<1>7. Types' /\ Incarnations' /\ Discovering'
  BY <1>2, <1>4, <1>5 DEF World, Types, Incarnations, Discovering
<1>8. Mapped'
  BY <1>2, <1>5, <1>6 DEF World, Mapped, Path
<1>9. \A q \in DOMAIN state : Keeps(q)
  BY <1>4, <1>5, <1>6 DEF Keeps
<1>10. \A q \in DOMAIN state : \A k \in readers'[q].opened :
         k \in readers[q].opened \/ (more # {} /\ q = r /\ k = born[Path(r)])
  <2>1. \A k \in more : more # {} /\ k = born[Path(r)]
    BY DEF more
  <2> QED
    BY <1>4, <2>1
<1>11. Opened'
  <2>1. ASSUME NEW q \in DOMAIN state
        PROVE  /\ readers'[q].opened \subseteq 1 .. born[Path(q)]
               /\ \A k \in readers'[q].opened :
                    k > gone[Path(q)] <=> state'[q].doing # "closed"
               /\ found.on /\ Path(q) \in disk /\ born[Path(q)] \in readers'[q].opened =>
                    Path(q) \in found.stayed
    <3>1. /\ readers[q].opened \subseteq 1 .. born[Path(q)]
          /\ \A k \in readers[q].opened : k > gone[Path(q)] <=> state[q].doing # "closed"
          /\ found.on /\ Path(q) \in disk /\ born[Path(q)] \in readers[q].opened =>
               Path(q) \in found.stayed
      BY DEF World, Opened
    <3>2. Path(r) \in Dirs
      BY <1>1
    <3>3. more # {} => /\ born[Path(r)] \in 1 .. born[Path(r)]
                       /\ born[Path(r)] > gone[Path(r)] /\ ~found.on
      BY <1>3, <3>2, Numbers
    <3> HIDE DEF Path
    <3> QED
      BY <1>6, <1>10, <3>1, <3>3
  <2> QED
    BY <1>2, <1>5, <1>6, <2>1 DEF Opened, Path
<1>12. Sending'
  <2>1. ASSUME NEW q \in DOMAIN state
        PROVE  /\ DOMAIN accs'[q] \subseteq DOMAIN readers'[q].mds
               /\ Len(readers'[q].sending) <= 1
               /\ readers'[q].sending # <<>> => OnTheWay(q, Head(readers[q].sending))'
    <3>1. \A x : Genuine(q, x) => Genuine(q, x)'
      BY <1>9, GenuineStays
    <3>2. /\ DOMAIN accs[q] \subseteq DOMAIN readers[q].mds
          /\ Len(readers[q].sending) <= 1
          /\ readers[q].sending # <<>> => OnTheWay(q, Head(readers[q].sending))
      BY DEF World, Sending
    <3>3. /\ readers'[q].at = readers[q].at /\ readers'[q].mds = readers[q].mds
          /\ readers'[q].sending = readers[q].sending /\ accs'[q] = accs[q]
      BY <1>4, <1>5
    <3>4. \A x : OnTheWay(q, x) => OnTheWay(q, x)'
      BY <3>1, <3>3, Zenon DEF OnTheWay
    <3> QED
      BY <3>2, <3>3, <3>4, Zenon DEF OnTheWay
  <2> QED
    BY <1>2, <2>1, Zenon DEF Sending, OnTheWay
<1>13. \A q \in DOMAIN state : /\ \A x : Held(q, x) => Held(q, x)'
                               /\ \A tag : Sampling(q, tag) => Sampling(q, tag)'
  <2>1. ASSUME NEW q \in DOMAIN state
        PROVE  /\ \A x : Held(q, x) => Held(q, x)'
               /\ \A tag : Sampling(q, tag) => Sampling(q, tag)'
    <3>1. Keeps(q) /\ accs'[q] = accs[q]
      BY <1>5, <1>9
    <3>2. readers'[q].sending = readers[q].sending /\ readers'[q].at = readers[q].at
      BY <1>4
    <3> QED
      BY <3>1, <3>2, SampleStays
  <2> QED
    BY <2>1
<1>14. Sampled'
  BY <1>2, <1>5, <1>13 DEF World, Sampled
<1>15. Grows
  <2>1. \A e \in Dirs : gone[e] <= gone'[e] /\ born[e] <= born'[e]
    BY <1>5, Numbers
  <2>2. more # {} => born[Path(r)] > gone[Path(r)]
    BY <1>1, <1>3, Numbers
  <2> QED
    BY <1>2, <1>5, <1>9, <1>10, <1>13, <2>1, <2>2 DEF Grows
<1> QED
  BY <1>7, <1>8, <1>11, <1>12, <1>14, <1>15 DEF World

(***************************************************************************)
(* A run's Reload starts, and returns.                                     *)
(***************************************************************************)
LEMMA ReloadRunKeepsWorld ==
  ASSUME World, NEW r \in DOMAIN state, ReloadRun(r) \/ ReloadRunReturn(r)
  PROVE  World' /\ Grows
<1>1. CASE ReloadRun(r)
  <2>1. /\ call.pc # "panicked" /\ ~found.on
        /\ state[r].doing # "closed"
        /\ Reloads(r, "reloading")
    BY <1>1 DEF ReloadRun, RunReload, Running, Doing, Reloads, Path, diskVars
  <2> QED
    BY <2>1, ReloadsKeepsWorld
<1>2. CASE ReloadRunReturn(r)
  <2>1. /\ call.pc # "panicked" /\ readers' = readers
        /\ state[r].doing # "closed"
        /\ Reloads(r, "asleep")
    BY <1>2 DEF ReloadRunReturn, RunReloadReturn, Running, Doing, Reloads, Path, diskVars,
                runVars
  <2> QED
    BY <2>1, ReloadsKeepsWorld
<1> QED
  BY <1>1, <1>2

-----------------------------------------------------------------------------
(***************************************************************************)
(* One element of a sequence is replaced.                                  *)
(***************************************************************************)
LEMMA Replaced ==
  ASSUME NEW S, NEW s \in Seq(S), NEW r \in DOMAIN s, NEW e \in S
  PROVE  LET t == [s EXCEPT ![r] = e]
         IN  /\ t \in Seq(S) /\ Len(t) = Len(s) /\ DOMAIN t = DOMAIN s /\ t[r] = e
             /\ \A q \in DOMAIN s : q # r => t[q] = s[q]
<1> DEFINE t == [s EXCEPT ![r] = e]
<1>1. DOMAIN s = 1 .. Len(s)
  BY LenProperties
<1>2. /\ t \in Seq(S) /\ Len(t) = Len(s)
      /\ \A q \in 1 .. Len(t) : t[q] = IF q = r THEN e ELSE s[q]
  BY <1>1, ExceptSeq
<1>3. DOMAIN t = DOMAIN s
  OBVIOUS
<1> HIDE DEF t
<1> QED
  BY <1>1, <1>2, <1>3

(***************************************************************************)
(* What the transformations make of one value.                             *)
(***************************************************************************)
LEMMA OneValue ==
  ASSUME NEW v \in Values, NEW m
  PROVE  \E meta \in Metas : /\ EventValues(<<v>>, m).mds = PutNew(m, v.tag, meta)
                             /\ Head(EventValues(<<v>>, m).values) = Migrated(v, meta)
<1> DEFINE st == [mds |-> m, values |-> <<>>]
<1>1. EventValues(<<>>, m) = st
      /\ EventValues(Append(<<>>, v), m) = Migrate(EventValues(<<>>, m), v)
  <2>1. <<>> \in Seq(Values)
    BY EmptySeq
  <2> QED
    BY <2>1, EventValuesAppend
<1>2. Append(<<>>, v) = <<v>>
  OBVIOUS
<1>3. EventValues(<<v>>, m) = Migrate(st, v)
  BY <1>1, <1>2
<1>4. \E meta \in MetasOf(Values) :
        Migrate(st, v) = [mds    |-> PutNew(st.mds, v.tag, meta),
                          values |-> Append(st.values, Migrated(v, meta))]
  <2> HIDE DEF st
  <2> QED
    BY MigrateStep
<1>5. \A x : Head(Append(<<>>, x)) = x
  OBVIOUS
<1> QED
  BY <1>3, <1>4, <1>5 DEF Metas

(***************************************************************************)
(* There is something to read in each file that a reader has opened.       *)
(***************************************************************************)
LEMMA FoundThere ==
  ASSUME World, NEW r \in DOMAIN state, NEW k \in readers[r].opened
  PROVE  k \in 1 .. Len(scenario.logged[Path(r)])
<1>1. Path(r) \in Dirs /\ scenario \in Scenarios
  BY Places DEF World, Types
<1>2. k \in 1 .. born[Path(r)]
  BY DEF World, Opened
<1>3. /\ born[Path(r)] \in Nat /\ changes \in Nat /\ changes <= MaxChanges
      /\ MaxChanges \in Nat
  BY <1>1, Numbers
<1>4. 2 * born[Path(r)] <= changes + (IF Path(r) \in disk THEN 2 ELSE 1)
  BY <1>1 DEF World, Incarnations
<1>5. 2 * born[Path(r)] <= changes + 2
  BY <1>3, <1>4
<1>6. /\ scenario.logged[Path(r)] \in Seq(Seq(Events(scenario, Path(r))))
      /\ 2 * Len(scenario.logged[Path(r)]) > MaxChanges
  BY <1>1, ScenariosAssumption
<1>7. Len(scenario.logged[Path(r)]) \in Nat
  BY <1>6, LenProperties
<1> QED
  BY <1>2, <1>3, <1>5, <1>6, <1>7

(***************************************************************************)
(* The next value of a reader is one that its directory has logged, after  *)
(* the last one.                                                           *)
(***************************************************************************)
LEMMA UpcomingValue ==
  ASSUME World, NEW r \in DOMAIN state, NEW p \in Upcoming(r)
  PROVE  /\ p \in Nat \X Nat /\ p[1] \in readers[r].opened /\ After(p, readers[r].at)
         /\ p[1] \in 1 .. Len(scenario.logged[Path(r)])
         /\ p[2] \in 1 .. Len(scenario.logged[Path(r)][p[1]])
<1>1. /\ readers[r] \in Progress /\ Path(r) \in Dirs /\ scenario \in Scenarios
      /\ disk \subseteq Dirs
  BY Places DEF World, Types
<1>2. /\ readers[r].opened \in SUBSET Nat /\ readers[r].at \in Nat \X Nat
  BY <1>1 DEF Progress
<1> DEFINE at == readers[r].at
<1>3. at[1] \in Nat /\ at[2] \in Nat
  BY <1>2
<1>4. /\ p \in {<<at[1], at[2] + 1>>} \cup {<<k, 1>> : k \in readers[r].opened}
      /\ p[1] \in readers[r].opened /\ p[1] >= at[1]
      /\ p[1] = at[1] => p[2] = at[2] + 1
      /\ p[2] <= Len(scenario.logged[Path(r)][p[1]])
  BY DEF Upcoming, Path
<1> HIDE DEF at
<1>5. p \in Nat \X Nat /\ p[2] >= 1
  BY <1>2, <1>3, <1>4
<1>6. After(p, at)
  BY <1>3, <1>4, <1>5 DEF After
<1>7. p[1] \in 1 .. Len(scenario.logged[Path(r)])
  BY <1>4, FoundThere
<1>8. p[2] \in 1 .. Len(scenario.logged[Path(r)][p[1]])
  <2>1. scenario.logged[Path(r)] \in Seq(Seq(Events(scenario, Path(r))))
    BY <1>1, ScenariosAssumption
  <2>2. scenario.logged[Path(r)][p[1]] \in Seq(Events(scenario, Path(r)))
    BY <1>7, <2>1, ElementOfSeq
  <2>3. Len(scenario.logged[Path(r)][p[1]]) \in Nat
    BY <2>2, LenProperties
  <2> QED
    BY <1>4, <1>5, <2>3
<1> QED
  BY <1>4, <1>5, <1>6, <1>7, <1>8 DEF at

(***************************************************************************)
(* A reader sends its next value.                                          *)
(***************************************************************************)
Sends(r, p, meta) ==
  LET event == scenario.logged[Path(r)][p[1]][p[2]]
      datum == [step |-> event.step, dir |-> Path(r), at |-> p, tag |-> event.value.tag,
                meta |-> meta, tensor |-> TensorOf(event.value)]
  IN  readers' = [readers EXCEPT
                    ![r] = [opened |-> readers[r].opened, at |-> p,
                            mds |-> PutNew(readers[r].mds, event.value.tag, meta),
                            sending |-> <<datum>>]]

\* That is all that Send may do.
LEMMA SendEffect ==
  ASSUME World, NEW r \in DOMAIN state, Send(r)
  PROVE  \E p \in Upcoming(r), meta \in Metas : Sends(r, p, meta)
<1>1. PICK p \in Upcoming(r) :
        LET event == scenario.logged[Path(r)][p[1]][p[2]]
            ev    == EventValues(<<event.value>>, readers[r].mds)
            value == Head(ev.values)
            datum == [step |-> event.step, dir |-> Path(r), at |-> p,
                      tag |-> value.tag, meta |-> value.meta, tensor |-> value.tensor]
        IN  readers' = [readers EXCEPT ![r] = [opened |-> @.opened, at |-> p, mds |-> ev.mds,
                                               sending |-> <<datum>>]]
  BY Zenon DEF Send, Path
<1> DEFINE event == scenario.logged[Path(r)][p[1]][p[2]]
           ev    == EventValues(<<event.value>>, readers[r].mds)
<1>2. event.value \in Values
  <2>1. /\ p[1] \in 1 .. Len(scenario.logged[Path(r)])
        /\ p[2] \in 1 .. Len(scenario.logged[Path(r)][p[1]])
    BY UpcomingValue
  <2>2. Path(r) \in Dirs /\ scenario \in Scenarios
    BY Places DEF World, Types
  <2> QED
    BY <2>1, <2>2, LoggedThere
<1>3. PICK meta \in Metas : /\ ev.mds = PutNew(readers[r].mds, event.value.tag, meta)
                            /\ Head(ev.values) = Migrated(event.value, meta)
  <2> HIDE DEF event
  <2> QED
    BY <1>2, OneValue
<1>4. r \in DOMAIN readers /\ readers[r] \in Progress
  BY Places DEF World
<1> HIDE DEF event, ev
<1>5. LET value == Migrated(event.value, meta)
          datum == [step |-> event.step, dir |-> Path(r), at |-> p,
                    tag |-> value.tag, meta |-> value.meta, tensor |-> value.tensor]
      IN  readers' = [readers EXCEPT
                        ![r] = [opened |-> readers[r].opened, at |-> p,
                                mds |-> PutNew(readers[r].mds, event.value.tag, meta),
                                sending |-> <<datum>>]]
  BY <1>1, <1>3, <1>4 DEF event, ev
<1>6. /\ Migrated(event.value, meta).tag = event.value.tag
      /\ Migrated(event.value, meta).meta = meta
      /\ Migrated(event.value, meta).tensor = TensorOf(event.value)
  BY DEF Migrated
<1>7. Sends(r, p, meta)
  BY <1>5, <1>6, Zenon DEF Sends, event
<1> QED
  BY <1>7

\* What is on the way is later than all that its sample has.
LEMMA SendKeepsWorld ==
  ASSUME World, NEW r \in DOMAIN state, Send(r)
  PROVE  World' /\ Grows
<1>1. PICK p \in Upcoming(r), meta \in Metas : Sends(r, p, meta)
  BY SendEffect
<1>2. /\ UNCHANGED <<scenario, disk, born, changes, data, state, found, gone, accs>>
      /\ call.pc # "panicked" /\ readers[r].sending = <<>>
  BY DEF Send, Running, diskVars, loaderVars
<1>3. /\ p \in Nat \X Nat /\ p[1] \in readers[r].opened /\ After(p, readers[r].at)
      /\ p[1] \in 1 .. Len(scenario.logged[Path(r)])
      /\ p[2] \in 1 .. Len(scenario.logged[Path(r)][p[1]])
  BY UpcomingValue
<1>4. /\ DOMAIN state = 1 .. Len(state) /\ DOMAIN readers = DOMAIN state
      /\ \A q \in DOMAIN state : readers[q] \in Progress /\ Path(q) \in Dirs
      /\ readers \in Seq(Progress) /\ Len(readers) = Len(state) /\ scenario \in Scenarios
  BY Places DEF World, Types
<1> DEFINE event == scenario.logged[Path(r)][p[1]][p[2]]
           datum == [step |-> event.step, dir |-> Path(r), at |-> p,
                     tag |-> event.value.tag, meta |-> meta, tensor |-> TensorOf(event.value)]
           mds   == PutNew(readers[r].mds, event.value.tag, meta)
<1>0. PICK x : x = datum
  OBVIOUS
<1> DEFINE e == [opened |-> readers[r].opened, at |-> p, mds |-> mds, sending |-> <<x>>]
<1>5. event.value \in Values /\ Loggable(event)
  BY <1>3, <1>4, LoggedThere
<1>6. x \in Datum /\ event.value.tag \in Tags
  <2>1. event.step \in Int /\ event.value.tag \in Tags
        /\ TensorOf(event.value) \in {TensorOf(v) : v \in Values}
    <3> HIDE DEF event
    <3>1. MinInt .. MaxInt \subseteq Int
      OBVIOUS
    <3> QED
      BY <1>5, <3>1 DEF Loggable, Tags, TagsOf
  <2> HIDE DEF event
  <2> QED
    BY <1>0, <1>3, <1>4, <2>1 DEF Datum
<1>7. mds \in Stores /\ DOMAIN mds = DOMAIN readers[r].mds \cup {event.value.tag}
  <2>1. readers[r].mds \in Stores
    BY <1>4 DEF Progress
  <2> HIDE DEF event
  <2>2. PICK tags \in SUBSET Tags : readers[r].mds \in [tags -> Metas]
    BY <2>1 DEF Stores
  <2>3. mds \in [tags \cup {event.value.tag} -> Metas]
    BY <2>2 DEF PutNew, Put
  <2>4. tags \cup {event.value.tag} \in SUBSET Tags
    BY <1>6
  <2> HIDE DEF mds
  <2> QED
    BY <2>2, <2>3, <2>4 DEF Stores
<1>8. Genuine(r, x)' /\ x.at = p /\ x.tag = event.value.tag
  <2>1. /\ x.dir = Path(r) /\ x.at = p /\ x.step = event.step
        /\ x.tag = event.value.tag /\ x.tensor = TensorOf(event.value)
    BY <1>0
  <2>2. readers'[r].opened = readers[r].opened
    BY <1>1, <1>4 DEF Sends
  <2>3. Source(x) = event
    BY <2>1 DEF Source
  <2> HIDE DEF event
  <2>4. Genuine(r, x)
    <3>1. x.at[2] \in 1 .. Len(scenario.logged[x.dir][x.at[1]]) /\ x.at[1] \in readers[r].opened
      BY <1>3, <2>1
    <3> QED
      BY <1>6, <2>1, <2>3, <3>1 DEF Genuine
  <2>5. Keeps(r)
    BY <1>2, <2>2 DEF Keeps
  <2> QED
    BY <2>1, <2>4, <2>5, GenuineStays
<1>9. readers' = [readers EXCEPT ![r] = e]
  BY <1>0, <1>1, Zenon DEF Sends
<1>10. e \in Progress
  <2>1. <<x>> \in Seq(Datum)
    BY <1>6
  <2>2. readers[r].opened \in SUBSET Nat
    BY <1>4 DEF Progress
  <2> HIDE DEF mds
  <2> QED
    BY <1>3, <1>7, <2>1, <2>2 DEF Progress
<1>11. /\ e.opened = readers[r].opened /\ e.at = p /\ e.mds = mds
       /\ e.sending # <<>> /\ Len(e.sending) <= 1 /\ Head(e.sending) = x
  <2> HIDE DEF mds
  <2> QED
    OBVIOUS
<1> HIDE DEF e, mds, datum, event
<1>12. /\ readers' \in Seq(Progress) /\ Len(readers') = Len(readers)
       /\ DOMAIN readers' = DOMAIN readers /\ readers'[r] = e
       /\ \A q \in DOMAIN readers : q # r => readers'[q] = readers[q]
  <2> DEFINE t == [readers EXCEPT ![r] = e]
  <2>1. /\ t \in Seq(Progress) /\ Len(t) = Len(readers)
        /\ DOMAIN t = DOMAIN readers /\ t[r] = e
        /\ \A q \in DOMAIN readers : q # r => t[q] = readers[q]
    BY <1>4, <1>10, Replaced, Zenon
  <2> HIDE DEF t
  <2> QED
    BY <1>9, <2>1 DEF t
<1>13. Types' /\ Incarnations' /\ Discovering' /\ Mapped'
  BY <1>2, <1>4, <1>12 DEF World, Types, Incarnations, Discovering, Mapped, Path
<1>14. \A q \in DOMAIN state : readers'[q].opened = readers[q].opened
  BY <1>4, <1>11, <1>12
<1>15. Opened'
  BY <1>2, <1>14, Zenon DEF World, Opened, Path
<1>16. \A q \in DOMAIN state : Keeps(q)
  BY <1>2, <1>14 DEF Keeps
<1>17. Sending'
  <2>1. ASSUME NEW q \in DOMAIN state
        PROVE  /\ DOMAIN accs[q] \subseteq DOMAIN readers'[q].mds
               /\ Len(readers'[q].sending) <= 1
               /\ readers'[q].sending # <<>> => OnTheWay(q, Head(readers[q].sending))'
    <3>1. /\ DOMAIN accs[q] \subseteq DOMAIN readers[q].mds
          /\ Len(readers[q].sending) <= 1
          /\ readers[q].sending # <<>> => OnTheWay(q, Head(readers[q].sending))
      BY DEF World, Sending
    <3>2. CASE q = r
      <4>1. OnTheWay(q, x)'
        BY <1>7, <1>8, <1>11, <1>12, <3>2 DEF OnTheWay
      <4> QED
        BY <1>7, <1>11, <1>12, <3>1, <3>2, <4>1, Zenon DEF OnTheWay
    <3>3. CASE q # r
      <4>1. readers'[q] = readers[q]
        BY <1>4, <1>12, <3>3
      <4>2. \A y : OnTheWay(q, y) => OnTheWay(q, y)'
        BY <1>16, <4>1, GenuineStays, Zenon DEF OnTheWay
      <4> QED
        BY <3>1, <4>1, <4>2, Zenon DEF OnTheWay
    <3> QED
      BY <3>2, <3>3
  <2> QED
    BY <1>2, <2>1, Zenon DEF Sending, OnTheWay
<1>18. \A q \in DOMAIN state : \A y : Held(q, y) => Held(q, y)'
  BY <1>2, <1>16, SampleStays
<1>19. Sampled'
  <2>1. ASSUME NEW q \in DOMAIN state, NEW tag \in DOMAIN accs[q]
        PROVE  Sampling(q, tag)'
    <3>1. Sampling(q, tag)
      BY DEF World, Sampled
    <3>2. CASE q # r
      <4>1. readers'[q] = readers[q]
        BY <1>4, <1>12, <3>2
      <4> QED
        BY <1>2, <1>16, <3>1, <4>1, SampleStays
    <3>3. CASE q = r
      <4>1. \A y : Genuine(r, y) => Genuine(r, y)'
        BY <1>16, GenuineStays
      <4>2. \A y \in accs[r][tag].sample : After(p, y.at)
        <5>1. ASSUME NEW y \in accs[r][tag].sample
              PROVE  After(p, y.at)
          <6>1. (y.at = readers[r].at \/ After(readers[r].at, y.at)) /\ Genuine(r, y)
            BY <3>1, <3>3, Zenon DEF Sampling
          <6>2. y.at \in Nat \X Nat /\ readers[r].at \in Nat \X Nat
            BY <1>4, <3>1, <3>3 DEF Sampling, Genuine, Datum, Progress
          <6> QED
            BY <1>3, <6>1, <6>2 DEF After
        <5> QED
          BY <5>1
      <4>3. readers'[r].at = p
        BY <1>11, <1>12
      <4> QED
        BY <1>2, <3>1, <3>3, <4>1, <4>2, <4>3, Zenon DEF Sampling
    <3> QED
      BY <3>2, <3>3
  <2> QED
    BY <1>2, <2>1 DEF Sampled
<1>20. Grows
  <2>1. \A d \in Dirs : gone[d] <= gone'[d] /\ born[d] <= born'[d]
    BY <1>2, Numbers
  <2> QED
    BY <1>2, <1>14, <1>16, <1>18, <2>1 DEF Grows
<1> QED
  BY <1>13, <1>15, <1>17, <1>19, <1>20 DEF World

(***************************************************************************)
(* An accumulator takes in the value x that its reader has sent: "had" is  *)
(* what it had of the series, "now" what it has then.                      *)
(***************************************************************************)
Takes(r, x, had, now) ==
  /\ accs' = [accs EXCEPT ![r] = Put(accs[r], x.tag, now)]
  /\ readers' = [readers EXCEPT ![r].sending = <<>>]
  /\ had = IF x.tag \in DOMAIN accs[r] THEN accs[r][x.tag]
           ELSE [md |-> x.meta, sample |-> {}, offered |-> 0]
  /\ \/ had.md = NoMeta /\ now = had
     \/ /\ had.md # NoMeta /\ now.md = had.md /\ now.offered = had.offered + 1
        /\ now = [md |-> now.md, sample |-> now.sample, offered |-> now.offered]
        /\ x \in now.sample
        /\ now.sample \subseteq {y \in had.sample : y.step < x.step} \cup {x}

\* What an accumulator does with a value is to take it so.
LEMMA IngestEffect ==
  ASSUME World, NEW r \in DOMAIN state, Ingest(r)
  PROVE  \E x, had, now : x = Head(readers[r].sending) /\ Takes(r, x, had, now)
<1> DEFINE x == Head(readers[r].sending)
           had == IF x.tag \in DOMAIN accs[r] THEN accs[r][x.tag]
                  ELSE [md |-> x.meta, sample |-> {}, offered |-> 0]
           Keep(now) == accs' = [accs EXCEPT ![r] = Put(@, x.tag, now)]
           Now(s) == [md |-> had.md, sample |-> s, offered |-> had.offered + 1]
<1>1. readers' = [readers EXCEPT ![r].sending = <<>>]
  BY DEF Ingest
<1>2. \/ had.md = NoMeta /\ Keep(had)
      \/ /\ had.md # NoMeta
         /\ \E s \in SamplesAfter(had.sample, had.offered, CapacityOf(had.md.class), x) :
              Keep(Now(s))
  BY Zenon DEF Ingest
<1>3. ASSUME NEW now, Keep(now)
      PROVE  accs' = [accs EXCEPT ![r] = Put(accs[r], x.tag, now)]
  BY <1>3
<1> HIDE DEF x, had, Keep
<1>4. CASE had.md = NoMeta /\ Keep(had)
  <2>1. Takes(r, x, had, had)
    BY <1>1, <1>3, <1>4 DEF Takes, had
  <2> QED
    BY <2>1, Zenon DEF x
<1>5. ASSUME had.md # NoMeta,
             NEW s \in SamplesAfter(had.sample, had.offered, CapacityOf(had.md.class), x),
             Keep(Now(s))
      PROVE  \E y, h, now : y = Head(readers[r].sending) /\ Takes(r, y, h, now)
  <2>1. x \in s /\ s \subseteq {y \in had.sample : y.step < x.step} \cup {x}
    BY DEF SamplesAfter, Before
  <2>2. /\ Now(s).md = had.md /\ Now(s).sample = s /\ Now(s).offered = had.offered + 1
        /\ Now(s) = [md |-> Now(s).md, sample |-> Now(s).sample, offered |-> Now(s).offered]
    OBVIOUS
  <2>3. accs' = [accs EXCEPT ![r] = Put(accs[r], x.tag, Now(s))]
    BY <1>3, <1>5
  <2> HIDE DEF Now
  <2>4. Takes(r, x, had, Now(s))
    BY <1>1, <1>5, <2>1, <2>2, <2>3 DEF Takes, had
  <2> QED
    BY <2>4, Zenon DEF x
<1> QED
  BY <1>2, <1>4, <1>5

(***************************************************************************)
(* "Later" orders the places of a directory.                               *)
(***************************************************************************)
LEMMA AfterIsTransitive ==
  \A p, q, s \in Nat \X Nat : /\ After(p, q) /\ After(q, s) => After(p, s)
                              /\ ~After(p, p)
BY DEF After

(***************************************************************************)
(* What a sample has become when x has entered it.                         *)
(***************************************************************************)
Entered(r, x, had, now) ==
  /\ now \in Stored /\ had \in Stored /\ now.md = had.md
  /\ IsFiniteSet(now.sample) /\ (now.md = NoMeta <=> now.sample = {})
  /\ \A y \in now.sample : y = x \/ (y \in had.sample /\ y.step < x.step)
  /\ \A y \in had.sample :
       /\ Genuine(r, y) /\ y.tag = x.tag /\ After(x.at, y.at)
       /\ \A z \in had.sample : /\ y # z => y.step # z.step
                                /\ y.step < z.step => After(z.at, y.at)
  /\ now.sample = had.sample \/ x \in now.sample

\* A sample that takes a later value is in order as it was before.
LEMMA TakesSample ==
  ASSUME World, NEW r \in DOMAIN state, readers[r].sending # <<>>,
         NEW had, NEW now, NEW x, x = Head(readers[r].sending), Takes(r, x, had, now)
  PROVE  Entered(r, x, had, now)
<1>1. /\ OnTheWay(r, x) /\ r \in DOMAIN accs /\ accs[r] \in Accumulators
  BY Places DEF World, Sending
<1>2. x \in Datum /\ x.at = readers[r].at
  BY <1>1 DEF OnTheWay, Genuine
<1>3. /\ had \in Stored
      /\ IsFiniteSet(had.sample) /\ (had.md = NoMeta => had.sample = {})
      /\ x.tag \in DOMAIN accs[r] => (had.md = NoMeta <=> had.sample = {})
      /\ \A y \in had.sample :
           /\ Genuine(r, y) /\ y.tag = x.tag /\ After(x.at, y.at)
           /\ \A z \in had.sample : /\ y # z => y.step # z.step
                                    /\ y.step < z.step => After(z.at, y.at)
  <2>1. CASE x.tag \in DOMAIN accs[r]
    <3>1. had = accs[r][x.tag] /\ Sampling(r, x.tag)
      BY <2>1 DEF Takes, World, Sampled
    <3>2. had \in Stored
      <4>1. PICK tags \in SUBSET Tags : accs[r] \in [tags -> Stored]
        BY <1>1 DEF Accumulators
      <4> QED
        BY <2>1, <3>1, <4>1
    <3> QED
      BY <1>2, <3>1, <3>2, Zenon DEF Sampling
  <2>2. CASE x.tag \notin DOMAIN accs[r]
    <3>1. had = [md |-> x.meta, sample |-> {}, offered |-> 0]
      BY <2>2 DEF Takes
    <3>2. x.meta \in Metas
      BY <1>2 DEF Datum
    <3>3. had \in Stored /\ had.sample = {}
      BY <3>1, <3>2 DEF Stored
    <3> QED
      BY <2>2, <3>3, FS_EmptySet
  <2> QED
    BY <2>1, <2>2
<1>4. CASE had.md = NoMeta /\ now = had
  BY <1>3, <1>4 DEF Entered
<1>5. CASE had.md # NoMeta
  <2>1. /\ now.md = had.md /\ now.offered = had.offered + 1
        /\ now = [md |-> now.md, sample |-> now.sample, offered |-> now.offered]
        /\ x \in now.sample
        /\ now.sample \subseteq {y \in had.sample : y.step < x.step} \cup {x}
    BY <1>5, Zenon DEF Takes
  <2>2. had.md \in Metas /\ had.offered \in Nat /\ had.sample \subseteq Datum
    BY <1>3 DEF Stored
  <2>3. now.sample \subseteq Datum /\ now.sample \subseteq had.sample \cup {x}
    BY <1>2, <2>1, <2>2
  <2>4. now \in Stored
    BY <2>1, <2>2, <2>3 DEF Stored
  <2>5. IsFiniteSet(now.sample)
    <3>1. IsFiniteSet(had.sample \cup {x})
      BY <1>3, FS_AddElement
    <3> QED
      BY <2>3, <3>1, FS_Subset
  <2> QED
    BY <1>3, <1>5, <2>1, <2>4, <2>5 DEF Entered
<1> QED
  BY <1>4, <1>5 DEF Takes

\* What has been in the sample is still there, or something newer is.
LEMMA IngestKeepsWorld ==
  ASSUME World, NEW r \in DOMAIN state, Ingest(r)
  PROVE  World' /\ Grows
<1>1. PICK x, had, now : x = Head(readers[r].sending) /\ Takes(r, x, had, now)
  BY IngestEffect
<1>2. /\ UNCHANGED <<scenario, disk, born, changes, data, state, found, gone>>
      /\ call.pc # "panicked" /\ readers[r].sending # <<>>
  BY DEF Ingest, Running, diskVars, loaderVars
<1>3. /\ DOMAIN state = 1 .. Len(state) /\ DOMAIN readers = DOMAIN state
      /\ DOMAIN accs = DOMAIN state
      /\ \A q \in DOMAIN state : readers[q] \in Progress /\ accs[q] \in Accumulators
      /\ readers \in Seq(Progress) /\ Len(readers) = Len(state)
      /\ accs \in Seq(Accumulators) /\ Len(accs) = Len(state)
  BY Places DEF World, Types
<1>4. OnTheWay(r, x) /\ Genuine(r, x) /\ x \in Datum /\ x.at = readers[r].at
      /\ x.tag \in DOMAIN readers[r].mds /\ DOMAIN accs[r] \subseteq DOMAIN readers[r].mds
  BY <1>1, <1>2 DEF World, Sending, OnTheWay, Genuine
<1>5. /\ now \in Stored /\ had \in Stored /\ now.md = had.md
      /\ IsFiniteSet(now.sample) /\ (now.md = NoMeta <=> now.sample = {})
      /\ \A y \in now.sample : y = x \/ (y \in had.sample /\ y.step < x.step)
      /\ \A y \in had.sample :
           /\ Genuine(r, y) /\ y.tag = x.tag /\ After(x.at, y.at)
           /\ \A z \in had.sample : /\ y # z => y.step # z.step
                                    /\ y.step < z.step => After(z.at, y.at)
      /\ now.sample = had.sample \/ x \in now.sample
  <2>1. Entered(r, x, had, now)
    BY <1>1, <1>2, TakesSample
  <2> QED
    BY <2>1 DEF Entered
<1> DEFINE e == [readers[r] EXCEPT !.sending = <<>>]
           acc == Put(accs[r], x.tag, now)
<1>6. readers' = [readers EXCEPT ![r] = e] /\ accs' = [accs EXCEPT ![r] = acc]
  BY <1>1, <1>3 DEF Takes
<1>7. /\ e \in Progress /\ e.opened = readers[r].opened /\ e.at = readers[r].at
      /\ e.mds = readers[r].mds /\ e.sending = <<>>
  <2>1. readers[r] \in Progress /\ <<>> \in Seq(Datum)
    BY <1>3, EmptySeq
  <2> QED
    BY <2>1 DEF Progress
<1>8. /\ acc \in Accumulators /\ DOMAIN acc = DOMAIN accs[r] \cup {x.tag}
      /\ acc[x.tag] = now /\ \A tag \in DOMAIN accs[r] : tag # x.tag => acc[tag] = accs[r][tag]
  <2>1. PICK tags \in SUBSET Tags : accs[r] \in [tags -> Stored]
    BY <1>3 DEF Accumulators
  <2>2. x.tag \in Tags
    BY <1>4 DEF Datum
  <2>3. acc \in [tags \cup {x.tag} -> Stored]
    BY <1>5, <2>1 DEF Put
  <2>4. acc \in Accumulators
    <3> HIDE DEF acc
    <3> QED
      BY <2>2, <2>3 DEF Accumulators
  <2> QED
    BY <2>1, <2>4 DEF Put
<1> HIDE DEF e, acc
<1>9. /\ readers' \in Seq(Progress) /\ Len(readers') = Len(readers)
      /\ DOMAIN readers' = DOMAIN readers /\ readers'[r] = e
      /\ \A q \in DOMAIN readers : q # r => readers'[q] = readers[q]
  <2> DEFINE t == [readers EXCEPT ![r] = e]
  <2>1. readers \in Seq(Progress) /\ r \in DOMAIN readers /\ e \in Progress
    BY <1>3, <1>7
  <2>2. /\ t \in Seq(Progress) /\ Len(t) = Len(readers)
        /\ DOMAIN t = DOMAIN readers /\ t[r] = e
        /\ \A q \in DOMAIN readers : q # r => t[q] = readers[q]
    BY <2>1, Replaced
  <2> HIDE DEF t
  <2> QED
    BY <1>6, <2>2 DEF t
<1>10. /\ accs' \in Seq(Accumulators) /\ Len(accs') = Len(accs)
       /\ DOMAIN accs' = DOMAIN accs /\ accs'[r] = acc
       /\ \A q \in DOMAIN accs : q # r => accs'[q] = accs[q]
  <2> DEFINE t == [accs EXCEPT ![r] = acc]
  <2>1. accs \in Seq(Accumulators) /\ r \in DOMAIN accs /\ acc \in Accumulators
    BY <1>3, <1>8
  <2>2. /\ t \in Seq(Accumulators) /\ Len(t) = Len(accs)
        /\ DOMAIN t = DOMAIN accs /\ t[r] = acc
        /\ \A q \in DOMAIN accs : q # r => t[q] = accs[q]
    BY <2>1, Replaced
  <2> HIDE DEF t
  <2> QED
    BY <1>6, <2>2 DEF t
<1>11. Types' /\ Incarnations' /\ Discovering' /\ Mapped'
  BY <1>2, <1>3, <1>9, <1>10 DEF World, Types, Incarnations, Discovering, Mapped, Path
<1>12. \A q \in DOMAIN state : /\ readers'[q].opened = readers[q].opened
                               /\ readers'[q].at = readers[q].at
                               /\ readers'[q].mds = readers[q].mds
  BY <1>3, <1>7, <1>9
<1>13. Opened'
  BY <1>2, <1>12, Zenon DEF World, Opened, Path
<1>14. \A q \in DOMAIN state : Keeps(q)
  BY <1>2, <1>12 DEF Keeps
<1>15. \A q \in DOMAIN state : \A y : Genuine(q, y) => Genuine(q, y)'
  BY <1>14, GenuineStays
<1>16. Sending'
  <2>1. ASSUME NEW q \in DOMAIN state
        PROVE  /\ DOMAIN accs'[q] \subseteq DOMAIN readers'[q].mds
               /\ Len(readers'[q].sending) <= 1
               /\ readers'[q].sending # <<>> => OnTheWay(q, Head(readers[q].sending))'
    <3>1. /\ DOMAIN accs[q] \subseteq DOMAIN readers[q].mds
          /\ Len(readers[q].sending) <= 1
          /\ readers[q].sending # <<>> => OnTheWay(q, Head(readers[q].sending))
      BY DEF World, Sending
    <3>2. CASE q = r
      <4>1. Len(<<>>) <= 1 /\ readers'[q].sending = <<>>
        BY <1>7, <1>9, <3>2
      <4>2. DOMAIN accs'[q] \subseteq DOMAIN readers'[q].mds
        BY <1>4, <1>8, <1>10, <1>12, <3>1, <3>2
      <4> QED
        BY <4>1, <4>2
    <3>3. CASE q # r
      <4>1. readers'[q] = readers[q] /\ accs'[q] = accs[q]
        BY <1>3, <1>9, <1>10, <3>3
      <4>2. \A y : OnTheWay(q, y) => OnTheWay(q, y)'
        BY <1>15, <4>1, Zenon DEF OnTheWay
      <4> QED
        BY <3>1, <4>1, <4>2, Zenon DEF OnTheWay
    <3> QED
      BY <3>2, <3>3
  <2> QED
    BY <1>2, <2>1, Zenon DEF Sending, OnTheWay
<1>17. Sampled'
  <2>1. ASSUME NEW q \in DOMAIN state, q # r
        PROVE  \A tag \in DOMAIN accs'[q] : Sampling(q, tag)'
    <3>1. readers'[q] = readers[q] /\ accs'[q] = accs[q] /\ Keeps(q)
      BY <1>3, <1>9, <1>10, <1>14, <2>1
    <3>2. \A tag \in DOMAIN accs[q] : Sampling(q, tag)
      BY DEF World, Sampled
    <3> QED
      BY <3>1, <3>2, SampleStays
  <2>2. readers'[r].sending = <<>> /\ readers'[r].at = readers[r].at
    BY <1>7, <1>9
  <2>3. Sampling(r, x.tag)'
    <3>1. accs'[r][x.tag] = now
      BY <1>8, <1>10
    <3>2. ASSUME NEW y \in now.sample
          PROVE  /\ Genuine(r, y)' /\ y.tag = x.tag
                 /\ (readers'[r].sending = <<>> /\ y.at = readers'[r].at)
                      \/ After(readers'[r].at, y.at)
      BY <1>4, <1>5, <1>15, <2>2, Zenon
    <3>3. ASSUME NEW y \in now.sample, NEW z \in now.sample
          PROVE  /\ y # z => y.step # z.step
                 /\ y.step < z.step => After(z.at, y.at)
      <4>1. y.step \in Int /\ z.step \in Int
        <5>1. now.sample \subseteq Datum
          BY <1>5 DEF Stored
        <5> QED
          BY <5>1 DEF Datum
      <4>2. y = x \/ (y \in had.sample /\ y.step < x.step)
        BY <1>5
      <4>3. z = x \/ (z \in had.sample /\ z.step < x.step)
        BY <1>5
      <4> QED
        BY <1>5, <4>1, <4>2, <4>3
    <3> QED
      BY <1>5, <3>1, <3>2, <3>3, Zenon DEF Sampling
  <2>4. ASSUME NEW tag \in DOMAIN accs[r], tag # x.tag
        PROVE  Sampling(r, tag)'
    <3>1. Sampling(r, tag)
      BY DEF World, Sampled
    <3>2. accs'[r][tag] = accs[r][tag]
      BY <1>8, <1>10, <2>4
    <3> QED
      BY <1>2, <1>15, <2>2, <3>1, <3>2, Zenon DEF Sampling
  <2>5. DOMAIN accs'[r] = DOMAIN accs[r] \cup {x.tag}
    BY <1>8, <1>10
  <2>6. \A tag \in DOMAIN accs'[r] : Sampling(r, tag)'
    BY <2>3, <2>4, <2>5
  <2>7. \A q \in DOMAIN state : \A tag \in DOMAIN accs'[q] : Sampling(q, tag)'
    BY <2>1, <2>6
  <2> QED
    BY <1>2, <2>7 DEF Sampled
<1>18. \A q \in DOMAIN state : \A y : Held(q, y) => Held(q, y)'
  <2>1. ASSUME NEW q \in DOMAIN state, NEW y, Held(q, y)
        PROVE  Held(q, y)'
    <3>1. /\ Genuine(q, y) /\ y.tag \in DOMAIN accs[q]
          /\ y \in accs[q][y.tag].sample \/ \E z \in accs[q][y.tag].sample : After(z.at, y.at)
          /\ \A z \in accs[q][y.tag].sample : z.step = y.step => z = y \/ After(z.at, y.at)
      BY <2>1, Zenon DEF Held
    <3>2. CASE q # r
      <4>1. accs'[q] = accs[q] /\ Keeps(q)
        BY <1>3, <1>10, <1>14, <3>2
      <4> QED
        BY <2>1, <4>1, SampleStays
    <3>3. CASE q = r /\ y.tag # x.tag
      <4>1. accs'[q][y.tag] = accs[q][y.tag] /\ y.tag \in DOMAIN accs'[q]
        BY <1>8, <1>10, <3>1, <3>3
      <4> QED
        BY <1>15, <3>1, <4>1, Zenon DEF Held
    <3>4. CASE q = r /\ y.tag = x.tag
      <4>1. had = accs[q][y.tag] /\ accs'[q][y.tag] = now /\ y.tag \in DOMAIN accs'[q]
        BY <1>1, <1>8, <1>10, <3>1, <3>4 DEF Takes
      <4>2. After(x.at, y.at)
        <5>1. /\ x.at \in Nat \X Nat /\ y.at \in Nat \X Nat
              /\ \A z \in had.sample : z.at \in Nat \X Nat
          <6>1. x \in Datum /\ y \in Datum /\ had.sample \subseteq Datum
            BY <1>4, <1>5, <3>1 DEF Genuine, Stored
          <6> QED
            BY <6>1 DEF Datum
        <5>2. CASE y \in had.sample
          BY <1>5, <5>2
        <5>3. CASE \E z \in had.sample : After(z.at, y.at)
          <6>1. PICK z \in had.sample : After(z.at, y.at)
            BY <5>3
          <6>2. After(x.at, z.at)
            BY <1>5
          <6> QED
            BY <5>1, <6>1, <6>2, AfterIsTransitive
        <5> QED
          BY <3>1, <4>1, <5>2, <5>3
      <4>3. y \in now.sample \/ \E z \in now.sample : After(z.at, y.at)
        BY <1>5, <3>1, <4>1, <4>2
      <4>4. \A z \in now.sample : z.step = y.step => z = y \/ After(z.at, y.at)
        BY <1>5, <3>1, <4>1, <4>2
      <4> QED
        BY <1>15, <3>1, <4>1, <4>3, <4>4, Zenon DEF Held
    <3> QED
      BY <3>2, <3>3, <3>4
  <2> QED
    BY <2>1
<1>19. Grows
  <2>1. \A d \in Dirs : gone[d] <= gone'[d] /\ born[d] <= born'[d]
    BY <1>2, Numbers
  <2>2. ASSUME NEW q \in DOMAIN state, NEW tag \in DOMAIN accs[q]
        PROVE  tag \in DOMAIN accs'[q] /\ accs'[q][tag].md = accs[q][tag].md
    <3>1. CASE q # r
      BY <1>3, <1>10, <3>1
    <3>2. CASE q = r /\ tag # x.tag
      BY <1>8, <1>10, <3>2
    <3>3. CASE q = r /\ tag = x.tag
      <4>1. had = accs[q][tag]
        BY <1>1, <3>3 DEF Takes
      <4> QED
        BY <1>5, <1>8, <1>10, <3>3, <4>1
    <3> QED
      BY <3>1, <3>2, <3>3
  <2> QED
    BY <1>2, <1>12, <1>14, <1>18, <2>1, <2>2 DEF Grows
<1> QED
  BY <1>11, <1>13, <1>16, <1>17, <1>19 DEF World

-----------------------------------------------------------------------------
(***************************************************************************)
(* A sequence is made longer.                                              *)
(***************************************************************************)
Extends(u, s, n, t) ==
  /\ Len(u) = Len(s) + n
  /\ \A r \in 1 .. Len(s) : u[r] = s[r]
  /\ \A i \in 1 .. n : u[Len(s) + i] = t[i]

\* That is what concatenation does.
LEMMA Longer ==
  ASSUME NEW S, NEW s \in Seq(S), NEW n \in Nat, NEW t \in [1 .. n -> S]
  PROVE  s \o t \in Seq(S) /\ Extends(s \o t, s, n, t)
<1> DEFINE u == s \o t
<1>1. t \in Seq(S) /\ Len(t) = n /\ Len(s) \in Nat
  BY SeqOfFunction, LenProperties
<1>2. /\ u \in Seq(S) /\ Len(u) = Len(s) + Len(t)
      /\ \A i \in 1 .. Len(s) + Len(t) :
           u[i] = IF i <= Len(s) THEN s[i] ELSE t[i - Len(s)]
  BY <1>1, ConcatProperties, ZenonT(40)
<1> HIDE DEF u
<1>3. \A r \in 1 .. Len(s) : u[r] = s[r]
  BY <1>1, <1>2
<1>4. \A i \in 1 .. n : u[Len(s) + i] = t[i]
  <2>1. ASSUME NEW i \in 1 .. n
        PROVE  u[Len(s) + i] = t[i]
    <3> DEFINE k == Len(s) + i
    <3>1. k \in 1 .. Len(s) + Len(t) /\ ~(k <= Len(s)) /\ k - Len(s) = i
      BY <1>1
    <3> HIDE DEF k
    <3>2. u[k] = t[i]
      BY <1>2, <3>1
    <3> QED
      BY <3>2 DEF k
  <2> QED
    BY <2>1
<1> QED
  BY <1>1, <1>2, <1>3, <1>4 DEF Extends, u

\* The runs that a discovery has found: the names of the new ones.
Found(dirs) == {Rel(Logdir, d) : d \in dirs}
Fresh(dirs) == Found(dirs) \ Names(data)
New(dirs) == SetToSeq(Fresh(dirs))

(***************************************************************************)
(* They are finitely many, taken in some order, each once.                 *)
(***************************************************************************)
LEMMA NewRuns ==
  ASSUME NEW dirs \in SUBSET Dirs
  PROVE  LET new == New(dirs)
         IN  /\ new \in Seq(Fresh(dirs)) /\ ToSet(new) = Fresh(dirs)
             /\ DOMAIN new = 1 .. Len(new) /\ Len(new) \in Nat
             /\ \A i, j \in 1 .. Len(new) : new[i] = new[j] => i = j
<1> DEFINE f == [d \in dirs |-> Rel(Logdir, d)]
           T == {f[d] : d \in dirs}
<1>1. f \in Surjection(dirs, T)
  BY DEF Surjection
<1>2. IsFiniteSet(dirs)
  BY ServerAssumption, FS_Subset
<1>3. IsFiniteSet(T)
  <2> HIDE DEF f, T
  <2> QED
    BY <1>1, <1>2, FS_Surjection
<1>4. Fresh(dirs) \in SUBSET T
  BY DEF Fresh, Found
<1>5. IsFiniteSet(Fresh(dirs))
  <2> HIDE DEF T
  <2> QED
    BY <1>3, <1>4, FS_Subset
<1>6. New(dirs) \in SetToSeqs(Fresh(dirs))
  BY <1>5, ElementsInOrder DEF New
<1> DEFINE new == New(dirs)
<1> HIDE DEF new
<1>7. new \in Seq(Fresh(dirs)) /\ ToSet(new) = Fresh(dirs)
      /\ \A i, j \in DOMAIN new : new[i] = new[j] => i = j
  BY <1>5, <1>6, ElementsInSomeOrder DEF new
<1>8. DOMAIN new = 1 .. Len(new) /\ Len(new) \in Nat
  BY <1>7, LenProperties
<1> QED
  BY <1>7, <1>8 DEF new

(***************************************************************************)
(* What the loader makes of its map, and of the state of the readers.      *)
(***************************************************************************)
Mapping(dirs) ==
  /\ DOMAIN data' = Found(dirs)
  /\ data' = [name \in Names(data') |-> data'[name]]
  /\ \A name \in Found(dirs) : name \in Names(data) => data'[name] = data[name]
  /\ \A name \in Fresh(dirs) :
       \E i \in 1 .. Len(New(dirs)) :
         New(dirs)[i] = name /\ data'[name] = Len(state) + i

\* The map that SyncRuns makes: the runs found keep their readers.
LEMMA SyncMapping ==
  ASSUME NEW dirs \in SUBSET Dirs, Sync(dirs)
  PROVE  Mapping(dirs)
<1> DEFINE kept == Kept(Found(dirs))
           Number(name) == Len(state) + CHOOSE i \in DOMAIN New(dirs) : New(dirs)[i] = name
           pair == [name \in Fresh(dirs) |-> Number(name)]
<1>1. data' = PutAll(kept, pair)
  BY DEF Sync, Found, Fresh, New
<1>2. /\ DOMAIN kept = Names(data) \cap Found(dirs) /\ DOMAIN pair = Fresh(dirs)
      /\ (\A name \in Fresh(dirs) : pair[name] = Number(name))
      /\ \A name \in Names(data) \cap Found(dirs) : kept[name] = data[name]
  BY DEF Kept
<1>3. ASSUME NEW name \in Fresh(dirs)
      PROVE  \E i \in 1 .. Len(New(dirs)) : New(dirs)[i] = name /\ Number(name) = Len(state) + i
  <2> DEFINE new == New(dirs)
             i == CHOOSE k \in DOMAIN new : new[k] = name
  <2>1. ToSet(new) = Fresh(dirs) /\ DOMAIN new = 1 .. Len(new)
    BY NewRuns
  <2>2. \E k \in DOMAIN new : new[k] = name
    BY <2>1 DEF ToSet
  <2>3. i \in DOMAIN new /\ new[i] = name
    BY <2>2
  <2>4. Number(name) = Len(state) + i
    OBVIOUS
  <2> QED
    BY <2>1, <2>3, <2>4
<1>4. Fresh(dirs) \cap Names(data) = {} /\ Fresh(dirs) \subseteq Found(dirs)
      /\ Found(dirs) \subseteq Names(data) \cup Fresh(dirs)
  BY DEF Fresh
<1> HIDE DEF kept, pair, Number
<1>5. /\ DOMAIN data' = Found(dirs)
      /\ data' = [name \in DOMAIN data' |-> data'[name]]
      /\ \A name \in Fresh(dirs) : data'[name] = Number(name)
      /\ \A name \in Found(dirs) : name \in Names(data) => data'[name] = data[name]
  <2> DEFINE m == PutAll(kept, pair)
  <2>1. /\ m = [name \in Found(dirs) |-> IF name \in Fresh(dirs) THEN pair[name] ELSE kept[name]]
    BY <1>2, <1>4 DEF PutAll
  <2>2. data' = m
    BY <1>1
  <2> HIDE DEF m
  <2> QED
    BY <1>2, <1>4, <2>1, <2>2
<1> QED
  BY <1>3, <1>5 DEF Mapping, Names

Closes(dirs, r) == r \in Readers /\ Path(r) \notin dirs
Placing(dirs) ==
  /\ state' \in Seq(ReaderState) /\ Len(state') = Len(state) + Len(New(dirs))
  /\ \A r \in 1 .. Len(state) :
       IF Closes(dirs, r) THEN Does(state, state', r, "closed") ELSE state'[r] = state[r]
  /\ \A i \in 1 .. Len(New(dirs)) :
       state'[Len(state) + i] = [path |-> Logdir \o New(dirs)[i], doing |-> "asleep"]

\* Its readers: those that are dropped are closed, the others stay.
LEMMA SyncPlacing ==
  ASSUME Types, NEW dirs \in SUBSET Dirs, Sync(dirs)
  PROVE  Placing(dirs)
<1> DEFINE new == New(dirs)
           e(r) == [state[r] EXCEPT !.doing = "closed"]
           closed == [r \in DOMAIN state |-> IF Closes(dirs, r) THEN e(r) ELSE state[r]]
           started == [i \in DOMAIN new |-> [path |-> Logdir \o new[i], doing |-> "asleep"]]
<1>1. state' = closed \o started
  BY DEF Sync, Found, Fresh, New, Closes, Path
<1>2. /\ new \in Seq(Fresh(dirs)) /\ DOMAIN new = 1 .. Len(new) /\ Len(new) \in Nat
  BY NewRuns
<1>3. /\ state \in Seq(ReaderState) /\ DOMAIN state = 1 .. Len(state) /\ Len(state) \in Nat
      /\ \A r \in 1 .. Len(state) : state[r] \in ReaderState
  BY LenProperties, ElementOfSeq DEF Types
<1>4. \A r \in 1 .. Len(state) :
        e(r) \in ReaderState /\ e(r).doing = "closed" /\ e(r).path = state[r].path
  BY <1>3 DEF ReaderState
<1> HIDE DEF new, e
<1>5. closed \in Seq(ReaderState) /\ Len(closed) = Len(state)
  <2>1. closed \in [1 .. Len(state) -> ReaderState]
    BY <1>3, <1>4
  <2> HIDE DEF closed
  <2> QED
    BY <1>3, <2>1, SeqOfFunction
<1>6. \A r \in 1 .. Len(state) : closed[r] = IF Closes(dirs, r) THEN e(r) ELSE state[r]
  BY <1>3
<1>7. /\ started \in [1 .. Len(new) -> ReaderState]
      /\ \A i \in 1 .. Len(new) : started[i] = [path |-> Logdir \o new[i], doing |-> "asleep"]
  <2>1. ASSUME NEW i \in 1 .. Len(new)
        PROVE  [path |-> Logdir \o new[i], doing |-> "asleep"] \in ReaderState
    <3>1. new[i] \in Fresh(dirs)
      BY <1>2, ElementOfSeq
    <3>2. PICK d \in dirs : new[i] = Rel(Logdir, d)
      BY <3>1 DEF Fresh, Found
    <3>3. d \in Dirs
      OBVIOUS
    <3>4. Logdir \o new[i] = d
      BY <3>2, <3>3, RelSays
    <3> QED
      BY <3>3, <3>4 DEF ReaderState
  <2> QED
    BY <1>2, <2>1
<1> HIDE DEF closed, started
<1>8. /\ closed \o started \in Seq(ReaderState)
      /\ Extends(closed \o started, closed, Len(new), started)
  BY <1>2, <1>5, <1>7, Longer
<1>9. \A r \in 1 .. Len(state) :
        IF Closes(dirs, r) THEN Does(state, state', r, "closed") ELSE state'[r] = state[r]
  BY <1>1, <1>4, <1>5, <1>6, <1>8 DEF Does, Extends
<1> QED
  BY <1>1, <1>5, <1>7, <1>8, <1>9 DEF Placing, Extends, new

\* The readers and accumulators of the new runs have nothing yet.
Starting(n) ==
  /\ readers' \in Seq(Progress) /\ Extends(readers', readers, n, [i \in 1 .. n |-> NewReader])
  /\ accs' \in Seq(Accumulators) /\ Extends(accs', accs, n, [i \in 1 .. n |-> <<>>])

\* The new ones start with nothing.
LEMMA SyncStarting ==
  ASSUME Types, NEW dirs \in SUBSET Dirs, SyncRuns(dirs)
  PROVE  Starting(Len(New(dirs)))
<1> DEFINE n == Len(New(dirs))
           fresh == [i \in 1 .. n |-> NewReader]
           empty == [i \in 1 .. n |-> <<>>]
<1>1. Placing(dirs)
  BY SyncPlacing DEF SyncRuns
<1>2. n \in Nat
  BY NewRuns
<1>3. /\ state \in Seq(ReaderState) /\ Len(state) \in Nat
      /\ readers \in Seq(Progress) /\ accs \in Seq(Accumulators)
  BY LenProperties DEF Types
<1>4. 1 .. Len(state') - Len(state) = 1 .. n
  <2>1. Len(state') = Len(state) + n
    BY <1>1 DEF Placing
  <2> HIDE DEF n
  <2> QED
    BY <1>2, <1>3, <2>1
<1>5. readers' = readers \o fresh /\ accs' = accs \o empty
  <2>1. LET new == 1 .. Len(state') - Len(state)
        IN  /\ readers' = readers \o [i \in new |-> NewReader]
            /\ accs' = accs \o [i \in new |-> <<>>]
    BY DEF SyncRuns
  <2> HIDE DEF n
  <2> QED
    BY <1>4, <2>1
<1>6. fresh \in [1 .. n -> Progress] /\ empty \in [1 .. n -> Accumulators]
  <2>1. NewReader \in Progress
    <3>1. <<>> \in Stores
      <4>1. <<>> \in [{} -> Metas]
        OBVIOUS
      <4> QED
        BY <4>1 DEF Stores
    <3>2. <<>> \in Seq(Datum)
      BY EmptySeq
    <3> QED
      BY <3>1, <3>2 DEF NewReader, Progress
  <2>2. <<>> \in Accumulators
    <3>1. <<>> \in [{} -> Stored]
      OBVIOUS
    <3> QED
      BY <3>1 DEF Accumulators
  <2> QED
    BY <2>1, <2>2
<1> HIDE DEF n, fresh, empty
<1>7. readers \o fresh \in Seq(Progress) /\ Extends(readers \o fresh, readers, n, fresh)
  BY <1>2, <1>3, <1>6, Longer
<1>8. accs \o empty \in Seq(Accumulators) /\ Extends(accs \o empty, accs, n, empty)
  BY <1>2, <1>3, <1>6, Longer
<1> QED
  BY <1>5, <1>7, <1>8 DEF Starting, n, fresh, empty

(***************************************************************************)
(* The loader brings its map in line with the disk.                        *)
(***************************************************************************)
LEMMA SyncKeepsWorld ==
  ASSUME World, NEW dirs \in SUBSET Dirs, SyncRuns(dirs)
  PROVE  World' /\ Grows
<1> DEFINE n == Len(New(dirs))
           N == Len(state)
<1>1. /\ UNCHANGED <<scenario, disk, born, changes>> /\ call.pc # "panicked"
      /\ found.on /\ found.stayed \subseteq dirs /\ dirs \subseteq found.appeared
      /\ found' = NotDiscovering
      /\ gone' = [d \in Dirs |-> IF d \in dirs THEN gone[d]
                                 ELSE IF d \in disk THEN born[d] - 1 ELSE born[d]]
  BY DEF SyncRuns, Running, diskVars
<1>2. Mapping(dirs) /\ Placing(dirs) /\ Starting(n)
  BY SyncMapping, SyncPlacing, SyncStarting DEF SyncRuns, World
<1>3. /\ New(dirs) \in Seq(Fresh(dirs)) /\ ToSet(New(dirs)) = Fresh(dirs) /\ n \in Nat
      /\ DOMAIN New(dirs) = 1 .. n
      /\ \A i, j \in 1 .. n : New(dirs)[i] = New(dirs)[j] => i = j
  BY NewRuns
<1>4. /\ DOMAIN state = 1 .. N /\ N \in Nat /\ Len(readers) = N /\ Len(accs) = N
      /\ \A r \in DOMAIN state : Path(r) \in Dirs
  BY Places DEF World, Types
<1>5. \A i \in 1 .. n : /\ New(dirs)[i] \in Fresh(dirs) /\ Logdir \o New(dirs)[i] \in Dirs
                        /\ Logdir \o New(dirs)[i] \in dirs
                        /\ New(dirs)[i] \in Found(dirs) /\ New(dirs)[i] \notin Names(data)
  <2>1. ASSUME NEW i \in 1 .. n
        PROVE  /\ New(dirs)[i] \in Fresh(dirs) /\ Logdir \o New(dirs)[i] \in Dirs
               /\ Logdir \o New(dirs)[i] \in dirs
               /\ New(dirs)[i] \in Found(dirs) /\ New(dirs)[i] \notin Names(data)
    <3>1. New(dirs)[i] \in Fresh(dirs)
      BY <1>3, ElementOfSeq
    <3>2. PICK d \in dirs : New(dirs)[i] = Rel(Logdir, d)
      BY <3>1 DEF Fresh, Found
    <3>3. d \in Dirs /\ Logdir \o New(dirs)[i] = d
      BY <3>2, RelSays
    <3> QED
      BY <3>1, <3>3 DEF Fresh
  <2> QED
    BY <2>1
<1>6. /\ state' \in Seq(ReaderState) /\ Len(state') = N + n /\ DOMAIN state' = 1 .. N + n
      /\ \A r \in 1 .. N : state'[r].path = state[r].path
      /\ \A r \in 1 .. N : state'[r].doing = "closed" <=>
                             state[r].doing = "closed" \/ Closes(dirs, r)
      /\ \A i \in 1 .. n : state'[N + i].path = Logdir \o New(dirs)[i]
                           /\ state'[N + i].doing = "asleep"
  <2>1. state' \in Seq(ReaderState) /\ Len(state') = N + n
    BY <1>2 DEF Placing
  <2>2. DOMAIN state' = 1 .. N + n
    BY <2>1, LenProperties
  <2>3. \A r \in 1 .. N : IF Closes(dirs, r) THEN Does(state, state', r, "closed")
                                             ELSE state'[r] = state[r]
    BY <1>2 DEF Placing
  <2>4. \A i \in 1 .. n : state'[N + i] = [path |-> Logdir \o New(dirs)[i], doing |-> "asleep"]
    BY <1>2 DEF Placing
  <2> HIDE DEF n, N
  <2>5. ASSUME NEW i \in 1 .. n
        PROVE  state'[N + i].path = Logdir \o New(dirs)[i] /\ state'[N + i].doing = "asleep"
    <3> DEFINE x == state'[N + i]
               p == Logdir \o New(dirs)[i]
    <3>1. x = [path |-> p, doing |-> "asleep"]
      BY <2>4
    <3> HIDE DEF x, p
    <3>2. x.path = p /\ x.doing = "asleep"
      BY <3>1
    <3> QED
      BY <3>2 DEF x, p
  <2>6. \A r \in 1 .. N : /\ state'[r].path = state[r].path
                          /\ state'[r].doing = "closed" <=>
                               state[r].doing = "closed" \/ Closes(dirs, r)
    BY <2>3, Zenon DEF Does
  <2> QED
    BY <2>1, <2>2, <2>5, <2>6, Zenon
<1>7. /\ readers' \in Seq(Progress) /\ Len(readers') = N + n
      /\ \A r \in 1 .. N : readers'[r] = readers[r]
      /\ \A i \in 1 .. n : readers'[N + i] = NewReader
      /\ accs' \in Seq(Accumulators) /\ Len(accs') = N + n
      /\ \A r \in 1 .. N : accs'[r] = accs[r]
      /\ \A i \in 1 .. n : accs'[N + i] = <<>>
  BY <1>2, <1>4 DEF Starting, Extends
<1>8. \A r \in 1 .. N + n : r \in 1 .. N \/ \E i \in 1 .. n : r = N + i
  <2> HIDE DEF n, N
  <2>1. ASSUME NEW r \in 1 .. N + n, r \notin 1 .. N
        PROVE  r - N \in 1 .. n /\ r = N + (r - N)
    BY <1>3, <1>4, <2>1
  <2> QED
    BY <2>1
<1>9. \A r \in 1 .. N : r \in 1 .. N + n
  <2> HIDE DEF n, N
  <2> QED
    BY <1>3, <1>4
<1>10. \A i \in 1 .. n : N + i \in 1 .. N + n /\ N + i \notin 1 .. N
  <2> HIDE DEF n, N
  <2> QED
    BY <1>3, <1>4
<1>11. \A d \in Dirs : /\ gone'[d] \in Nat /\ gone[d] <= gone'[d] /\ gone'[d] <= born[d]
                       /\ d \in disk => gone'[d] < born[d]
                       /\ d \in dirs => gone'[d] = gone[d]
                       /\ d \notin dirs /\ d \in disk => gone'[d] = born[d] - 1
                       /\ d \notin dirs /\ d \notin disk => gone'[d] = born[d]
  BY <1>1, Numbers
<1> HIDE DEF n, N
<1>12. Types'
  <2>1. gone' \in [Dirs -> Nat]
    BY <1>1, <1>11
  <2>2. found' \in [stayed : SUBSET Dirs, appeared : SUBSET Dirs, on : BOOLEAN]
    BY <1>1 DEF NotDiscovering
  <2> QED
    BY <1>1, <1>6, <1>7, <2>1, <2>2 DEF World, Types
<1>13. Incarnations'
  BY <1>1, <1>11 DEF World, Incarnations
<1>14. Discovering'
  BY <1>1 DEF Discovering, NotDiscovering
<1>15. Mapped'
  <2>1. DOMAIN data' = Found(dirs) /\ data' = [name \in Names(data') |-> data'[name]]
    BY <1>2 DEF Mapping
  <2>2. \A name \in Names(data) : /\ data[name] \in 1 .. N /\ state[data[name]].doing # "closed"
                                  /\ state[data[name]].path = Logdir \o name
    BY <1>4 DEF World, Mapped, Path
  <2>3. ASSUME NEW name \in Found(dirs)
        PROVE  /\ data'[name] \in DOMAIN state' /\ state'[data'[name]].doing # "closed"
               /\ state'[data'[name]].path = Logdir \o name
               /\ \E d \in Dirs : name = Rel(Logdir, d)
    <3>1. PICK d \in dirs : name = Rel(Logdir, d)
      BY DEF Found
    <3>2. d = Logdir \o name
      BY <3>1, RelSays
    <3>3. CASE name \in Names(data)
      <4>1. data'[name] = data[name] /\ data[name] \in 1 .. N
            /\ state[data[name]].doing # "closed" /\ state[data[name]].path = Logdir \o name
        BY <1>2, <2>2, <3>3 DEF Mapping
      <4>2. ~Closes(dirs, data[name])
        BY <3>2, <4>1 DEF Closes, Path
      <4> QED
        BY <1>6, <1>9, <3>1, <4>1, <4>2
    <3>4. CASE name \notin Names(data)
      <4>1. PICK i \in 1 .. n : New(dirs)[i] = name /\ data'[name] = N + i
        BY <1>2, <3>4 DEF Mapping, Fresh, n, N
      <4> QED
        BY <1>6, <1>10, <3>1, <4>1
    <3> QED
      BY <3>3, <3>4
  <2>4. ASSUME NEW r \in 1 .. N + n, state'[r].doing # "closed"
        PROVE  \E name \in Found(dirs) : data'[name] = r
    <3>1. CASE r \in 1 .. N
      <4>1. state[r].doing # "closed" /\ ~Closes(dirs, r)
        BY <1>6, <2>4, <3>1
      <4>2. PICK name \in Names(data) : data[name] = r
        BY <1>4, <3>1, <4>1 DEF World, Mapped
      <4>3. Path(r) \in dirs
        BY <4>1, <4>2 DEF Closes, Readers
      <4>4. Rel(Logdir, Path(r)) = name
        BY <4>2, NamesOfReaders DEF World
      <4>5. name \in Found(dirs)
        BY <4>3, <4>4 DEF Found
      <4> QED
        BY <1>2, <4>2, <4>5 DEF Mapping
    <3>2. CASE \E i \in 1 .. n : r = N + i
      <4>1. PICK i \in 1 .. n : r = N + i
        BY <3>2
      <4>2. New(dirs)[i] \in Fresh(dirs) /\ New(dirs)[i] \in Found(dirs)
        BY <1>5
      <4>3. PICK j \in 1 .. n : /\ New(dirs)[j] = New(dirs)[i]
                                /\ data'[New(dirs)[i]] = N + j
        BY <1>2, <4>2 DEF Mapping, n, N
      <4>4. j = i
        BY <1>3, <4>3
      <4> QED
        BY <4>1, <4>2, <4>3, <4>4
    <3> QED
      BY <1>8, <3>1, <3>2
  <2> QED
    BY <1>6, <2>1, <2>3, <2>4 DEF Mapped, Path, Names
<1>16. Opened'
  <2>1. ASSUME NEW r \in 1 .. N
        PROVE  /\ readers[r].opened \subseteq 1 .. born[Path(r)]
               /\ \A k \in readers[r].opened : k > gone'[Path(r)] <=> state'[r].doing # "closed"
    <3>1. /\ Path(r) \in Dirs /\ readers[r].opened \subseteq 1 .. born[Path(r)]
          /\ \A k \in readers[r].opened : k > gone[Path(r)] <=> state[r].doing # "closed"
          /\ Path(r) \in disk /\ born[Path(r)] \in readers[r].opened =>
               Path(r) \in found.stayed
      BY <1>1, <1>4 DEF World, Opened
    <3>2. ASSUME NEW k \in readers[r].opened
          PROVE  k > gone'[Path(r)] <=> state'[r].doing # "closed"
      <4> DEFINE d == Path(r)
      <4>1. /\ k \in 1 .. born[d] /\ born[d] \in Nat /\ gone[d] \in Nat /\ gone'[d] \in Nat
            /\ gone[d] <= gone'[d] /\ d \in Dirs
        BY <1>11, <3>1, Numbers
      <4>2. CASE state[r].doing = "closed"
        <5>1. state'[r].doing = "closed" /\ ~(k > gone[d])
          BY <1>6, <3>1, <4>2
        <5> HIDE DEF d
        <5>2. ~(k > gone'[d])
          BY <4>1, <5>1
        <5> QED
          BY <5>1, <5>2 DEF d
      <4>3. CASE state[r].doing # "closed" /\ d \in dirs
        <5>1. ~Closes(dirs, r) /\ gone'[d] = gone[d]
          BY <1>11, <4>1, <4>3 DEF Closes
        <5> QED
          BY <1>6, <3>1, <4>3, <5>1
      <4>4. CASE state[r].doing # "closed" /\ d \notin dirs
        <5>1. r \in Readers
          BY <1>4, <4>4 DEF World, Mapped, Readers
        <5>2. state'[r].doing = "closed"
          BY <1>6, <4>4, <5>1 DEF Closes
        <5>3. d \in disk => k # born[d]
          BY <1>1, <3>1, <4>4
        <5>4. IF d \in disk THEN gone'[d] = born[d] - 1 ELSE gone'[d] = born[d]
          BY <1>11, <4>1, <4>4
        <5> HIDE DEF d
        <5>5. ~(k > gone'[d])
          BY <4>1, <5>3, <5>4
        <5> QED
          BY <5>2, <5>5 DEF d
      <4> QED
        BY <4>2, <4>3, <4>4
    <3> QED
      BY <3>1, <3>2
  <2>2. ~found'.on
    BY <1>1 DEF NotDiscovering
  <2>3. \A i \in 1 .. n : readers'[N + i].opened = {}
    BY <1>7 DEF NewReader
  <2>4. ASSUME NEW r \in 1 .. N + n
        PROVE  /\ readers'[r].opened \subseteq 1 .. born'[state'[r].path]
               /\ \A k \in readers'[r].opened :
                    k > gone'[state'[r].path] <=> state'[r].doing # "closed"
    <3>1. CASE r \in 1 .. N
      <4>1. state'[r].path = Path(r) /\ readers'[r] = readers[r] /\ born' = born
        BY <1>1, <1>6, <1>7, <3>1 DEF Path
      <4> QED
        BY <2>1, <3>1, <4>1
    <3>2. CASE \E i \in 1 .. n : r = N + i
      <4>1. readers'[r].opened = {}
        BY <2>3, <3>2
      <4> QED
        BY <4>1
    <3> QED
      BY <1>8, <3>1, <3>2
  <2> QED
    BY <1>6, <2>2, <2>4, Zenon DEF Opened, Path
<1>17. \A r \in 1 .. N : Keeps(r) /\ accs'[r] = accs[r] /\ readers'[r] = readers[r]
  BY <1>1, <1>6, <1>7 DEF Keeps
<1>18. \A i \in 1 .. n : /\ DOMAIN accs'[N + i] = {} /\ readers'[N + i].sending = <<>>
                         /\ DOMAIN readers'[N + i].mds = {}
  BY <1>7 DEF NewReader
<1>19. Sending'
  <2>1. ASSUME NEW q \in 1 .. N + n
        PROVE  /\ DOMAIN accs'[q] \subseteq DOMAIN readers'[q].mds
               /\ Len(readers'[q].sending) <= 1
               /\ readers'[q].sending # <<>> => OnTheWay(q, Head(readers[q].sending))'
    <3>1. CASE q \in 1 .. N
      <4>1. /\ DOMAIN accs[q] \subseteq DOMAIN readers[q].mds
            /\ Len(readers[q].sending) <= 1
            /\ readers[q].sending # <<>> => OnTheWay(q, Head(readers[q].sending))
        BY <1>4, <3>1 DEF World, Sending
      <4>2. \A x : OnTheWay(q, x) => OnTheWay(q, x)'
        BY <1>17, <3>1, GenuineStays, Zenon DEF OnTheWay
      <4> QED
        BY <1>17, <3>1, <4>1, <4>2, Zenon DEF OnTheWay
    <3>2. CASE \E i \in 1 .. n : q = N + i
      <4>1. Len(<<>>) <= 1
        OBVIOUS
      <4> QED
        BY <1>18, <3>2, <4>1
    <3> QED
      BY <1>8, <3>1, <3>2
  <2> QED
    BY <1>6, <2>1, Zenon DEF Sending, OnTheWay
<1>20. \A r \in 1 .. N : /\ \A x : Held(r, x) => Held(r, x)'
                         /\ \A tag : Sampling(r, tag) => Sampling(r, tag)'
  BY <1>17, SampleStays
<1>21. Sampled'
  <2>1. \A r \in 1 .. N + n : \A tag \in DOMAIN accs'[r] : Sampling(r, tag)'
    BY <1>4, <1>8, <1>17, <1>18, <1>20 DEF World, Sampled
  <2> QED
    BY <1>6, <2>1 DEF Sampled
<1>22. Grows
  <2>1. \A d \in Dirs : born[d] <= born'[d]
    BY <1>1, Numbers
  <2> QED
    BY <1>1, <1>4, <1>6, <1>9, <1>11, <1>17, <1>20, <2>1 DEF Grows
<1> QED
  BY <1>12, <1>13, <1>14, <1>15, <1>16, <1>19, <1>21, <1>22 DEF World

\* So does every step that is not a handler's.
LEMMA LoadingGrows ==
  ASSUME World, Loading
  PROVE  World' /\ Grows
BY ChangeKeepsWorld, DiscoverKeepsWorld, SyncKeepsWorld, ReloadRunKeepsWorld, SendKeepsWorld,
   IngestKeepsWorld DEF Loading

\* None of them touches a call.
LEMMA LoadingLeavesCalls == Loading => UNCHANGED callVars
BY Zenon DEF Loading, Change, Discover, SyncRuns, ReloadRun, ReloadRunReturn, Send, Ingest

-----------------------------------------------------------------------------
(***************************************************************************)
(* What a handler has made of a world that grows stays true of it.         *)
(***************************************************************************)
LEMMA HeldWasThere ==
  ASSUME World, NEW r \in DOMAIN state, NEW x, Held(r, x)
  PROVE  /\ x \in Datum /\ x.dir \in Dirs /\ x.dir = Path(r) /\ x.at \in Nat \X Nat
         /\ x.at[1] \in Nat /\ x.at[2] \in Nat
         /\ x.at[1] \in 1 .. born[x.dir]
<1>1. /\ Genuine(r, x) /\ Path(r) \in Dirs
  BY Places DEF World, Held
<1>2. x \in Datum /\ x.dir = Path(r) /\ x.at[1] \in readers[r].opened
  BY <1>1 DEF Genuine
<1>3. readers[r].opened \subseteq 1 .. born[Path(r)]
  BY DEF World, Opened
<1> QED
  BY <1>1, <1>2, <1>3 DEF Datum

\* What is in the present directory after a step was there before it.
LEMMA WasPresent ==
  ASSUME World, Grows, NEW r \in DOMAIN state, NEW x, Held(r, x), Present(x)'
  PROVE  Present(x)
<1>1. x.dir \in Dirs /\ x.at[1] \in 1 .. born[x.dir]
  BY HeldWasThere
<1>2. /\ born[x.dir] <= born'[x.dir] /\ born[x.dir] \in Nat
      /\ born'[x.dir] = born[x.dir] /\ x.dir \in disk' => x.dir \in disk
  BY <1>1, Numbers DEF Grows
<1>3. x.dir \in disk' /\ born'[x.dir] = x.at[1]
  BY DEF Present
<1>4. born'[x.dir] = born[x.dir]
  BY <1>1, <1>2, <1>3
<1> QED
  BY <1>2, <1>3, <1>4 DEF Present

\* An entry that was right about its reader stays so.
LEMMA BacksStays ==
  ASSUME Grows, NEW r, NEW e, Backs(r, e)
  PROVE  Backs(r, e)'
<1>1. /\ r \in DOMAIN state' /\ Path(r)' = Path(r)
      /\ e.tag \in DOMAIN accs'[r] /\ accs'[r][e.tag].md = accs[r][e.tag].md
      /\ \A x : Held(r, x) => Held(r, x)'
  BY DEF Grows, Keeps, Backs, Path
<1> QED
  BY <1>1, Zenon DEF Backs

\* So do all the entries of an answer.
LEMMA EntriesStay ==
  ASSUME Grows, NEW entries, NEW request, NEW dropped, Entries(entries, request, dropped)
  PROVE  /\ \A e \in entries :
              /\ Fulfils(e, request)
              /\ \A x \in Served(e) : x.at[1] > dropped[x.dir]
              /\ \E r \in DOMAIN state' : Backs(r, e)'
         /\ \A e \in entries : \E r \in DOMAIN state : Held(r, e.newest)
<1>1. ASSUME NEW e \in entries
      PROVE  /\ Fulfils(e, request)
             /\ \A x \in Served(e) : x.at[1] > dropped[x.dir]
             /\ \E r \in DOMAIN state' : Backs(r, e)'
             /\ \E r \in DOMAIN state : Held(r, e.newest)
  <2>1. /\ Fulfils(e, request)
        /\ \A x \in Served(e) : x.at[1] > dropped[x.dir]
    BY Zenon DEF Entries
  <2>2. PICK r \in DOMAIN state : Backs(r, e)
    BY Zenon DEF Entries
  <2>3. Backs(r, e)' /\ r \in DOMAIN state'
    BY <2>2, BacksStays DEF Grows
  <2>4. Held(r, e.newest)
    BY <2>2 DEF Backs, Served
  <2> QED
    BY <2>1, <2>2, <2>3, <2>4
<1> QED
  BY <1>1

\* So do the answers, and the references in them.
LEMMA AnsweredStays ==
  ASSUME World, Grows, UNCHANGED callVars, Answered, Referring
  PROVE  Answered' /\ Referring'
<1>1. scenario' = scenario /\ answers' = answers /\ refs' = refs
  BY DEF Grows, callVars
<1>2. ASSUME NEW i \in Series
      PROVE  Entries(answers[i].entries, answers[i].req, answers[i].gone)'
  <2>1. Entries(answers[i].entries, answers[i].req, answers[i].gone)
    BY DEF Answered
  <2> QED
    BY <1>1, <2>1, EntriesStay DEF Entries
<1>3. Answered'
  BY <1>1, <1>2 DEF Answered, Series, Blobs
<1>4. ASSUME NEW ref \in refs
      PROVE  \E r \in DOMAIN state' : Held(r, ref.of)'
  <2>1. PICK r \in DOMAIN state : Held(r, ref.of)
    BY DEF Referring
  <2>2. \A x : Held(r, x) => Held(r, x)'
    BY DEF Grows
  <2>3. r \in DOMAIN state'
    BY DEF Grows
  <2>4. PICK x : x = ref.of
    OBVIOUS
  <2>5. Held(r, x)'
    BY <2>1, <2>2, <2>4
  <2> QED
    BY <2>3, <2>4, <2>5
<1>5. Referring'
  BY <1>1, <1>4 DEF Referring
<1> QED
  BY <1>3, <1>5

\* An earlier answer's series, if its newest value is still present, was before.
LEMMA NewestWasPresent ==
  ASSUME World, Grows, Answered, NEW i \in Series, NEW a \in answers[i].entries,
         Present(a.newest)'
  PROVE  Present(a.newest)
<1>1. Entries(answers[i].entries, answers[i].req, answers[i].gone)
  BY DEF Answered
<1>2. PICK r \in DOMAIN state : Held(r, a.newest)
  BY <1>1, EntriesStay
<1> QED
  BY <1>2, WasPresent

\* A reader that has nothing that had gone before a call opens no such thing.
LEMMA SinceStays ==
  ASSUME World, Grows, call' = call, Dropped, NEW r \in DOMAIN state, Since(r)
  PROVE  Since(r)'
<1>1. Path(r)' = Path(r)
  BY DEF Grows, Keeps, Path
<1>2. \A k \in readers'[r].opened :
        k \in readers[r].opened \/ (k > gone[Path(r)] /\ k = born[Path(r)])
  BY DEF Grows
<1>3. Path(r) \in Dirs
  BY Places DEF World
<1>4. /\ call.gone[Path(r)] \in Nat /\ call.gone[Path(r)] <= gone[Path(r)]
      /\ gone[Path(r)] \in Nat /\ born[Path(r)] \in Nat
  BY <1>3, Numbers DEF Dropped
<1>5. \A k \in readers'[r].opened : k > call.gone[Path(r)]
  BY <1>2, <1>4 DEF Since
<1> QED
  BY <1>1, <1>5 DEF Since

\* A run that the handler may visit stays one.
LEMMA UsableStays ==
  ASSUME World, Grows, UNCHANGED callVars, Dropped, NEW name, NEW r, Usable(name, r)
  PROVE  Usable(name, r)'
<1>1. r \in DOMAIN state' /\ Path(r)' = Path(r) /\ req' = req /\ call' = call
  BY DEF Usable, Grows, Keeps, Path, req, callVars
<1>2. Since(r)'
  BY <1>1, SinceStays DEF Usable
<1> QED
  BY <1>1, <1>2 DEF Usable

\* A tag that the handler is to visit stays one.
LEMMA MatchingStays ==
  ASSUME Grows, UNCHANGED callVars, NEW r \in DOMAIN state
  PROVE  Matching(r) \subseteq Matching(r)'
<1>1. \A tag \in DOMAIN accs[r] : tag \in DOMAIN accs'[r] /\ accs'[r][tag].md = accs[r][tag].md
  BY DEF Grows
<1>2. req' = req
  BY DEF Grows, req, callVars
<1> QED
  BY <1>1, <1>2 DEF Matching

\* What had gone when the call began is gone.
LEMMA DroppedStays ==
  ASSUME World, World', Grows, call' = call, Dropped
  PROVE  Dropped'
<1>1. \A d \in Dirs : gone[d] \in Nat /\ gone[d] <= gone'[d]
  BY Numbers DEF Grows
<1>2. \A d \in Dirs : gone'[d] \in Nat
  BY DEF World, Types
<1> QED
  BY <1>1, <1>2 DEF Dropped

\* So the handler that lists or reads can go on, ...
LEMMA ListingStays ==
  ASSUME World, World', Grows, UNCHANGED callVars, Answered, Listing
  PROVE  Listing'
<1> SUFFICES ASSUME call.pc = "reading"
             PROVE  Listing'
  BY DEF Listing, callVars
<1>1. scenario' = scenario /\ answers' = answers /\ call' = call /\ req' = req
  BY DEF Grows, callVars, req
<1>2. /\ IsReading(call) /\ Going /\ req.op \in {"List", "Read"} /\ (req.op = "Read" => req.points >= 0)
      /\ Dropped /\ Visited
      /\ Entries(call.entries, req, call.gone)
      /\ \A s \in call.due : AskedFor(req, s) => StillDue(s)
      /\ \A i \in Series : \A a \in answers[i].entries :
           Present(a.newest) /\ AskedFor(req, a) => StillNewer(a)
  BY Zenon DEF Listing
<1>3. Going' /\ Series' = Series
  BY <1>1, <1>2 DEF Going, Series
<1>4. Dropped'
  BY <1>1, <1>2, DroppedStays
<1>5. \A name, r : Usable(name, r) => Usable(name, r)'
  BY <1>1, <1>2, UsableStays
<1>6. call.tags # {} => Matching(call.acc) \subseteq Matching(call.acc)'
  BY <1>1, <1>2, MatchingStays DEF Visited, Usable
<1>7. Visited'
  BY <1>1, <1>2, <1>5, <1>6 DEF Visited
<1>8. Entries(call.entries, req, call.gone)'
  BY <1>1, <1>2, EntriesStay DEF Entries
<1>9. ASSUME NEW s \in call.due, AskedFor(req, s)
      PROVE  StillDue(s)'
  <2>1. StillDue(s)
    BY <1>2, <1>9
  <2>2. ASSUME NEW r \in DOMAIN state, NEW tag \in DOMAIN accs[r]
        PROVE  tag \in DOMAIN accs'[r] /\ accs'[r][tag].md = accs[r][tag].md
    BY DEF Grows
  <2>3. CASE /\ s.run \in DOMAIN call.runs
             /\ LET acc == accs[call.runs[s.run]] IN s.tag \in DOMAIN acc /\ acc[s.tag].md = s.md
    <3>1. call.runs[s.run] \in DOMAIN state
      BY <1>2, <2>3 DEF Visited, Usable
    <3> QED
      BY <1>1, <2>2, <2>3, <3>1 DEF StillDue
  <2>4. CASE s.run = call.run /\ s.tag \in call.tags /\ accs[call.acc][s.tag].md = s.md
    <3>1. call.acc \in DOMAIN state /\ s.tag \in DOMAIN accs[call.acc]
      BY <1>2, <2>4 DEF Visited, Usable, Matching
    <3> QED
      BY <1>1, <2>2, <2>4, <3>1 DEF StillDue
  <2>5. CASE \E e \in call.entries : e.run = s.run /\ e.tag = s.tag /\ e.md = s.md
    BY <1>1, <2>5 DEF StillDue
  <2> QED
    BY <2>1, <2>3, <2>4, <2>5 DEF StillDue
<1>10. ASSUME NEW i \in Series, NEW a \in answers[i].entries, Present(a.newest)',
              AskedFor(req, a)
       PROVE  StillNewer(a)'
  <2>1. StillNewer(a)
    BY <1>2, <1>10, NewestWasPresent
  <2>2. \A r, e : Backs(r, e) => Backs(r, e)'
    BY BacksStays
  <2> QED
    BY <1>1, <2>1, <2>2, Zenon DEF StillNewer
<1>11. \A i \in Series' : \A a \in answers'[i].entries :
         Present(a.newest)' /\ AskedFor(req, a)' => StillNewer(a)'
  BY <1>1, <1>3, <1>10
<1> QED
  BY <1>1, <1>2, <1>3, <1>4, <1>7, <1>8, <1>9, <1>11 DEF Listing

\* ... and so can the one that looks for a blob.
LEMMA FetchingStays ==
  ASSUME World, World', Grows, UNCHANGED callVars, Fetching
  PROVE  Fetching'
<1> SUFFICES ASSUME call.pc = "blob"
             PROVE  Fetching'
  BY DEF Fetching, callVars
<1>1. /\ scenario' = scenario /\ answers' = answers /\ call' = call /\ req' = req
      /\ refs' = refs
  BY DEF Grows, callVars, req
<1>2. /\ Going /\ req.op = "ReadBlob" /\ call.ref \in refs /\ Dropped
      /\ call.bk.step \in MinInt .. MaxInt
      /\ call.bk.tag = call.ref.of.tag /\ call.bk.index = call.ref.index
      /\ Exact(call.ref.of) => call.bk.step = call.ref.of.step
      /\ call.acc # 0 =>
           call.acc \in DOMAIN state /\ Path(call.acc) = call.ref.of.dir /\ Since(call.acc)
      /\ \/ call.acc # 0 /\ Held(call.acc, call.ref.of)
         \/ call.ref.of.at[1] <= call.gone[call.ref.of.dir]
  BY DEF Fetching
<1>3. Going' /\ Dropped'
  BY <1>1, <1>2, DroppedStays DEF Going
<1>4. CASE call.acc # 0
  <2>1. call.acc \in DOMAIN state' /\ Path(call.acc)' = Path(call.acc)
    BY <1>1, <1>2, <1>4 DEF Grows, Keeps, Path
  <2>2. Since(call.acc)'
    <3>1. PICK r : r = call.acc
      OBVIOUS
    <3>2. Since(r)'
      BY <1>1, <1>2, <1>4, <3>1, SinceStays
    <3> QED
      BY <1>1, <3>1, <3>2 DEF Since
  <2>3. Held(call.acc, call.ref.of) => Held(call.acc, call.ref.of)'
    <3>1. PICK r, x : r = call.acc /\ x = call.ref.of
      OBVIOUS
    <3>2. Held(r, x) => Held(r, x)'
      BY <1>2, <1>4, <3>1 DEF Grows
    <3> QED
      BY <1>1, <3>1, <3>2
  <2> QED
    BY <1>1, <1>2, <1>3, <2>1, <2>2, <2>3 DEF Fetching
<1>5. CASE call.acc = 0
  BY <1>1, <1>2, <1>3, <1>5 DEF Fetching
<1> QED
  BY <1>4, <1>5

(***************************************************************************)
(* Whatever the loader, the readers and the accumulators do, the calls     *)
(* are as they should be.                                                  *)
(***************************************************************************)
LEMMA GrowsKeepsCalls ==
  ASSUME World, World', Grows, UNCHANGED callVars, Calls
  PROVE  Calls'
<1>1. /\ scenario' = scenario /\ answers' = answers /\ call' = call /\ refs' = refs
      /\ req' = req
  BY DEF Grows, callVars, req
<1>2. Calling' /\ Counting'
  BY <1>1 DEF Calls, Calling, Counting, Going, req
<1>3. Listing' /\ Fetching' /\ Referring' /\ Answered'
  BY ListingStays, FetchingStays, AnsweredStays DEF Calls
<1>4. ServedFromTheRun' /\ AnswerComplete' /\ BlobKeyNamesItsBlob'
  BY <1>1 DEF Calls, ServedFromTheRun, AnswerComplete, BlobKeyNamesItsBlob, Series, Blobs
<1>5. ReadsGoForward'
  <2>1. \A i \in Series : \A a \in answers[i].entries : Present(a.newest)' => Present(a.newest)
    BY NewestWasPresent DEF Calls
  <2> QED
    BY <1>1, <2>1 DEF Calls, ReadsGoForward, Series
<1>6. BlobFoundWhileStored'
  <2>1. ASSUME NEW i \in Blobs, Present(answers[i].ref.of)'
        PROVE  Present(answers[i].ref.of)
    <3>1. PICK x : x = answers[i].ref.of
      OBVIOUS
    <3>2. PICK r \in DOMAIN state : Held(r, x)
      BY <3>1 DEF Calls, Referring, Answered
    <3>3. Present(x)' => Present(x)
      BY <3>2, WasPresent
    <3> QED
      BY <1>1, <2>1, <3>1, <3>3 DEF Present
  <2> QED
    BY <1>1, <2>1 DEF Calls, BlobFoundWhileStored, Blobs
<1>7. PanicOnlyIfMixed'
  BY <1>1 DEF Grows, PanicOnlyIfMixed
<1> QED
  BY <1>2, <1>3, <1>4, <1>5, <1>6, <1>7 DEF Calls

-----------------------------------------------------------------------------
(***************************************************************************)
(* A handler changes nothing that the others have made.                    *)
(***************************************************************************)
Still == UNCHANGED <<diskVars, loaderVars, runVars>>

\* None of its steps does.
LEMMA HandlerIsStill == Handler => Still
BY Zenon DEF Handler, ListRuns, FillRuns, BadRequest, Begin, VisitRun, VisitTag, Return,
   ReadBlob, SendBlob, Still

\* So the world stays as it should be, ...
LEMMA StillKeepsWorld ==
  ASSUME World, Still
  PROVE  World'
<1>1. UNCHANGED <<scenario, disk, born, changes, data, state, found, gone, readers, accs>>
  BY DEF Still, diskVars, loaderVars, runVars
<1>2. Types' /\ Incarnations' /\ Discovering'
  BY <1>1 DEF World, Types, Incarnations, Discovering
<1>3. Mapped' /\ Opened'
  BY <1>1 DEF World, Mapped, Opened, Path, Names
<1>4. Sending'
  BY <1>1 DEF World, Sending, OnTheWay, Genuine, Source, Path
<1>5. Sampled'
  <2>1. \A r : Keeps(r) /\ accs'[r] = accs[r]
    BY <1>1 DEF Keeps
  <2>2. \A r : \A tag : Sampling(r, tag) => Sampling(r, tag)'
    BY <1>1, <2>1, SampleStays
  <2> QED
    BY <1>1, <2>2 DEF World, Sampled
<1> QED
  BY <1>2, <1>3, <1>4, <1>5 DEF World

\* ... what it says of a value or an entry stays the same, ...
LEMMA StillThere ==
  ASSUME Still
  PROVE  /\ UNCHANGED <<scenario, disk, born, changes, data, state, found, gone, readers, accs>>
         /\ \A r, x : Held(r, x)' <=> Held(r, x)
         /\ \A r, e : Backs(r, e)' <=> Backs(r, e)
         /\ \A x : Present(x)' <=> Present(x)
         /\ \A r : Path(r)' = Path(r)
<1>1. UNCHANGED <<scenario, disk, born, changes, data, state, found, gone, readers, accs>>
  BY DEF Still, diskVars, loaderVars, runVars
<1>2. \A r : Path(r)' = Path(r)
  BY <1>1 DEF Path
<1>3. \A r, x : Genuine(r, x)' <=> Genuine(r, x)
  BY <1>1 DEF Path, Genuine, Source
<1>4. \A r, x : Held(r, x)' <=> Held(r, x)
  BY <1>1, <1>3, Zenon DEF Held
<1>5. \A r, e : Backs(r, e)' <=> Backs(r, e)
  BY <1>1, <1>2, <1>4, Zenon DEF Backs
<1>6. \A x : Present(x)' <=> Present(x)
  BY <1>1 DEF Present
<1> QED
  BY <1>1, <1>2, <1>4, <1>5, <1>6

\* ... and so does what it says of an answer.
LEMMA EntriesAreStill ==
  ASSUME Still
  PROVE  \A entries, request, dropped :
           Entries(entries, request, dropped)' <=> Entries(entries, request, dropped)
BY StillThere, Zenon DEF Entries

(***************************************************************************)
(* The calls that are made are of the kinds described above.               *)
(***************************************************************************)
LEMMA RequestsThere ==
  ASSUME World
  PROVE  /\ Len(scenario.requests) \in Nat
         /\ DOMAIN scenario.requests = 1 .. Len(scenario.requests)
         /\ \A i \in DOMAIN scenario.requests : Request(scenario.requests[i])
<1>1. scenario \in Scenarios
  BY DEF World, Types
<1>2. /\ scenario.requests \in Seq(ToSet(scenario.requests))
      /\ \A q \in ToSet(scenario.requests) : Request(q)
  BY <1>1, ScenariosAssumption
<1>3. DOMAIN scenario.requests = 1 .. Len(scenario.requests) /\ Len(scenario.requests) \in Nat
  BY <1>2, LenProperties
<1> QED
  BY <1>2, <1>3, ElementOfSeq

(***************************************************************************)
(* What the invariant says of one answer: of a series, and of a blob.      *)
(***************************************************************************)
IsSeries(a) == a.req.op \in {"List", "Read"} /\ a.status = "OK"
IsBlob(a) == a.req.op = "ReadBlob"

SeriesOK(a) ==
  /\ Entries(a.entries, a.req, a.gone)
  /\ \A e \in a.entries : \A x \in Served(e) :
       x.dir = Logdir \o e.run /\ x.tag = e.tag /\ x.at[1] > a.gone[x.dir]
  /\ \A s \in a.due : AskedFor(a.req, s) =>
       \E e \in a.entries : e.run = s.run /\ e.tag = s.tag /\ e.md = s.md
  /\ \A e \in a.entries : AskedFor(a.req, e)
BlobOK(a) ==
  /\ a.ref \in refs
  /\ a.status = "OK" =>
       a.of.dir = a.ref.of.dir /\ a.of.at[1] > a.gone[a.of.dir]
  /\ a.status = "OK" /\ a.ref.of.step \in -MaxExact .. MaxExact =>
       /\ a.of = a.ref.of \/ (Later(a.of, a.ref.of) /\ a.of.tag = a.ref.of.tag
                                /\ a.of.step = a.ref.of.step)
       /\ FlattenSeq(a.frames) = a.of.tensor.vals[a.ref.index + 1]
       /\ \A f \in ToSet(a.frames) : Len(f) \in 1 .. BatchSize
  /\ (/\ a.status # "OK"
      /\ a.ref.of.step \in -MaxExact .. MaxExact
      /\ a.ref.index < Len(Strings(a.ref.of.tensor)) /\ Present(a.ref.of)) =>
       /\ a.status = "NotFound" /\ a.ref.of \notin a.sample
       /\ \E x \in a.sample : Later(x, a.ref.of)
AnswerOK(a) == (IsSeries(a) => SeriesOK(a)) /\ (IsBlob(a) => BlobOK(a))

\* Answer b comes after a, and does not go back behind it.
NewerIn(a, b) ==
  \A x \in a.entries : (Present(x.newest) /\ AskedFor(b.req, x)) =>
    \E y \in b.entries : /\ y.run = x.run /\ y.tag = x.tag
                         /\ y.newest = x.newest \/ Later(y.newest, x.newest)
Follows(b) == IsSeries(b) => \A i \in Series : NewerIn(answers[i], b)

OneByOne ==
  /\ (/\ \A i \in Series : Entries(answers[i].entries, answers[i].req, answers[i].gone)
      /\ \A i \in Blobs : answers[i].ref \in refs
      /\ ServedFromTheRun /\ AnswerComplete /\ BlobKeyNamesItsBlob /\ BlobFoundWhileStored)
     <=> \A i \in DOMAIN answers : AnswerOK(answers[i])
  /\ ReadsGoForward <=> \A i, j \in Series : i < j => NewerIn(answers[i], answers[j])

\* That is all that the invariant says of the answers.
LEMMA AnswersAreOK == OneByOne
<1>1. /\ \A i : i \in Series <=> i \in DOMAIN answers /\ IsSeries(answers[i])
      /\ \A i : i \in Blobs <=> i \in DOMAIN answers /\ IsBlob(answers[i])
  BY DEF Series, Blobs, IsSeries, IsBlob
<1>2. ReadsGoForward <=> \A i, j \in Series : i < j => NewerIn(answers[i], answers[j])
  BY DEF ReadsGoForward, NewerIn
<1>3. (\A i \in DOMAIN answers : IsSeries(answers[i]) => SeriesOK(answers[i])) <=>
        /\ \A i \in Series : Entries(answers[i].entries, answers[i].req, answers[i].gone)
        /\ \A i \in Series : \A e \in answers[i].entries : \A x \in Served(e) :
             x.dir = Logdir \o e.run /\ x.tag = e.tag /\ x.at[1] > answers[i].gone[x.dir]
        /\ AnswerComplete
  BY <1>1, Zenon DEF SeriesOK, AnswerComplete
<1>4. (\A i \in DOMAIN answers : IsBlob(answers[i]) => BlobOK(answers[i])) <=>
        /\ \A i \in Blobs : answers[i].ref \in refs
        /\ \A i \in Blobs : answers[i].status = "OK" =>
             /\ answers[i].of.dir = answers[i].ref.of.dir
             /\ answers[i].of.at[1] > answers[i].gone[answers[i].of.dir]
        /\ BlobKeyNamesItsBlob /\ BlobFoundWhileStored
  BY <1>1, Zenon DEF BlobOK, BlobKeyNamesItsBlob, BlobFoundWhileStored
<1> QED
  BY <1>2, <1>3, <1>4, Zenon DEF AnswerOK, ServedFromTheRun, Served, OneByOne

(***************************************************************************)
(* A handler goes on with its call.                                        *)
(***************************************************************************)
LEMMA GoesOn ==
  ASSUME World, Calls, Still, UNCHANGED <<answers, refs>>,
         Calling', Counting', Listing', Fetching', PanicOnlyIfMixed'
  PROVE  Calls'
<1>1. UNCHANGED <<scenario, disk, born, changes, data, state, found, gone, readers, accs>>
  BY StillThere
<1>2. Referring'
  BY <1>1, StillThere DEF Calls, Referring
<1>3. Answered'
  BY <1>1, EntriesAreStill DEF Calls, Answered, Series, Blobs
<1>4. ServedFromTheRun' /\ AnswerComplete' /\ BlobKeyNamesItsBlob'
  BY <1>1 DEF Calls, ServedFromTheRun, AnswerComplete, BlobKeyNamesItsBlob, Series, Blobs
<1>5. ReadsGoForward' /\ BlobFoundWhileStored'
  BY <1>1 DEF Calls, ReadsGoForward, BlobFoundWhileStored, Series, Blobs, Present
<1> QED
  BY <1>2, <1>3, <1>4, <1>5 DEF Calls

(***************************************************************************)
(* A handler answers.                                                      *)
(***************************************************************************)
LEMMA Answers ==
  ASSUME World, Calls, Still, Going, refs \subseteq refs', Referring',
         NEW a, a.req = req, a.status \in {"OK", "NotFound", "InvalidArgument"},
         AnswerOK(a), Follows(a), Answer(a)
  PROVE  Calls'
<1> DEFINE n == Len(answers)
<1>1. UNCHANGED <<scenario, disk, born, changes, data, state, found, gone, readers, accs>>
  BY StillThere
<1>2. answers' = Append(answers, a) /\ call' = NoCall
  BY DEF Answer
<1>3. answers \in Seq(ToSet(answers)) /\ n \in Nat /\ DOMAIN answers = 1 .. n
  BY LenProperties DEF Calls, Answered
<1>4. /\ answers' \in Seq(ToSet(answers) \cup {a}) /\ Len(answers') = n + 1
      /\ DOMAIN answers' = 1 .. n + 1 /\ answers'[n + 1] = a
      /\ \A i \in 1 .. n : answers'[i] = answers[i]
  <2> DEFINE S == ToSet(answers) \cup {a}
             t == Append(answers, a)
  <2>1. answers \in Seq(S) /\ a \in S
    BY <1>3, SeqMonotonic
  <2> HIDE DEF S
  <2>2. /\ t \in Seq(S) /\ Len(t) = n + 1 /\ t[n + 1] = a
        /\ \A i \in 1 .. n : t[i] = answers[i]
    BY <2>1, AppendProperties
  <2> HIDE DEF t
  <2>3. DOMAIN t = 1 .. n + 1
    BY <2>2, LenProperties
  <2> QED
    BY <1>2, <2>2, <2>3 DEF t, S
<1> HIDE DEF n
<1>5. \A i \in 1 .. n + 1 : i \in 1 .. n \/ i = n + 1
  BY <1>3
<1>6. \A i \in 1 .. n : i # n + 1 /\ ~(n + 1 < i)
  BY <1>3
<1>7. \A i \in DOMAIN answers' : \/ i \in DOMAIN answers /\ answers'[i] = answers[i]
                                 \/ i = n + 1 /\ answers'[i] = a
  BY <1>3, <1>4, <1>5
<1>8. \A i \in DOMAIN answers' : AnswerOK(answers[i])'
  <2>1. \A b : AnswerOK(b) => AnswerOK(b)'
    <3>1. \A b : SeriesOK(b) => SeriesOK(b)'
      BY EntriesAreStill, Zenon DEF SeriesOK
    <3>2. \A b : BlobOK(b) => BlobOK(b)'
      <4>1. \A x : Present(x)' => Present(x)
        BY StillThere
      <4> QED
        BY <4>1, Zenon DEF BlobOK
    <3> QED
      BY <3>1, <3>2 DEF AnswerOK
  <2>2. \A i \in DOMAIN answers : AnswerOK(answers[i])
    BY AnswersAreOK DEF OneByOne, Calls, Answered
  <2> QED
    BY <1>7, <2>1, <2>2, Zenon
<1>9. ReadsGoForward'
  <2>1. \A i, j \in Series : i < j => NewerIn(answers[i], answers[j])
    BY AnswersAreOK DEF OneByOne, Calls
  <2>2. \A b, c : NewerIn(b, c) => NewerIn(b, c)'
    BY <1>1 DEF NewerIn, Present
  <2>3. ASSUME NEW i \in Series', NEW j \in Series', i < j
        PROVE  NewerIn(answers[i], answers[j])'
    <3>1. i \in DOMAIN answers' /\ j \in DOMAIN answers' /\ IsSeries(answers'[i])
          /\ IsSeries(answers'[j])
      BY DEF Series, IsSeries
    <3>2. i \in 1 .. n
      BY <1>3, <1>4, <2>3, <3>1
    <3>3. i \in Series /\ answers'[i] = answers[i]
      BY <1>3, <1>4, <3>1, <3>2 DEF Series, IsSeries
    <3>4. NewerIn(answers[i], answers'[j])
      <4>1. CASE j \in 1 .. n
        BY <1>3, <1>4, <2>1, <2>3, <3>1, <3>3, <4>1 DEF Series, IsSeries
      <4>2. CASE j = n + 1
        BY <1>4, <3>1, <3>3, <4>2 DEF Follows
      <4> QED
        BY <1>4, <1>5, <3>1, <4>1, <4>2
    <3>5. PICK b, c : b = answers'[i] /\ c = answers'[j]
      OBVIOUS
    <3>6. NewerIn(b, c)'
      BY <2>2, <3>3, <3>4, <3>5
    <3> QED
      BY <3>5, <3>6
  <2> QED
    BY <2>3 DEF ReadsGoForward, NewerIn
<1>10. /\ ServedFromTheRun' /\ AnswerComplete' /\ BlobKeyNamesItsBlob'
       /\ BlobFoundWhileStored'
       /\ \A i \in Series' : Entries(answers[i].entries, answers[i].req, answers[i].gone)'
       /\ \A i \in Blobs' : answers'[i].ref \in refs'
  <2>1. OneByOne'
    BY AnswersAreOK, PTL
  <2> QED
    BY <1>8, <2>1, Zenon DEF OneByOne
<1>11. Answered'
  <2>1. answers' \in Seq(ToSet(answers'))
    <3>1. \A i \in 1 .. n + 1 : answers'[i] \in ToSet(answers')
      BY <1>4 DEF ToSet
    <3>2. answers' = [i \in 1 .. n + 1 |-> answers'[i]] /\ n + 1 \in Nat
      BY <1>3, <1>4
    <3>3. answers' \in [1 .. n + 1 -> ToSet(answers')]
      BY <3>1, <3>2
    <3> QED
      BY <3>2, <3>3, SeqOfFunction
  <2>2. Len(answers') <= Len(scenario.requests)
    <3>1. Len(scenario.requests) \in Nat
      BY RequestsThere DEF World
    <3> QED
      BY <1>3, <1>4, <3>1 DEF Going, n
  <2>3. ASSUME NEW i \in DOMAIN answers'
        PROVE  /\ answers'[i].req = scenario.requests[i]
               /\ answers'[i].status \in {"OK", "NotFound", "InvalidArgument"}
    BY <1>7 DEF Calls, Answered, req, n
  <2> QED
    BY <1>1, <1>10, <2>1, <2>2, <2>3 DEF Answered
<1>12. Calling' /\ Counting' /\ Listing' /\ Fetching' /\ PanicOnlyIfMixed'
  BY <1>2 DEF NoCall, Calling, Counting, Listing, Fetching, PanicOnlyIfMixed
<1> QED
  BY <1>9, <1>10, <1>11, <1>12 DEF Calls

-----------------------------------------------------------------------------
(***************************************************************************)
(* ListRuns, and the calls that are refused.                               *)
(***************************************************************************)
LEMMA ListRunsKeepsCalls ==
  ASSUME World, Calls, ListRuns
  PROVE  Calls'
<1>1. /\ Still /\ UNCHANGED <<answers, refs>>
      /\ Going /\ req.op = "ListRuns" /\ call' = [pc |-> "sized", size |-> Cardinality(Names(Runs))]
  BY DEF ListRuns, Still, Asked, Going, req
<1>2. UNCHANGED scenario
  BY <1>1, StillThere
<1>3. Calling' /\ Counting' /\ Listing' /\ Fetching' /\ PanicOnlyIfMixed'
  BY <1>1, <1>2 DEF Calling, Counting, Listing, Fetching, PanicOnlyIfMixed, Going, req
<1> QED
  BY <1>1, <1>3, GoesOn

\* The list of the runs is filled in.
LEMMA FillRunsKeepsCalls ==
  ASSUME World, Calls, FillRuns
  PROVE  Calls'
<1>1. /\ Still /\ UNCHANGED refs /\ Going /\ req.op = "ListRuns"
      /\ call = [pc |-> "sized", size |-> call.size]
  BY DEF FillRuns, Still, Calls, Counting
<1>2. UNCHANGED scenario
  BY <1>1, StillThere
<1>3. CASE call' = [call EXCEPT !.pc = "panicked"] /\ UNCHANGED answers
  <2>1. call'.pc = "panicked" /\ req' = req
    BY <1>1, <1>2, <1>3 DEF req
  <2>2. Calling' /\ Counting' /\ Listing' /\ Fetching' /\ PanicOnlyIfMixed'
    BY <1>1, <2>1 DEF Calling, Counting, Listing, Fetching, PanicOnlyIfMixed
  <2> QED
    BY <1>1, <1>3, <2>2, GoesOn
<1>4. ASSUME NEW a, a = [req |-> req, status |-> "OK", size |-> call.size, names |-> Names(Runs)],
             Answer(a)
      PROVE  Calls'
  <2>1. a.req = req /\ a.status = "OK"
    BY <1>4
  <2>2. AnswerOK(a) /\ Follows(a)
    BY <1>1, <2>1 DEF AnswerOK, Follows, IsSeries, IsBlob
  <2>3. Referring'
    BY <1>1, StillThere DEF Calls, Referring
  <2> QED
    BY <1>1, <1>4, <2>1, <2>2, <2>3, Answers
<1> QED
  BY <1>3, <1>4 DEF FillRuns

\* A call that asks for a negative number of points is refused.
LEMMA BadRequestKeepsCalls ==
  ASSUME World, Calls, BadRequest
  PROVE  Calls'
<1>1. /\ Still /\ UNCHANGED refs /\ Going /\ req.op = "Read"
  BY DEF BadRequest, Still, Asked, Going, req
<1>2. ASSUME NEW a, a = [req |-> req, status |-> "InvalidArgument"], Answer(a)
      PROVE  Calls'
  <2>1. a.req = req /\ a.status = "InvalidArgument"
    BY <1>2
  <2>2. AnswerOK(a) /\ Follows(a)
    BY <1>1, <2>1 DEF AnswerOK, Follows, IsSeries, IsBlob
  <2>3. Referring'
    BY <1>1, StillThere DEF Calls, Referring
  <2> QED
    BY <1>1, <1>2, <2>1, <2>2, <2>3, Answers
<1> QED
  BY <1>2 DEF BadRequest

-----------------------------------------------------------------------------
(***************************************************************************)
(* A request for series, and what it asks for.                             *)
(***************************************************************************)
LEMMA RequestNow ==
  ASSUME World, Calls, Going
  PROVE  Request(req)
<1>1. Len(answers) + 1 \in DOMAIN scenario.requests
  <2>1. Len(answers) \in Nat
    BY LenProperties DEF Calls, Answered
  <2> QED
    BY <2>1, RequestsThere DEF Going
<1> QED
  BY <1>1, RequestsThere DEF req

\* Taken literally, the filters let pass what MatchesFilter does.
LEMMA Filters ==
  ASSUME NEW f, Filter(f), NEW x
  PROVE  MatchesFilter(f, x) <=> (f = <<>> \/ \E names \in ToSet(f) : x \in names)
<1>1. CASE f = <<>>
  BY <1>1 DEF MatchesFilter
<1>2. CASE f = <<Head(f)>> /\ f # <<>>
  <2> DEFINE h == Head(f)
  <2>1. f = <<h>>
    BY <1>2
  <2> HIDE DEF h
  <2>2. ToSet(f) = {h}
    BY <2>1 DEF ToSet
  <2> QED
    BY <1>2, <2>2 DEF MatchesFilter, h
<1> QED
  BY <1>1, <1>2 DEF Filter

\* What the loop over the tags passes on: all that is asked for.
LEMMA MatchingAsked ==
  ASSUME Request(req), req.op \in {"List", "Read"}, NEW r, NEW s,
         s.tag \in DOMAIN accs[r], s.md = accs[r][s.tag].md
  PROVE  /\ AskedFor(req, s) => s.tag \in Matching(r) /\ MatchesFilter(req.runs, s.run)
         /\ MatchesFilter(req.runs, s.run) /\ s.tag \in Matching(r) => AskedFor(req, s)
<1>1. /\ req.class \in {"scalar", "tensor", "blobs"} /\ Filter(req.runs) /\ Filter(req.tags)
  BY DEF Request
<1>2. s.md.class = req.class => s.md # NoMeta
  <2>1. NoMeta.class = "" /\ req.class # ""
    BY <1>1 DEF NoMeta
  <2> QED
    BY <2>1
<1>3. /\ MatchesFilter(req.runs, s.run) <=>
           (req.runs = <<>> \/ \E names \in ToSet(req.runs) : s.run \in names)
      /\ MatchesFilter(req.tags, s.tag) <=>
           (req.tags = <<>> \/ \E names \in ToSet(req.tags) : s.tag \in names)
  BY <1>1, Filters
<1> QED
  BY <1>2, <1>3 DEF AskedFor, Matching

(***************************************************************************)
(* The reader that has a value which is still there is in the map.         *)
(***************************************************************************)
LEMMA PresentIsOpen ==
  ASSUME World, NEW r \in DOMAIN state, NEW x, Held(r, x)
  PROVE  /\ x.at[1] \in Nat /\ gone[Path(r)] \in Nat
         /\ Present(x) => x.at[1] > gone[Path(r)]
         /\ x.at[1] > gone[Path(r)] =>
              Rel(Logdir, Path(r)) \in Names(data) /\ data[Rel(Logdir, Path(r))] = r
<1>1. /\ x.dir \in Dirs /\ x.dir = Path(r) /\ x.at[1] \in Nat /\ x.at[1] \in readers[r].opened
  BY HeldWasThere DEF Held, Genuine
<1>2. /\ gone[x.dir] \in Nat /\ born[x.dir] \in Nat /\ (x.dir \in disk => gone[x.dir] < born[x.dir])
  BY <1>1, Numbers
<1>3. Present(x) => x.at[1] > gone[Path(r)]
  BY <1>1, <1>2 DEF Present
<1>4. ASSUME x.at[1] > gone[Path(r)]
      PROVE  Rel(Logdir, Path(r)) \in Names(data) /\ data[Rel(Logdir, Path(r))] = r
  <2>1. state[r].doing # "closed"
    BY <1>1, <1>4 DEF World, Opened
  <2>2. PICK name \in Names(data) : data[name] = r
    BY <2>1 DEF World, Mapped
  <2>3. Path(r) = Logdir \o name /\ Rel(Logdir, Logdir \o name) = name
    BY <2>2, NamesOfReaders DEF World
  <2> QED
    BY <2>2, <2>3
<1> QED
  BY <1>1, <1>2, <1>3, <1>4

\* A reader in the map has opened only what is not gone.
LEMMA MappedIsOpen ==
  ASSUME World, NEW name \in Names(data)
  PROVE  /\ data[name] \in DOMAIN state /\ name = Rel(Logdir, Path(data[name]))
         /\ Path(data[name]) = Logdir \o name
         /\ \A k \in readers[data[name]].opened : k > gone[Path(data[name])]
<1>1. data[name] \in DOMAIN state /\ state[data[name]].doing # "closed"
  BY DEF World, Mapped
<1>2. Path(data[name]) = Logdir \o name /\ Rel(Logdir, Logdir \o name) = name
  BY NamesOfReaders DEF World
<1>3. \A k \in readers[data[name]].opened : k > gone[Path(data[name])]
  BY <1>1 DEF World, Opened
<1> QED
  BY <1>1, <1>2, <1>3

(***************************************************************************)
(* A call for series begins.                                               *)
(***************************************************************************)
LEMMA BeginKeepsCalls ==
  ASSUME World, Calls, Begin
  PROVE  Calls'
<1>1. /\ Still /\ UNCHANGED <<answers, refs>> /\ Going
      /\ req.op \in {"List", "Read"} /\ (req.op = "Read" => req.points >= 0)
  BY DEF Begin, Still, Asked, Going, req
<1>2. /\ UNCHANGED <<scenario, state, readers, accs, gone>> /\ req' = req
      /\ \A r, e : Backs(r, e)' <=> Backs(r, e)
      /\ \A x : Present(x)' <=> Present(x)
      /\ \A r : Path(r)' = Path(r)
  BY <1>1, StillThere DEF req
<1> DEFINE runs == [name \in {n \in Names(data) : MatchesFilter(req.runs, n)} |-> data[name]]
<1>3. PICK c : c = [pc |-> "reading", runs |-> runs, run |-> <<>>, acc |-> 0, tags |-> {},
                    entries |-> {}, due |-> AllSeries, gone |-> gone]
  OBVIOUS
<1>4. call' = c
  BY <1>3 DEF Begin, Runs
<1>5. /\ c.pc = "reading" /\ c.runs = runs /\ c.tags = {} /\ c.entries = {}
      /\ c.due = AllSeries /\ c.gone = gone
      /\ IsReading(c)
  <2> HIDE DEF runs
  <2> QED
    BY <1>3 DEF IsReading
<1>6. /\ DOMAIN runs = {n \in Names(data) : MatchesFilter(req.runs, n)}
      /\ \A name \in DOMAIN runs : runs[name] = data[name]
      /\ IsMap(runs)
  BY DEF IsMap
<1>7. Request(req)
  BY <1>1, RequestNow
<1> HIDE DEF runs
<1>8. ASSUME NEW name \in DOMAIN c.runs
      PROVE  /\ name \in Names(data) /\ MatchesFilter(req.runs, name)
             /\ c.runs[name] = data[name] /\ c.runs[name] \in DOMAIN state
             /\ name = Rel(Logdir, Path(c.runs[name]))
             /\ \A k \in readers[c.runs[name]].opened : k > gone[Path(c.runs[name])]
  <2>1. name \in Names(data) /\ MatchesFilter(req.runs, name) /\ c.runs[name] = data[name]
    BY <1>5, <1>6
  <2> QED
    BY <2>1, MappedIsOpen
<1>9. Visited'
  <2>1. ASSUME NEW name \in DOMAIN c.runs, NEW r, r = c.runs[name]
        PROVE  Usable(name, r)'
    BY <1>2, <1>4, <1>5, <1>8, <2>1, Zenon DEF Usable, Since
  <2>2. IsMap(c.runs)
    <3>1. c.runs = runs
      BY <1>5
    <3> QED
      BY <1>6, <3>1, Zenon
  <2> QED
    BY <1>4, <1>5, <2>1, <2>2 DEF Visited
<1>10. \A d \in Dirs : gone[d] \in Nat /\ gone[d] <= gone[d]
  BY Numbers
<1>11. Dropped' /\ Going'
  BY <1>1, <1>2, <1>4, <1>5, <1>10 DEF Dropped, Going
<1>12. Entries(call.entries, req, call.gone)'
  BY <1>4, <1>5 DEF Entries
<1>13. ASSUME NEW s \in c.due, AskedFor(req, s)
       PROVE  StillDue(s)'
  <2>0. PICK name \in Names(data) :
          s \in {[run |-> name, tag |-> tag, md |-> accs[data[name]][tag].md] :
                  tag \in DOMAIN accs[data[name]]}
    BY <1>5 DEF AllSeries, Runs
  <2>1. PICK tag \in DOMAIN accs[data[name]] :
          s = [run |-> name, tag |-> tag, md |-> accs[data[name]][tag].md]
    BY <2>0
  <2>2. s.run = name /\ s.tag = tag /\ s.md = accs[data[name]][tag].md
    BY <2>1
  <2>3. MatchesFilter(req.runs, name)
    BY <1>1, <1>7, <1>13, <2>2, MatchingAsked
  <2>4. name \in DOMAIN c.runs /\ c.runs[name] = data[name]
    BY <1>5, <1>6, <2>3
  <2> QED
    BY <1>2, <1>4, <2>2, <2>4, Zenon DEF StillDue
<1>14. ASSUME NEW i \in Series, NEW a \in answers[i].entries, Present(a.newest), AskedFor(req, a)
       PROVE  StillNewer(a)'
  <2>1. Entries(answers[i].entries, answers[i].req, answers[i].gone)
    BY DEF Calls, Answered
  <2>2. PICK r \in DOMAIN state : Backs(r, a)
    BY <2>1, Zenon DEF Entries
  <2>3. Held(r, a.newest)
    BY <2>2 DEF Backs, Served
  <2>4. /\ a.run = Rel(Logdir, Path(r)) /\ a.tag \in DOMAIN accs[r]
        /\ a.md = accs[r][a.tag].md
    BY <2>2 DEF Backs
  <2>5. a.run \in Names(data) /\ data[a.run] = r
    BY <1>14, <2>3, <2>4, PresentIsOpen
  <2>6. MatchesFilter(req.runs, a.run)
    BY <1>1, <1>7, <1>14, <2>4, MatchingAsked
  <2>7. a.run \in DOMAIN c.runs /\ c.runs[a.run] = r
    BY <1>5, <1>6, <2>5, <2>6
  <2> QED
    BY <1>2, <1>4, <2>2, <2>7, Zenon DEF StillNewer
<1>15. Listing'
  <2>1. \A i \in Series' : \A a \in answers'[i].entries :
          Present(a.newest)' /\ AskedFor(req, a)' => StillNewer(a)'
    BY <1>1, <1>2, <1>14 DEF Series
  <2>2. \A s \in call'.due : AskedFor(req, s)' => StillDue(s)'
    BY <1>2, <1>4, <1>13
  <2> QED
    BY <1>1, <1>2, <1>4, <1>5, <1>9, <1>11, <1>12, <2>1, <2>2 DEF Listing
<1>16. Calling' /\ Counting' /\ Fetching' /\ PanicOnlyIfMixed'
  BY <1>4, <1>5 DEF Calling, Counting, Fetching, PanicOnlyIfMixed
<1> QED
  BY <1>1, <1>15, <1>16, GoesOn

(***************************************************************************)
(* What the steps of one call have in common.                              *)
(***************************************************************************)
LEMMA SameCall ==
  ASSUME World, Still, UNCHANGED <<answers, refs>>, call'.gone = call.gone
  PROVE  /\ req' = req /\ Series' = Series /\ answers' = answers
         /\ Going => Going'
         /\ Dropped => Dropped'
         /\ \A name, r : Usable(name, r) => Usable(name, r)'
         /\ \A r : Matching(r)' = Matching(r)
         /\ \A entries, request, dropped :
              Entries(entries, request, dropped) => Entries(entries, request, dropped)'
         /\ \A r, e : Backs(r, e) => Backs(r, e)'
         /\ \A x : Present(x)' => Present(x)
<1>1. UNCHANGED <<scenario, disk, born, changes, data, state, found, gone, readers, accs>>
  BY StillThere
<1>2. /\ \A r, e : Backs(r, e) => Backs(r, e)'
      /\ \A x : Present(x)' => Present(x)
      /\ \A r : Path(r)' = Path(r)
  BY StillThere
<1>3. req' = req /\ Series' = Series
  BY <1>1 DEF req, Series
<1>4. (Going => Going') /\ (Dropped => Dropped')
  BY <1>1 DEF Going, Dropped
<1>5. \A name, r : Usable(name, r) => Usable(name, r)'
  BY <1>1, <1>2, <1>3, Zenon DEF Usable, Since
<1>6. \A r : Matching(r)' = Matching(r)
  BY <1>1, <1>3 DEF Matching
<1>7. \A entries, request, dropped :
        Entries(entries, request, dropped) => Entries(entries, request, dropped)'
  BY EntriesAreStill
<1> QED
  BY <1>2, <1>3, <1>4, <1>5, <1>6, <1>7

\* What the invariant says of a call that is under way.
LEMMA UnderWay ==
  ASSUME Calls, call.pc = "reading"
  PROVE  /\ IsReading(call) /\ Going /\ req.op \in {"List", "Read"} /\ (req.op = "Read" => req.points >= 0)
         /\ Dropped /\ Visited
         /\ Entries(call.entries, req, call.gone)
         /\ \A s \in call.due : AskedFor(req, s) => StillDue(s)
         /\ \A i \in Series : \A a \in answers[i].entries :
              Present(a.newest) /\ AskedFor(req, a) => StillNewer(a)
BY Zenon DEF Calls, Listing

\* The call moves on: to another run, or with another entry.
CallAt(x, runs, run, acc, tags, entries) ==
  [pc |-> "reading", runs |-> runs, run |-> run, acc |-> acc, tags |-> tags,
   entries |-> entries, due |-> x.due, gone |-> x.gone]

\* The handler goes on to a run.
LEMMA NextRunCall ==
  ASSUME NEW x, IsReading(x), NEW runs, NEW run, NEW acc, NEW tags
  PROVE  [x EXCEPT !.run = run, !.acc = acc, !.tags = tags, !.runs = runs]
           = CallAt(x, runs, run, acc, tags, x.entries)
<1>1. PICK y : y = [x EXCEPT !.run = run]
  OBVIOUS
<1>2. y = CallAt(x, x.runs, run, x.acc, x.tags, x.entries)
  BY <1>1, SMT DEF IsReading, CallAt
<1>3. PICK z : z = [y EXCEPT !.acc = acc]
  OBVIOUS
<1>4. z = CallAt(x, x.runs, run, acc, x.tags, x.entries)
  BY <1>2, <1>3, SMT DEF CallAt
<1>5. PICK u : u = [z EXCEPT !.tags = tags]
  OBVIOUS
<1>6. u = CallAt(x, x.runs, run, acc, tags, x.entries)
  BY <1>4, <1>5, SMT DEF CallAt
<1>7. [u EXCEPT !.runs = runs] = CallAt(x, runs, run, acc, tags, x.entries)
  BY <1>6, SMT DEF CallAt
<1> QED
  BY <1>1, <1>3, <1>5, <1>7, Zenon

\* The handler goes on to the next tag of the run.
LEMMA NextTagCall ==
  ASSUME NEW x, IsReading(x), NEW tags, NEW entries
  PROVE  [x EXCEPT !.tags = tags, !.entries = entries]
           = CallAt(x, x.runs, x.run, x.acc, tags, entries)
<1>1. PICK y : y = [x EXCEPT !.tags = tags]
  OBVIOUS
<1>2. y = CallAt(x, x.runs, x.run, x.acc, tags, x.entries)
  BY <1>1, SMT DEF IsReading, CallAt
<1>3. [y EXCEPT !.entries = entries] = CallAt(x, x.runs, x.run, x.acc, tags, entries)
  BY <1>2, SMT DEF CallAt
<1> QED
  BY <1>1, <1>3, Zenon

(***************************************************************************)
(* The handler comes to the next run.                                      *)
(***************************************************************************)
LEMMA VisitRunKeepsCalls ==
  ASSUME World, Calls, VisitRun
  PROVE  Calls'
<1>1. /\ Still /\ UNCHANGED <<answers, refs>> /\ call.pc = "reading" /\ call.tags = {}
  BY DEF VisitRun, Still
<1>2. PICK x : x = call
  OBVIOUS
<1>3. PICK name \in DOMAIN call.runs :
        call' = [call EXCEPT !.run = name, !.acc = call.runs[name],
                             !.tags = Matching(call.runs[name]),
                             !.runs = [n \in DOMAIN call.runs \ {name} |-> call.runs[n]]]
  BY Zenon DEF VisitRun, Names
<1> DEFINE r == x.runs[name]
           tags == Matching(r)
           rest == [n \in DOMAIN x.runs \ {name} |-> x.runs[n]]
<1>4. call' = [x EXCEPT !.run = name, !.acc = r, !.tags = tags, !.runs = rest]
  BY <1>2, <1>3
<1>5. PICK y : y = call'
  OBVIOUS
<1>6. IsReading(x) /\ name \in DOMAIN x.runs
  BY <1>1, <1>2, <1>3, UnderWay
<1>7. DOMAIN rest = DOMAIN x.runs \ {name} /\ \A n \in DOMAIN rest : rest[n] = x.runs[n]
  OBVIOUS
<1>8. IsMap(rest)
  BY DEF IsMap
<1> HIDE DEF rest, tags, r
<1>9. y = CallAt(x, rest, name, r, tags, x.entries)
  BY <1>4, <1>5, <1>6, NextRunCall, Zenon
<1>10. /\ y.pc = "reading" /\ y.runs = rest /\ y.run = name /\ y.acc = r /\ y.tags = tags
       /\ y.entries = x.entries /\ y.due = x.due /\ y.gone = x.gone
  BY <1>9 DEF CallAt
<1>11. IsReading(y)
  BY <1>9 DEF CallAt, IsReading
<1>12. /\ req' = req /\ Series' = Series /\ answers' = answers
       /\ (Going => Going') /\ (Dropped => Dropped')
       /\ \A n, q : Usable(n, q) => Usable(n, q)'
       /\ \A q : Matching(q)' = Matching(q)
       /\ \A entries, request, dropped :
              Entries(entries, request, dropped) => Entries(entries, request, dropped)'
       /\ \A q, e : Backs(q, e) => Backs(q, e)'
       /\ \A z : Present(z)' => Present(z)
       /\ UNCHANGED <<scenario, accs>>
  BY <1>1, <1>2, <1>5, <1>10, SameCall, StillThere
<1>13. \A n \in DOMAIN x.runs : Usable(n, x.runs[n])
  BY <1>1, <1>2, UnderWay DEF Visited
<1>14. Request(req) /\ Going /\ req.op \in {"List", "Read"} /\ (req.op = "Read" => req.points >= 0)
  BY <1>1, UnderWay, RequestNow
<1>15. Visited'
  <2>1. \A n \in DOMAIN rest : Usable(n, rest[n])'
    BY <1>7, <1>12, <1>13
  <2>2. Usable(name, r)' /\ tags = Matching(r)'
    <3>1. Usable(name, r) /\ tags = Matching(r)
      BY <1>6, <1>13 DEF r, tags
    <3> QED
      BY <1>12, <3>1, Zenon
  <2>3. IsMap(y.runs)
    BY <1>8, <1>10
  <2>4. \A n \in DOMAIN y.runs : Usable(n, y.runs[n])'
    BY <1>10, <2>1
  <2>5. Usable(y.run, y.acc)' /\ y.tags \subseteq Matching(y.acc)'
    BY <1>10, <2>2
  <2> QED
    BY <1>5, <2>3, <2>4, <2>5 DEF Visited
<1>16. ASSUME NEW s \in x.due, AskedFor(req, s)
       PROVE  StillDue(s)'
  <2>1. StillDue(s) /\ x.tags = {}
    BY <1>1, <1>2, <1>16, UnderWay
  <2>2. CASE s.run \in DOMAIN rest /\ s.tag \in DOMAIN accs[x.runs[s.run]]
             /\ accs[x.runs[s.run]][s.tag].md = s.md
    BY <1>5, <1>7, <1>10, <1>12, <2>2, Zenon DEF StillDue
  <2>3. CASE s.run = name /\ s.tag \in DOMAIN accs[r] /\ accs[r][s.tag].md = s.md
    <3>1. s.tag \in tags
      BY <1>14, <1>16, <2>3, MatchingAsked DEF tags
    <3> QED
      BY <1>5, <1>10, <1>12, <2>3, <3>1, Zenon DEF StillDue
  <2>4. CASE \E e \in x.entries : e.run = s.run /\ e.tag = s.tag /\ e.md = s.md
    BY <1>5, <1>10, <2>4, Zenon DEF StillDue
  <2> QED
    BY <1>2, <1>7, <2>1, <2>2, <2>3, <2>4 DEF StillDue, r
<1>17. ASSUME NEW i \in Series, NEW a \in answers[i].entries, Present(a.newest), AskedFor(req, a)
       PROVE  StillNewer(a)'
  <2>1. StillNewer(a) /\ x.tags = {}
    BY <1>1, <1>2, <1>17, UnderWay
  <2>2. CASE a.run \in DOMAIN rest /\ Backs(x.runs[a.run], a)
    BY <1>5, <1>7, <1>10, <1>12, <2>2, Zenon DEF StillNewer
  <2>3. CASE a.run = name /\ Backs(r, a)
    <3>1. a.tag \in tags
      BY <1>14, <1>17, <2>3, MatchingAsked DEF tags, Backs
    <3> QED
      BY <1>5, <1>10, <1>12, <2>3, <3>1, Zenon DEF StillNewer
  <2>4. CASE \E b \in x.entries : /\ b.run = a.run /\ b.tag = a.tag
                                  /\ b.newest = a.newest \/ Later(b.newest, a.newest)
    BY <1>5, <1>10, <2>4, Zenon DEF StillNewer
  <2> QED
    BY <1>2, <1>7, <2>1, <2>2, <2>3, <2>4 DEF StillNewer, r
<1>18. Listing'
  <2>1. Going' /\ Dropped' /\ Entries(y.entries, req, y.gone)'
    BY <1>1, <1>2, <1>10, <1>12, UnderWay
  <2>2. \A s \in y.due : AskedFor(req, s)' => StillDue(s)'
    BY <1>10, <1>12, <1>16
  <2>3. \A i \in Series' : \A a \in answers'[i].entries :
          Present(a.newest)' /\ AskedFor(req, a)' => StillNewer(a)'
    BY <1>12, <1>17
  <2> QED
    BY <1>5, <1>11, <1>12, <1>14, <1>15, <2>1, <2>2, <2>3, Zenon DEF Listing
<1>19. Calling' /\ Counting' /\ Fetching' /\ PanicOnlyIfMixed'
  BY <1>5, <1>10 DEF Calling, Counting, Fetching, PanicOnlyIfMixed
<1> QED
  BY <1>1, <1>18, <1>19, GoesOn

-----------------------------------------------------------------------------
(***************************************************************************)
(* One record of finitely many has the greatest step.                      *)
(***************************************************************************)
LEMMA GreatestStep ==
  ASSUME NEW S, IsFiniteSet(S), S # {}, \A x \in S : x.step \in Int
  PROVE  \E x \in S : \A y \in S : y.step <= x.step
<1> DEFINE HasGreatest(T) == \E x \in T : \A y \in T : y.step <= x.step
           G == {n \in Nat : \A T \in SUBSET S : Cardinality(T) = n + 1 => HasGreatest(T)}
<1>1. 0 \in G
  <2>1. ASSUME NEW T \in SUBSET S, Cardinality(T) = 0 + 1
        PROVE  HasGreatest(T)
    <3>1. IsFiniteSet(T) /\ Cardinality(T) = 1
      BY <2>1, FS_Subset
    <3>2. PICK x : T = {x}
      BY <3>1, FS_Singleton
    <3> QED
      BY <3>2
  <2> QED
    BY <2>1, Zenon
<1>2. ASSUME NEW n \in Nat, n \in G
      PROVE  n + 1 \in G
  <2>1. ASSUME NEW T \in SUBSET S, Cardinality(T) = (n + 1) + 1
        PROVE  HasGreatest(T)
    <3>1. IsFiniteSet(T) /\ T # {}
      BY <2>1, FS_Subset, FS_EmptySet
    <3>2. PICK e \in T : TRUE
      BY <3>1
    <3>3. IsFiniteSet(T \ {e}) /\ Cardinality(T \ {e}) = n + 1
      BY <2>1, <3>1, <3>2, FS_RemoveElement
    <3>4. HasGreatest(T \ {e})
      BY <1>2, <3>3
    <3>5. PICK x \in T \ {e} : \A y \in T \ {e} : y.step <= x.step
      BY <3>4
    <3>6. x.step \in Int /\ e.step \in Int /\ \A y \in T : y.step \in Int
      BY <3>2, <3>5
    <3>7. CASE x.step <= e.step
      BY <3>2, <3>5, <3>6, <3>7
    <3>8. CASE e.step <= x.step
      BY <3>2, <3>5, <3>6, <3>8
    <3> QED
      BY <3>6, <3>7, <3>8
  <2> HIDE DEF HasGreatest
  <2> QED
    BY <2>1
<1>3. PICK n \in Nat : Cardinality(S) = n + 1
  <2>1. Cardinality(S) \in Nat /\ Cardinality(S) # 0
    BY FS_CardinalityType, FS_EmptySet
  <2>2. Cardinality(S) - 1 \in Nat /\ Cardinality(S) = (Cardinality(S) - 1) + 1
    BY <2>1
  <2> QED
    BY <2>2
<1> HIDE DEF G
<1>4. n \in G
  BY <1>1, <1>2, InductionOnNat
<1> QED
  BY <1>3, <1>4 DEF G

(***************************************************************************)
(* Records of different steps can be put in the order of these.            *)
(***************************************************************************)
Sorted(s, n) == \A i \in 2 .. n : s[i - 1].step < s[i].step
Ordering(T, n) == {s \in [1 .. n -> T] : ToSet(s) = T /\ Sorted(s, n)}
Steps(T) ==
  IsFiniteSet(T) /\ \A x \in T : x.step \in Int /\ \A y \in T : x # y => x.step # y.step

\* Values of different steps can be put in the order of their steps.
LEMMA OrderingExists ==
  ASSUME NEW S, Steps(S)
  PROVE  Cardinality(S) \in Nat /\ Ordering(S, Cardinality(S)) # {}
<1>0. IsFiniteSet(S) /\ \A x \in S : x.step \in Int /\ \A y \in S : x # y => x.step # y.step
  BY DEF Steps
<1> DEFINE G == {n \in Nat : \A T \in SUBSET S : Cardinality(T) = n => Ordering(T, n) # {}}
<1>1. 0 \in G
  <2>1. ASSUME NEW T \in SUBSET S, Cardinality(T) = 0
        PROVE  Ordering(T, 0) # {}
    <3>1. T = {}
      BY <1>0, <2>1, FS_Subset, FS_EmptySet
    <3>2. <<>> \in [1 .. 0 -> T] /\ ToSet(<<>>) = T /\ Sorted(<<>>, 0)
      BY <3>1 DEF ToSet, Sorted
    <3> QED
      BY <3>2 DEF Ordering
  <2> QED
    BY <2>1
<1>2. ASSUME NEW n \in Nat, n \in G
      PROVE  n + 1 \in G
  <2>1. ASSUME NEW T \in SUBSET S, Cardinality(T) = n + 1
        PROVE  Ordering(T, n + 1) # {}
    <3>1. IsFiniteSet(T) /\ T # {}
      BY <1>0, <2>1, FS_Subset, FS_EmptySet
    <3>2. PICK e \in T : \A y \in T : y.step <= e.step
      BY <1>0, <3>1, GreatestStep
    <3>r. IsFiniteSet(T \ {e}) /\ Cardinality(T \ {e}) = Cardinality(T) - 1
      BY <3>1, <3>2, FS_RemoveElement
    <3>3. IsFiniteSet(T \ {e}) /\ Cardinality(T \ {e}) = n
      BY <2>1, <3>r
    <3>4. PICK s \in [1 .. n -> T \ {e}] : ToSet(s) = T \ {e} /\ Sorted(s, n)
      BY <1>2, <3>3 DEF Ordering
    <3> DEFINE t == [i \in 1 .. n + 1 |-> IF i = n + 1 THEN e ELSE s[i]]
    <3>5. t \in [1 .. n + 1 -> T] /\ t[n + 1] = e /\ \A i \in 1 .. n : t[i] = s[i]
      OBVIOUS
    <3>6. ToSet(t) = T
      <4>1. ASSUME NEW x \in T
            PROVE  \E i \in 1 .. n + 1 : t[i] = x
        <5>1. CASE x = e
          BY <3>5, <5>1
        <5>2. CASE x # e
          <6>1. PICK i \in 1 .. n : s[i] = x
            BY <3>4, <5>2 DEF ToSet
          <6> QED
            BY <3>5, <6>1
        <5> QED
          BY <5>1, <5>2
      <4> HIDE DEF t
      <4> QED
        BY <3>5, <4>1 DEF ToSet
    <3>7. Sorted(t, n + 1)
      <4>1. ASSUME NEW i \in 2 .. n + 1
            PROVE  t[i - 1].step < t[i].step
        <5>1. CASE i = n + 1
          <6>1. n \in 1 .. n /\ t[n] = s[n] /\ s[n] \in T \ {e}
            BY <3>5, <4>1, <5>1
          <6>2. s[n].step <= e.step /\ s[n].step # e.step /\ s[n].step \in Int /\ e.step \in Int
            BY <1>0, <3>2, <6>1
          <6> QED
            BY <3>5, <5>1, <6>1, <6>2
        <5>2. CASE i # n + 1
          <6>1. i \in 2 .. n /\ i \in 1 .. n /\ i - 1 \in 1 .. n
            BY <4>1, <5>2
          <6> QED
            BY <3>4, <3>5, <6>1 DEF Sorted
        <5> QED
          BY <5>1, <5>2
      <4> QED
        BY <4>1 DEF Sorted
    <3> HIDE DEF t
    <3> QED
      BY <3>5, <3>6, <3>7 DEF Ordering
  <2> QED
    BY <2>1
<1>3. Cardinality(S) \in Nat
  BY <1>0, FS_CardinalityType
<1> HIDE DEF G
<1>4. Cardinality(S) \in G
  BY <1>1, <1>2, <1>3, InductionOnNat
<1> QED
  BY <1>3, <1>4 DEF G

\* What is sorted step by step is sorted.
LEMMA SortedThroughout ==
  ASSUME NEW n \in Nat, NEW s, \A i \in 1 .. n : s[i].step \in Int, Sorted(s, n)
  PROVE  \A i, j \in 1 .. n : i < j => s[i].step < s[j].step
<1> DEFINE G == {j \in Nat : j \in 1 .. n => \A i \in 1 .. n : i < j => s[i].step < s[j].step}
<1>1. 0 \in G
  OBVIOUS
<1>2. ASSUME NEW j \in Nat, j \in G
      PROVE  j + 1 \in G
  <2>1. ASSUME j + 1 \in 1 .. n, NEW i \in 1 .. n, i < j + 1
        PROVE  s[i].step < s[j + 1].step
    <3>1. j \in 1 .. n /\ j + 1 \in 2 .. n /\ (j + 1) - 1 = j
      BY <2>1
    <3>2. s[j].step < s[j + 1].step
      BY <3>1 DEF Sorted
    <3>3. CASE i = j
      BY <3>2, <3>3
    <3>4. CASE i < j
      <4>1. s[i].step < s[j].step
        BY <1>2, <3>1, <3>4
      <4> QED
        BY <2>1, <3>1, <3>2, <4>1
    <3> QED
      BY <2>1, <3>3, <3>4
  <2> QED
    BY <2>1
<1> HIDE DEF G
<1>3. Nat \subseteq G
  BY <1>1, <1>2, InductionOnNat
<1> QED
  BY <1>3 DEF G

(***************************************************************************)
(* What a handler gets of a sample: all of it, in the order of the steps.  *)
(***************************************************************************)
LEMMA SampleInOrder ==
  ASSUME NEW S, Steps(S), NEW s, s = InOrder(S)
  PROVE  /\ Len(s) = Cardinality(S) /\ Len(s) \in Nat /\ s \in Seq(S) /\ ToSet(s) = S
         /\ DOMAIN s = 1 .. Len(s)
         /\ \A i, j \in 1 .. Len(s) : i < j => s[i].step < s[j].step
<1> DEFINE n == Cardinality(S)
<1>1. n \in Nat /\ \A t \in [1 .. n -> S] : t \in Seq(S) /\ Len(t) = n
  BY OrderingExists, SeqOfFunction
<1>2. \E t \in [1 .. n -> S] : ToSet(t) = S /\ Sorted(t, n)
  BY OrderingExists DEF Ordering
<1>3. \E t \in [1 .. n -> S] : ToSet(t) = S /\ \A i \in 2 .. Len(t) : t[i - 1].step < t[i].step
  BY <1>1, <1>2, Zenon DEF Sorted
<1>4. s \in [1 .. n -> S] /\ ToSet(s) = S /\ \A i \in 2 .. Len(s) : s[i - 1].step < s[i].step
  BY <1>3, Zenon DEF InOrder
<1>5. s \in Seq(S) /\ Len(s) = n /\ Sorted(s, n)
  BY <1>1, <1>4, Zenon DEF Sorted
<1>6. \A i \in 1 .. n : s[i].step \in Int
  BY <1>4 DEF Steps
<1> HIDE DEF n
<1>7. \A i, j \in 1 .. n : i < j => s[i].step < s[j].step
  BY <1>1, <1>5, <1>6, SortedThroughout
<1> QED
  BY <1>1, <1>4, <1>5, <1>7 DEF n

(***************************************************************************)
(* What downsampling leaves of it.                                         *)
(***************************************************************************)
Points(s, S, points, k) ==
  /\ points \in Seq(S) /\ ToSet(points) \subseteq ToSet(s) /\ Len(points) = k
  /\ \A j \in 1 .. Len(points) - 1 : points[j].step < points[j + 1].step
  /\ points # <<>> => points[Len(points)] = s[Len(s)]

\* They are in order, the newest one is the last, and there are k of them.
LEMMA PointsPicked ==
  ASSUME NEW S, NEW s \in Seq(S),
         \A i, j \in 1 .. Len(s) : i < j => s[i].step < s[j].step,
         NEW k \in Nat, NEW points \in Downsampled(s, k)
  PROVE  Points(s, S, points, Min({k, Len(s)}))
<1> DEFINE n == Len(s)
           m == Min({k, n})
<1>1. n \in Nat /\ DOMAIN s = 1 .. n /\ \A i \in 1 .. n : s[i] \in S
  BY LenProperties, ElementOfSeq
<1>2. m \in Nat
  <2>1. {k, n} \in SUBSET Nat /\ {k, n} # {}
    BY <1>1
  <2>2. m \in {k, n}
    BY <2>1, LeastNatural
  <2> QED
    BY <1>1, <2>2
<1>3. PICK p \in Chosen(n, m) : points = [j \in DOMAIN p |-> s[p[j]]]
  BY Zenon DEF Downsampled
<1> HIDE DEF m, n
<1>4. p \in [1 .. m -> 1 .. n] /\ (\A j \in 2 .. m : p[j - 1] < p[j]) /\ (m # 0 => p[m] = n)
  BY <1>3 DEF Chosen, Picks
<1>5. points \in [1 .. m -> S] /\ \A j \in 1 .. m : points[j] = s[p[j]]
  BY <1>1, <1>3, <1>4
<1>6. points \in Seq(S) /\ Len(points) = m /\ DOMAIN points = 1 .. m
  BY <1>2, <1>5, SeqOfFunction
<1>7. ToSet(points) \subseteq ToSet(s)
  BY <1>1, <1>4, <1>5, <1>6 DEF ToSet
<1>8. ASSUME NEW j \in 1 .. m - 1
      PROVE  points[j].step < points[j + 1].step
  <2>1. j \in 1 .. m /\ j + 1 \in 2 .. m /\ j + 1 \in 1 .. m /\ (j + 1) - 1 = j
    BY <1>2, <1>8
  <2>2. p[j] < p[j + 1] /\ p[j] \in 1 .. n /\ p[j + 1] \in 1 .. n
    BY <1>4, <2>1
  <2> QED
    BY <1>5, <2>1, <2>2 DEF n
<1>9. points # <<>> => points[m] = s[n]
  <2>1. m = 0 => points = <<>>
    BY <1>6, EmptySeq
  <2>2. m # 0 => m \in 1 .. m
    BY <1>2
  <2> QED
    BY <1>4, <1>5, <2>1, <2>2
<1> QED
  BY <1>6, <1>7, <1>8, <1>9 DEF Points, m, n

-----------------------------------------------------------------------------
(***************************************************************************)
(* What is in a sample, which is never empty once its tag has metadata.    *)
(***************************************************************************)
LEMMA HeldNow ==
  ASSUME World, NEW r \in DOMAIN state, NEW tag \in DOMAIN accs[r],
         NEW x \in accs[r][tag].sample
  PROVE  /\ Held(r, x) /\ x.tag = tag /\ x \in Datum /\ x.step \in Int /\ x.dir = Path(r)
         /\ x.at[1] \in readers[r].opened /\ x.at[1] \in Nat /\ x.at[2] \in Nat
<1>1. Sampling(r, tag)
  BY DEF World, Sampled
<1>2. /\ Genuine(r, x) /\ x.tag = tag
      /\ \A y \in accs[r][tag].sample : x # y => x.step # y.step
  BY <1>1 DEF Sampling
<1>3. x \in Datum /\ x.dir = Path(r) /\ x.at[1] \in readers[r].opened
  BY <1>2 DEF Genuine
<1>4. x.step \in Int /\ x.at \in Nat \X Nat
  BY <1>3 DEF Datum
<1>5. Held(r, x)
  BY <1>2 DEF Held
<1> QED
  BY <1>2, <1>3, <1>4, <1>5

\* A sample, in order; the last value is the newest.
Newest(s, S) ==
  /\ s \in Seq(S) /\ ToSet(s) = S /\ Len(s) \in Nat /\ Len(s) > 0
  /\ DOMAIN s = 1 .. Len(s) /\ Last(s) = s[Len(s)] /\ Last(s) \in S
  /\ \A i, j \in 1 .. Len(s) : i < j => s[i].step < s[j].step
  /\ \A y \in S : y = Last(s) \/ After(Last(s).at, y.at)

\* What the handler reads of a tag that has metadata is such a sample.
LEMMA SampleRead ==
  ASSUME World, NEW r \in DOMAIN state, NEW tag \in DOMAIN accs[r],
         NEW s, s = SampleOf(r, tag)
  PROVE  /\ Steps(accs[r][tag].sample) /\ s = InOrder(accs[r][tag].sample)
         /\ accs[r][tag].md # NoMeta => Newest(s, accs[r][tag].sample)
<1> DEFINE S == accs[r][tag].sample
<1>1. Sampling(r, tag)
  BY DEF World, Sampled
<1>2. /\ IsFiniteSet(S) /\ (accs[r][tag].md = NoMeta <=> S = {})
      /\ \A x, y \in S : /\ x # y => x.step # y.step
                         /\ x.step < y.step => After(y.at, x.at)
  BY <1>1, Zenon DEF Sampling
<1>3. \A x \in S : x.step \in Int
  BY HeldNow
<1>4. s = InOrder(S)
  BY DEF SampleOf
<1> HIDE DEF S
<1>5. Steps(S)
  BY <1>2, <1>3 DEF Steps
<1>6. /\ Len(s) = Cardinality(S) /\ Len(s) \in Nat /\ s \in Seq(S) /\ ToSet(s) = S
      /\ DOMAIN s = 1 .. Len(s)
      /\ \A i, j \in 1 .. Len(s) : i < j => s[i].step < s[j].step
  BY <1>4, <1>5, SampleInOrder
<1>7. ASSUME S # {}
      PROVE  Newest(s, S)
  <2> DEFINE n == Len(s)
  <2>1. n \in Nat /\ n > 0 /\ n \in 1 .. n
    BY <1>2, <1>6, <1>7, FS_EmptySet
  <2>2. Last(s) = s[n]
    BY DEF Last
  <2> HIDE DEF n
  <2>3. s[n] \in S
    BY <1>6, <2>1, ElementOfSeq DEF n
  <2>4. ASSUME NEW y \in S
        PROVE  y = s[n] \/ After(s[n].at, y.at)
    <3>1. PICK i \in 1 .. n : y = s[i]
      BY <1>6, <2>4 DEF ToSet, n
    <3>2. i = n \/ s[i].step < s[n].step
      BY <1>6, <2>1, <3>1 DEF n
    <3> QED
      BY <1>2, <2>3, <2>4, <3>1, <3>2
  <2> QED
    BY <1>6, <2>1, <2>2, <2>3, <2>4 DEF Newest, n
<1> QED
  BY <1>2, <1>4, <1>5, <1>7 DEF S

\* Whatever has been in the sample is not newer than that.
LEMMA NewestIsNewer ==
  ASSUME World, NEW r \in DOMAIN state, NEW x, NEW s, Held(r, x),
         Newest(s, accs[r][x.tag].sample)
  PROVE  Last(s) = x \/ Later(Last(s), x)
<1> DEFINE S == accs[r][x.tag].sample
           l == Last(s)
<1>1. x.tag \in DOMAIN accs[r] /\ (x \in S \/ \E y \in S : After(y.at, x.at))
  BY DEF Held
<1>2. x \in Datum /\ x.dir = Path(r)
  BY DEF Held, Genuine
<1>3. l \in S /\ \A y \in S : y = l \/ After(l.at, y.at)
  BY DEF Newest
<1>4. \A y \in S : y \in Datum /\ y.dir = Path(r)
  BY <1>1, HeldNow
<1>5. x.at \in Nat \X Nat /\ \A y \in S : y.at \in Nat \X Nat
  BY <1>2, <1>4 DEF Datum
<1>6. l = x \/ After(l.at, x.at)
  <2>1. CASE x \in S
    BY <1>3, <2>1
  <2>2. ASSUME NEW y \in S, After(y.at, x.at)
        PROVE  After(l.at, x.at)
    BY <1>3, <1>5, <2>2, AfterIsTransitive
  <2> QED
    BY <1>1, <2>1, <2>2
<1> QED
  BY <1>2, <1>3, <1>4, <1>6 DEF Later, After

(***************************************************************************)
(* What a reader has found is what may be logged.                          *)
(***************************************************************************)
LEMMA GenuineIsLoggable ==
  ASSUME World, NEW r \in DOMAIN state, NEW x, Genuine(r, x)
  PROVE  /\ x.step \in MinInt .. MaxInt
         /\ x.tensor.dims = <<>>
              \/ Head(x.tensor.dims) \in MinInt .. Min({MaxInt, MaxExact})
         /\ x.tensor.dtype = "string" => x.tensor.vals \in Seq(Seq(Int))
<1>1. /\ x.dir = Path(r) /\ x.at[1] \in readers[r].opened
      /\ x.at[2] \in 1 .. Len(scenario.logged[x.dir][x.at[1]])
      /\ x.step = Source(x).step /\ x.tensor = TensorOf(Source(x).value)
  BY DEF Genuine
<1>2. x.at[1] \in 1 .. Len(scenario.logged[x.dir])
  BY <1>1, FoundThere
<1>3. x.dir \in Dirs /\ scenario \in Scenarios
  BY <1>1, Places DEF World, Types
<1>4. Loggable(scenario.logged[x.dir][x.at[1]][x.at[2]])
  BY <1>1, <1>2, <1>3, LoggedThere
<1>5. Loggable(Source(x))
  BY <1>4 DEF Source
<1> QED
  BY <1>1, <1>5, Zenon DEF Loggable

(***************************************************************************)
(* Values of the kinds that fit the class of their series can be read.     *)
(***************************************************************************)
LEMMA FittingIsReadable ==
  ASSUME World, NEW r \in DOMAIN state, NEW x, Genuine(r, x)
  PROVE  /\ Fits("blobs", Written(x)) => ~NoLength(x.tensor) /\ ~Negative(x.tensor)
         /\ Fits("scalar", Written(x)) => ~NoScalar(x.tensor)
<1>1. PICK v : v = Written(x)
  OBVIOUS
<1>2. x.tensor = TensorOf(v)
  BY <1>1 DEF Genuine, Source, Written
<1>3. Fits("blobs", v) => ~NoLength(x.tensor) /\ ~Negative(x.tensor)
  <2>1. CASE v.what = "image"
    <3>1. x.tensor.dims = <<3>>
      BY <1>2, <2>1 DEF TensorOf
    <3> QED
      BY <3>1 DEF NoLength, Negative
  <2>2. CASE v.what = "graph"
    <3>1. x.tensor.dims = <<1>>
      BY <1>2, <2>2 DEF TensorOf, GraphTensor
    <3> QED
      BY <3>1 DEF NoLength, Negative
  <2>3. CASE v.what = "tensor" /\ v.data.dims # <<>> /\ Head(v.data.dims) >= 0
    <3>1. x.tensor = v.data
      BY <1>2, <2>3 DEF TensorOf
    <3>2. ~NoLength(x.tensor)
      BY <2>3, <3>1 DEF NoLength
    <3>3. Head(x.tensor.dims) \in MinInt .. Min({MaxInt, MaxExact})
      BY <2>3, <3>1, GenuineIsLoggable
    <3>4. Head(x.tensor.dims) >= 0 => ~(Head(x.tensor.dims) < 0)
      <4> DEFINE h == Head(x.tensor.dims)
      <4>1. h \in Int
        BY <3>3
      <4> HIDE DEF h
      <4>2. h >= 0 => ~(h < 0)
        BY <4>1
      <4> QED
        BY <4>2 DEF h
    <3> QED
      BY <2>3, <3>1, <3>2, <3>4 DEF Negative
  <2>4. Fits("blobs", v) <=> \/ v.what \in {"image", "graph"}
                             \/ v.what = "tensor" /\ v.data.dims # <<>> /\ Head(v.data.dims) >= 0
    BY DEF Fits
  <2> QED
    BY <2>1, <2>2, <2>3, <2>4
<1>4. Fits("scalar", v) => ~NoScalar(x.tensor)
  <2>1. CASE v.what = "simple"
    <3>1. x.tensor.dtype = "float" /\ x.tensor.vals = <<v.data>>
      BY <1>2, <2>1 DEF TensorOf
    <3> QED
      BY <3>1 DEF NoScalar, NoTensor
  <2>2. CASE v.what = "tensor" /\ v.data.vals # <<>>
    <3>1. x.tensor.vals # <<>>
      BY <1>2, <2>2 DEF TensorOf
    <3> QED
      BY <3>1 DEF NoScalar, NoTensor
  <2> QED
    BY <2>1, <2>2 DEF Fits
<1> QED
  BY <1>1, <1>3, <1>4

(***************************************************************************)
(* The points that a handler takes of a sample.                            *)
(***************************************************************************)
PointsAsked(points, s) ==
  /\ ToSet(points) \subseteq ToSet(s)
  /\ req.op = "Read" =>
       /\ \A j \in 1 .. Len(points) - 1 : points[j].step < points[j + 1].step
       /\ Len(points) = IF req.class = "blobs" THEN Len(s) ELSE Min({req.points, Len(s)})
       /\ points # <<>> => points[Len(points)] = Last(s)

\* The points are those of the sample that were asked for.
LEMMA PointsRead ==
  ASSUME Request(req), req.op \in {"List", "Read"}, req.op = "Read" => req.points >= 0,
         NEW S, NEW s, Newest(s, S), NEW points \in PointsOf(s)
  PROVE  PointsAsked(points, s)
<1>1. /\ s \in Seq(S) /\ Len(s) \in Nat /\ Last(s) = s[Len(s)]
      /\ \A i, j \in 1 .. Len(s) : i < j => s[i].step < s[j].step
  BY DEF Newest
<1>2. CASE req.op = "List"
  <2>1. points = <<>>
    BY <1>2 DEF PointsOf
  <2>2. ToSet(points) = {}
    BY <2>1 DEF ToSet
  <2> QED
    BY <1>2, <2>2 DEF PointsAsked
<1>3. CASE req.op = "Read" /\ req.class = "blobs"
  <2>1. points = s
    BY <1>3 DEF PointsOf
  <2>2. \A j \in 1 .. Len(s) - 1 : j \in 1 .. Len(s) /\ j + 1 \in 1 .. Len(s) /\ j < j + 1
    BY <1>1
  <2>3. \A j \in 1 .. Len(s) - 1 : s[j].step < s[j + 1].step
    BY <1>1, <2>2
  <2> QED
    BY <1>1, <1>3, <2>1, <2>3 DEF PointsAsked
<1>4. CASE req.op = "Read" /\ req.class # "blobs"
  <2>1. req.points \in Nat /\ points \in Downsampled(s, req.points)
    BY <1>4 DEF PointsOf, Request
  <2>2. Points(s, S, points, Min({req.points, Len(s)}))
    BY <1>1, <2>1, PointsPicked
  <2> QED
    BY <1>1, <1>4, <2>2 DEF Points, PointsAsked
<1> QED
  BY <1>2, <1>3, <1>4

(***************************************************************************)
(* The entry that the handler makes of a series.                           *)
(***************************************************************************)
EntryOf(run, r, tag, s, points) ==
  [run |-> run, tag |-> tag, md |-> accs[r][tag].md, newest |-> Last(s),
   points |-> points, stored |-> Len(s)]

\* It says what there is of the series, and what was asked for.
LEMMA EntryMade ==
  ASSUME World, Request(req), req.op \in {"List", "Read"}, req.op = "Read" => req.points >= 0,
         NEW run, NEW r, NEW tag, NEW s, NEW points, NEW e,
         Usable(run, r), tag \in Matching(r), s = SampleOf(r, tag), points \in PointsOf(s),
         ~Unreadable(s, points), e = EntryOf(run, r, tag, s, points)
  PROVE  /\ Fulfils(e, req) /\ Backs(r, e)
         /\ \A x \in Served(e) : x.at[1] > call.gone[x.dir]
         /\ \A x : Held(r, x) /\ x.tag = tag => e.newest = x \/ Later(e.newest, x)
<1>1. /\ r \in DOMAIN state /\ run = Rel(Logdir, Path(r)) /\ MatchesFilter(req.runs, run)
      /\ Since(r)
  BY DEF Usable
<1>2. /\ tag \in DOMAIN accs[r] /\ accs[r][tag].md # NoMeta /\ accs[r][tag].md.class = req.class
  BY DEF Matching
<1>3. /\ e.run = run /\ e.tag = tag /\ e.md = accs[r][tag].md /\ e.newest = Last(s)
      /\ e.points = points /\ e.stored = Len(s)
  BY DEF EntryOf
<1>4. Newest(s, accs[r][tag].sample)
  BY <1>1, <1>2, SampleRead
<1>5. PointsAsked(points, s)
  BY <1>4, PointsRead
<1>6. Served(e) \subseteq accs[r][tag].sample
  BY <1>3, <1>4, <1>5 DEF Served, Newest, PointsAsked
<1>7. \A x \in Served(e) : /\ x.tag = tag /\ Held(r, x) /\ x.dir = Path(r)
                           /\ x.at[1] \in readers[r].opened
  BY <1>1, <1>2, <1>6, HeldNow
<1>8. AskedFor(req, e)
  BY <1>1, <1>2, <1>3, MatchingAsked
<1>9. e.md.class = "blobs" => \A x \in ToSet(e.points) : x.tensor.dims # <<>>
  BY <1>2, <1>3, <1>5 DEF Unreadable, NoLength, PointsAsked
<1>10. Fulfils(e, req)
  BY <1>2, <1>3, <1>5, <1>8, <1>9 DEF Fulfils, PointsAsked
<1>11. Backs(r, e)
  BY <1>1, <1>2, <1>3, <1>7 DEF Backs
<1>12. \A x \in Served(e) : x.at[1] > call.gone[x.dir]
  BY <1>1, <1>7 DEF Since
<1>13. \A x : Held(r, x) /\ x.tag = tag => e.newest = x \/ Later(e.newest, x)
  BY <1>1, <1>3, <1>4, NewestIsNewer
<1> QED
  BY <1>10, <1>11, <1>12, <1>13

(***************************************************************************)
(* The handler comes to the next tag, ...                                  *)
(***************************************************************************)
LEMMA EntryKeepsCalls ==
  ASSUME World, Calls, Still, UNCHANGED <<answers, refs>>, call.pc = "reading",
         NEW tag \in call.tags, NEW s, s = SampleOf(call.acc, tag), NEW points \in PointsOf(s),
         ~Unreadable(s, points), NEW e, e = EntryOf(call.run, call.acc, tag, s, points),
         call' = [call EXCEPT !.tags = @ \ {tag}, !.entries = @ \cup {e}]
  PROVE  Calls'
<1>1. PICK x : x = call
  OBVIOUS
<1>2. IsReading(x)
  BY <1>1, UnderWay
<1>3. call' = [x EXCEPT !.tags = x.tags \ {tag}, !.entries = x.entries \cup {e}]
  BY <1>1
<1>4. PICK y : y = call'
  OBVIOUS
<1>5. y = CallAt(x, x.runs, x.run, x.acc, x.tags \ {tag}, x.entries \cup {e})
  <2> DEFINE tags == x.tags \ {tag}
             entries == x.entries \cup {e}
  <2>1. y = [x EXCEPT !.tags = tags, !.entries = entries]
    BY <1>3, <1>4
  <2> HIDE DEF tags, entries
  <2>2. y = CallAt(x, x.runs, x.run, x.acc, tags, entries)
    BY <1>2, <2>1, NextTagCall, Zenon
  <2> QED
    BY <2>2 DEF tags, entries
<1>6. /\ y.pc = "reading" /\ y.runs = x.runs /\ y.run = x.run /\ y.acc = x.acc
      /\ y.tags = x.tags \ {tag} /\ y.entries = x.entries \cup {e}
      /\ y.due = x.due /\ y.gone = x.gone
  BY <1>5 DEF CallAt
<1>7. IsReading(y)
  BY <1>5 DEF CallAt, IsReading
<1>8. /\ req' = req /\ Series' = Series /\ answers' = answers
      /\ (Going => Going') /\ (Dropped => Dropped')
      /\ \A n, q : Usable(n, q) => Usable(n, q)'
      /\ \A q : Matching(q)' = Matching(q)
      /\ \A entries, request, dropped :
             Entries(entries, request, dropped) => Entries(entries, request, dropped)'
      /\ \A q, f : Backs(q, f) => Backs(q, f)'
      /\ \A z : Present(z)' => Present(z)
      /\ UNCHANGED <<scenario, accs>>
  BY <1>1, <1>4, <1>6, SameCall, StillThere
<1>9. /\ Request(req) /\ req.op \in {"List", "Read"} /\ (req.op = "Read" => req.points >= 0)
      /\ Visited /\ x.tags # {}
  BY <1>1, UnderWay, RequestNow
<1>10. /\ Usable(x.run, x.acc) /\ x.tags \subseteq Matching(x.acc)
       /\ \A n \in DOMAIN x.runs : Usable(n, x.runs[n])
  BY <1>1, <1>9 DEF Visited
<1>11. e.run = x.run /\ e.tag = tag /\ e.md = accs[x.acc][tag].md
  BY <1>1 DEF EntryOf
<1>12. /\ Fulfils(e, req) /\ Backs(x.acc, e)
       /\ \A z \in Served(e) : z.at[1] > x.gone[z.dir]
       /\ \A z : Held(x.acc, z) /\ z.tag = tag => e.newest = z \/ Later(e.newest, z)
  BY <1>1, <1>9, <1>10, EntryMade
<1>13. Entries(y.entries, req, y.gone)
  <2>1. Entries(x.entries, req, x.gone)
    BY <1>1, UnderWay
  <2>2. x.acc \in DOMAIN state
    BY <1>10 DEF Usable
  <2> QED
    BY <1>6, <1>12, <2>1, <2>2 DEF Entries
<1>14. Visited'
  <2>1. IsMap(y.runs)
    BY <1>1, <1>6, <1>9 DEF Visited
  <2>2. \A n \in DOMAIN y.runs : Usable(n, y.runs[n])'
    BY <1>6, <1>8, <1>10
  <2>3. Usable(y.run, y.acc)' /\ y.tags \subseteq Matching(y.acc)'
    BY <1>6, <1>8, <1>10
  <2> QED
    BY <1>4, <2>1, <2>2, <2>3 DEF Visited
<1>15. ASSUME NEW d \in x.due, AskedFor(req, d)
       PROVE  StillDue(d)'
  <2>1. StillDue(d)
    BY <1>1, <1>15, UnderWay
  <2>2. CASE /\ d.run \in DOMAIN x.runs
             /\ LET acc == accs[x.runs[d.run]] IN d.tag \in DOMAIN acc /\ acc[d.tag].md = d.md
    BY <1>4, <1>6, <1>8, <2>2, Zenon DEF StillDue
  <2>3. CASE d.run = x.run /\ d.tag \in x.tags /\ accs[x.acc][d.tag].md = d.md
    <3>1. CASE d.tag = tag
      <4>1. \E f \in y.entries : f.run = d.run /\ f.tag = d.tag /\ f.md = d.md
        BY <1>6, <1>11, <2>3, <3>1
      <4> QED
        BY <1>4, <4>1, Zenon DEF StillDue
    <3>2. CASE d.tag # tag
      <4>1. d.tag \in y.tags
        BY <1>6, <2>3, <3>2
      <4> QED
        BY <1>4, <1>6, <1>8, <2>3, <4>1, Zenon DEF StillDue
    <3> QED
      BY <3>1, <3>2
  <2>4. CASE \E f \in x.entries : f.run = d.run /\ f.tag = d.tag /\ f.md = d.md
    <3>1. \E f \in y.entries : f.run = d.run /\ f.tag = d.tag /\ f.md = d.md
      BY <1>6, <2>4
    <3> QED
      BY <1>4, <3>1, Zenon DEF StillDue
  <2> QED
    BY <1>1, <2>1, <2>2, <2>3, <2>4 DEF StillDue
<1>16. ASSUME NEW i \in Series, NEW a \in answers[i].entries, Present(a.newest), AskedFor(req, a)
       PROVE  StillNewer(a)'
  <2>1. StillNewer(a)
    BY <1>16, UnderWay
  <2>2. CASE a.run \in DOMAIN x.runs /\ Backs(x.runs[a.run], a)
    BY <1>4, <1>6, <1>8, <2>2, Zenon DEF StillNewer
  <2> DEFINE Newer(f) == /\ f.run = a.run /\ f.tag = a.tag
                         /\ f.newest = a.newest \/ Later(f.newest, a.newest)
  <2>3. CASE a.run = x.run /\ a.tag \in x.tags /\ Backs(x.acc, a)
    <3>1. CASE a.tag = tag
      <4>1. Held(x.acc, a.newest) /\ a.newest.tag = tag
        BY <2>3, <3>1 DEF Backs, Served
      <4>2. Newer(e)
        BY <1>11, <1>12, <2>3, <3>1, <4>1
      <4>3. \E f \in y.entries : Newer(f)
        BY <1>6, <4>2
      <4> QED
        BY <1>4, <4>3, Zenon DEF StillNewer, Later
    <3>2. CASE a.tag # tag
      <4>1. a.tag \in y.tags
        BY <1>6, <2>3, <3>2
      <4> QED
        BY <1>4, <1>6, <1>8, <2>3, <4>1, Zenon DEF StillNewer
    <3> QED
      BY <3>1, <3>2
  <2>4. CASE \E f \in x.entries : Newer(f)
    <3>1. \E f \in y.entries : Newer(f)
      BY <1>6, <2>4
    <3> QED
      BY <1>4, <3>1, Zenon DEF StillNewer, Later
  <2> QED
    BY <1>1, <2>1, <2>2, <2>3, <2>4 DEF StillNewer
<1>17. Listing'
  <2>1. Going' /\ Dropped' /\ Entries(y.entries, req, y.gone)'
    BY <1>1, <1>6, <1>8, <1>13, UnderWay
  <2>2. \A d \in y.due : AskedFor(req, d)' => StillDue(d)'
    BY <1>6, <1>8, <1>15
  <2>3. \A i \in Series' : \A a \in answers'[i].entries :
          Present(a.newest)' /\ AskedFor(req, a)' => StillNewer(a)'
    BY <1>8, <1>16
  <2> QED
    BY <1>4, <1>7, <1>8, <1>9, <1>14, <2>1, <2>2, <2>3, Zenon DEF Listing
<1>18. Calling' /\ Counting' /\ Fetching' /\ PanicOnlyIfMixed'
  BY <1>4, <1>6 DEF Calling, Counting, Fetching, PanicOnlyIfMixed
<1> QED
  BY <1>17, <1>18, GoesOn

(***************************************************************************)
(* ... which it may not be able to read.                                   *)
(***************************************************************************)
LEMMA PanicKeepsCalls ==
  ASSUME World, Calls, Still, UNCHANGED <<answers, refs>>, call.pc = "reading",
         NEW tag \in call.tags, NEW s, s = SampleOf(call.acc, tag), NEW points \in PointsOf(s),
         Unreadable(s, points), call' = [call EXCEPT !.pc = "panicked", !.tags = {tag}]
  PROVE  Calls'
<1>1. PICK x : x = call
  OBVIOUS
<1>2. IsReading(x)
  BY <1>1, UnderWay
<1>3. PICK y : y = [x EXCEPT !.pc = "panicked", !.tags = {tag}]
  OBVIOUS
<1>4. call' = y
  BY <1>1, <1>3
<1>5. y.pc = "panicked" /\ y.tags = {tag} /\ y.acc = x.acc
  BY <1>2, <1>3 DEF IsReading
<1>6. req' = req /\ UNCHANGED <<scenario, accs>>
  BY StillThere DEF req
<1>7. /\ Request(req) /\ req.op \in {"List", "Read"} /\ (req.op = "Read" => req.points >= 0)
      /\ Usable(x.run, x.acc) /\ tag \in Matching(x.acc)
  BY <1>1, UnderWay, RequestNow DEF Visited
<1> DEFINE r == x.acc
           S == accs[r][tag].sample
<1>8. r \in DOMAIN state /\ tag \in DOMAIN accs[r] /\ accs[r][tag].md # NoMeta
  BY <1>7 DEF Usable, Matching
<1>9. Newest(s, S)
  BY <1>1, <1>8, SampleRead
<1>10. ToSet(s) = S /\ ToSet(points) \subseteq S
  <2>1. PointsAsked(points, s)
    BY <1>7, <1>9, PointsRead
  <2> QED
    BY <1>9, <2>1 DEF Newest, PointsAsked
<1>11. \A z \in S : Genuine(r, z)
  BY <1>8, HeldNow DEF Held
<1> HIDE DEF r, S
<1>12. PICK z \in S : ~Fits(req.class, Written(z))
  <2>1. \A z \in S : /\ Fits("blobs", Written(z)) => ~NoLength(z.tensor) /\ ~Negative(z.tensor)
                     /\ Fits("scalar", Written(z)) => ~NoScalar(z.tensor)
    BY <1>8, <1>11, FittingIsReadable
  <2> QED
    BY <1>10, <2>1 DEF Unreadable
<1>13. Written(z)' = Written(z)
  BY <1>6 DEF Written
<1>14. PanicOnlyIfMixed'
  <2>1. z \in accs'[y.acc][tag].sample /\ tag \in y.tags /\ ~Fits(req'.class, Written(z)')
    BY <1>5, <1>6, <1>12, <1>13 DEF r, S
  <2>2. ~Fits(req.class, Written(z))'
    BY <1>6, <1>12 DEF Fits, Written
  <2> QED
    BY <1>4, <2>1, <2>2, Zenon DEF PanicOnlyIfMixed
<1>15. Calling' /\ Counting' /\ Listing' /\ Fetching'
  BY <1>4, <1>5 DEF Calling, Counting, Listing, Fetching
<1> QED
  BY <1>14, <1>15, GoesOn

\* The body of the loop over the tags has been run.
LEMMA VisitTagKeepsCalls ==
  ASSUME World, Calls, VisitTag
  PROVE  Calls'
<1>1. Still /\ UNCHANGED <<answers, refs>> /\ call.pc = "reading"
  BY DEF VisitTag, Still
<1>2. PICK tag \in call.tags :
        \E points \in PointsOf(SampleOf(call.acc, tag)) :
          call' = IF Unreadable(SampleOf(call.acc, tag), points)
                  THEN [call EXCEPT !.pc = "panicked", !.tags = {tag}]
                  ELSE [call EXCEPT
                          !.tags = @ \ {tag},
                          !.entries = @ \cup
                            {EntryOf(call.run, call.acc, tag, SampleOf(call.acc, tag), points)}]
  BY Zenon DEF VisitTag, EntryOf
<1>3. PICK s : s = SampleOf(call.acc, tag)
  OBVIOUS
<1>4. PICK points \in PointsOf(s) :
        call' = IF Unreadable(s, points)
                THEN [call EXCEPT !.pc = "panicked", !.tags = {tag}]
                ELSE [call EXCEPT !.tags = @ \ {tag},
                                  !.entries = @ \cup
                                    {EntryOf(call.run, call.acc, tag, s, points)}]
  BY <1>2, <1>3
<1>5. PICK e : e = EntryOf(call.run, call.acc, tag, s, points)
  OBVIOUS
<1>6. CASE Unreadable(s, points)
  <2>1. call' = [call EXCEPT !.pc = "panicked", !.tags = {tag}]
    BY <1>4, <1>6
  <2> QED
    BY <1>1, <1>3, <1>6, <2>1, PanicKeepsCalls, Zenon
<1>7. CASE ~Unreadable(s, points)
  <2>1. call' = [call EXCEPT !.tags = @ \ {tag}, !.entries = @ \cup {e}]
    BY <1>4, <1>5, <1>7
  <2> QED
    BY <1>1, <1>3, <1>5, <1>7, <2>1, EntryKeepsCalls, Zenon
<1> QED
  BY <1>6, <1>7

(***************************************************************************)
(* The handler has been to all runs and tags, and answers.                 *)
(***************************************************************************)
LEMMA ReferencesMade ==
  ASSUME World, Calls, Still, call.pc = "reading",
         refs' = refs \cup
           UNION {UNION {RefsOf(e.run, e.tag, x) : x \in ToSet(e.points)} :
                    e \in {e \in call.entries : e.md.class = "blobs"}}
  PROVE  refs \subseteq refs' /\ Referring'
<1>1. refs \subseteq refs'
  OBVIOUS
<1>2. UNCHANGED state /\ \A r, x : Held(r, x)' <=> Held(r, x)
  BY StillThere
<1> DEFINE OK(ref) == /\ ref.key = <<ref.key[1], ref.of.tag, ref.of.step, ref.index>>
                      /\ ref.key[1] = Rel(Logdir, ref.of.dir)
                      /\ ref.of.tensor.dims # <<>>
                      /\ ref.index \in 0 .. Head(ref.of.tensor.dims) - 1
                      /\ \E r \in DOMAIN state : Held(r, ref.of)
<1>3. \A ref \in refs : OK(ref)
  BY DEF Calls, Referring
<1>4. ASSUME NEW e \in call.entries, e.md.class = "blobs", NEW x \in ToSet(e.points),
             NEW ref \in RefsOf(e.run, e.tag, x)
      PROVE  OK(ref)
  <2>1. PICK i \in 0 .. Head(x.tensor.dims) - 1 :
          ref = [key |-> Encode([run |-> e.run, tag |-> e.tag, step |-> x.step, index |-> i]),
                 of |-> x, index |-> i]
    BY <1>4 DEF RefsOf
  <2>2. ref.key = <<e.run, e.tag, x.step, i>> /\ ref.of = x /\ ref.index = i
    BY <2>1 DEF Encode
  <2>3. Entries(call.entries, req, call.gone)
    BY UnderWay
  <2>4. Fulfils(e, req) /\ \E r \in DOMAIN state : Backs(r, e)
    BY <2>3 DEF Entries
  <2>5. PICK r \in DOMAIN state : Backs(r, e)
    BY <2>4
  <2>6. e.run = Rel(Logdir, Path(r)) /\ x.tag = e.tag /\ Held(r, x)
    BY <1>4, <2>5 DEF Backs, Served
  <2>7. x.dir = Path(r)
    BY <2>6, HeldWasThere
  <2>8. x.tensor.dims # <<>>
    BY <1>4, <2>4 DEF Fulfils
  <2> QED
    BY <2>1, <2>2, <2>6, <2>7, <2>8
<1>5. \A ref \in refs' : OK(ref)
  <2> HIDE DEF OK
  <2> QED
    BY <1>3, <1>4
<1>6. \A ref \in refs' : OK(ref)'
  BY <1>2, <1>5
<1> QED
  BY <1>1, <1>6, Zenon DEF Referring

\* The handler returns what it has.
LEMMA ReturnKeepsCalls ==
  ASSUME World, Calls, Return
  PROVE  Calls'
<1>1. /\ Still /\ call.pc = "reading" /\ call.tags = {} /\ call.runs = <<>>
      /\ Answer([req |-> req, status |-> "OK", entries |-> call.entries,
                 due |-> call.due, gone |-> call.gone])
      /\ refs' = refs \cup
           UNION {UNION {RefsOf(e.run, e.tag, x) : x \in ToSet(e.points)} :
                    e \in {e \in call.entries : e.md.class = "blobs"}}
  BY DEF Return, Still
<1>2. refs \subseteq refs' /\ Referring'
  BY <1>1, ReferencesMade
<1>3. PICK a : a = [req |-> req, status |-> "OK", entries |-> call.entries,
                    due |-> call.due, gone |-> call.gone]
  OBVIOUS
<1>4. /\ a.req = req /\ a.status = "OK" /\ a.entries = call.entries
      /\ a.due = call.due /\ a.gone = call.gone
  BY <1>3
<1>5. /\ Going /\ req.op \in {"List", "Read"} /\ Entries(call.entries, req, call.gone)
      /\ \A s \in call.due : AskedFor(req, s) => StillDue(s)
      /\ \A i \in Series : \A b \in answers[i].entries :
              Present(b.newest) /\ AskedFor(req, b) => StillNewer(b)
  BY <1>1, UnderWay
<1>6. DOMAIN call.runs = {}
  BY <1>1
<1>7. ASSUME NEW e \in a.entries
      PROVE  /\ \A x \in Served(e) :
                  x.dir = Logdir \o e.run /\ x.tag = e.tag /\ x.at[1] > a.gone[x.dir]
             /\ AskedFor(req, e)
  <2>1. /\ Fulfils(e, req) /\ \A x \in Served(e) : x.at[1] > a.gone[x.dir]
        /\ \E r \in DOMAIN state : Backs(r, e)
    BY <1>4, <1>5 DEF Entries
  <2>2. PICK r \in DOMAIN state : Backs(r, e)
    BY <2>1
  <2>3. \A x \in Served(e) : x.dir = Path(r) /\ x.dir \in Dirs /\ x.tag = e.tag
    BY <2>2, HeldWasThere DEF Backs
  <2>4. \A x \in Served(e) : x.dir = Logdir \o e.run
    BY <2>2, <2>3, RelSays DEF Backs
  <2> QED
    BY <2>1, <2>3, <2>4 DEF Fulfils
<1>8. SeriesOK(a)
  <2>1. \A s \in a.due : AskedFor(req, s) =>
          \E e \in a.entries : e.run = s.run /\ e.tag = s.tag /\ e.md = s.md
    BY <1>1, <1>4, <1>5, <1>6 DEF StillDue
  <2> QED
    BY <1>4, <1>5, <1>7, <2>1, Zenon DEF SeriesOK
<1>9. AnswerOK(a)
  BY <1>4, <1>5, <1>8 DEF AnswerOK, IsBlob
<1>10. Follows(a)
  <2>1. ASSUME NEW i \in Series, NEW b \in answers[i].entries, Present(b.newest),
               AskedFor(a.req, b)
        PROVE  \E c \in a.entries : /\ c.run = b.run /\ c.tag = b.tag
                                    /\ c.newest = b.newest \/ Later(c.newest, b.newest)
    BY <1>1, <1>4, <1>5, <1>6, <2>1 DEF StillNewer
  <2> QED
    BY <2>1, Zenon DEF Follows, NewerIn
<1> QED
  BY <1>1, <1>2, <1>3, <1>4, <1>5, <1>9, <1>10, Answers

-----------------------------------------------------------------------------
(***************************************************************************)
(* The integers that survive a key of a blob.                              *)
(***************************************************************************)
LEMMA IntegersThere ==
  /\ MaxExact \in Nat /\ MaxExact >= 2 /\ MinInt \in Int /\ MaxInt \in Nat
  /\ MinInt = -MaxInt - 1
  /\ MaxExact = 2 * 2 ^ (FloatBits - 1) /\ 2 ^ (FloatBits - 1) \in Nat
  /\ 2 ^ IntBits \in Nat /\ MaxInt + 1 < 2 ^ IntBits /\ 2 ^ 0 = 1
<1>1. /\ FloatBits \in Nat /\ FloatBits - 1 \in Nat /\ IntBits \in Nat /\ IntBits - 1 \in Nat
      /\ (FloatBits - 1) + 1 = FloatBits /\ (IntBits - 1) + 1 = IntBits
  BY BlobKeyAssumption
<1> DEFINE f == 2 ^ (FloatBits - 1)
           g == 2 ^ (IntBits - 1)
<1>2. f \in Nat /\ f > 0 /\ 2 ^ FloatBits = 2 * f
  BY <1>1, PowersOfTwo
<1>3. g \in Nat /\ g > 0 /\ 2 ^ IntBits = 2 * g
  BY <1>1, PowersOfTwo
<1>4. 2 ^ 0 = 1
  OBVIOUS
<1>5. MaxExact = 2 * f
  BY <1>2 DEF MaxExact
<1>6. MinInt = -g /\ MaxInt = g - 1
  BY DEF MinInt, MaxInt
<1> DEFINE p == 2 ^ IntBits
<1>7. p = 2 * g
  BY <1>3
<1> HIDE DEF f, g, p
<1>8. /\ MaxExact \in Nat /\ MaxExact >= 2 /\ MinInt \in Int /\ MaxInt \in Nat
      /\ MinInt = -MaxInt - 1 /\ p \in Nat /\ MaxInt + 1 < p
  BY <1>2, <1>3, <1>5, <1>6, <1>7
<1> QED
  BY <1>2, <1>4, <1>5, <1>8 DEF f, p

\* The distance to the next float64, of which there is one in any case.
LEMMA SpacingExists ==
  ASSUME NEW a \in Nat, a <= MaxInt + 1
  PROVE  /\ Spacing(a) \in Nat /\ Spacing(a) > 0
         /\ a = MaxExact => Spacing(a) = 2
<1>1. CASE a < MaxExact
  BY <1>1, IntegersThere DEF Spacing
<1>2. CASE ~(a < MaxExact)
  <2> DEFINE Fits64(e) == MaxExact * 2 ^ (e - 1) <= a /\ a < MaxExact * 2 ^ e
             e0 == CHOOSE e \in 1 .. IntBits : Fits64(e)
             N == {e \in Nat : a < MaxExact * 2 ^ e}
  <2>1. \E e \in 1 .. IntBits : Fits64(e)
    <3>1. IntBits \in N
      <4>1. \A m, p \in Nat : m >= 1 => p <= m * p
        <5>1. ASSUME NEW m \in Nat, NEW p \in Nat, m >= 1
              PROVE  p <= m * p
          <6>1. (m - 1) \in Nat /\ m * p = (m - 1) * p + p /\ (m - 1) * p >= 0
            BY <5>1
          <6> QED
            BY <6>1
        <5> QED
          BY <5>1
      <4>2. 2 ^ IntBits <= MaxExact * 2 ^ IntBits
        BY <4>1, IntegersThere
      <4> DEFINE p == 2 ^ IntBits
                 q == MaxExact * 2 ^ IntBits
      <4>3. p \in Nat /\ q \in Nat /\ MaxInt + 1 < p /\ p <= q /\ MaxInt \in Nat
        BY <4>2, IntegersThere
      <4> HIDE DEF p, q
      <4>4. a < q
        BY <4>3
      <4> QED
        BY <4>4, BlobKeyAssumption DEF q
    <3>2. 0 \notin N
      BY <1>2, IntegersThere
    <3> HIDE DEF N
    <3>3. N \in SUBSET Nat
      BY DEF N
    <3>4. PICK e \in N : \A k \in N : e <= k
      BY <3>1, <3>3, LeastNatural
    <3>5. e \in 1 .. IntBits /\ e - 1 \in Nat /\ e - 1 \notin N
      BY <3>1, <3>2, <3>3, <3>4, BlobKeyAssumption
    <3>6. a < MaxExact * 2 ^ e /\ ~(a < MaxExact * 2 ^ (e - 1))
      BY <3>4, <3>5 DEF N
    <3>7. MaxExact * 2 ^ (e - 1) \in Nat
      BY <3>5, PowersOfTwo, IntegersThere
    <3>8. MaxExact * 2 ^ (e - 1) <= a
      BY <3>6, <3>7
    <3> QED
      BY <3>5, <3>6, <3>8
  <2>2. e0 \in 1 .. IntBits /\ Fits64(e0)
    BY <2>1
  <2>3. Spacing(a) = 2 ^ e0
    BY <1>2 DEF Spacing
  <2> HIDE DEF e0
  <2>4. e0 \in Nat /\ e0 - 1 \in Nat /\ (e0 - 1) + 1 = e0
    BY <2>2, BlobKeyAssumption
  <2>5. 2 ^ e0 \in Nat /\ 2 ^ e0 > 0
    BY <2>4, PowersOfTwo
  <2>6. ASSUME a = MaxExact
        PROVE  2 ^ e0 = 2
    <3>1. CASE e0 = 1
      BY <3>1
    <3>2. CASE e0 # 1
      <4>1. (e0 - 1) - 1 \in Nat /\ ((e0 - 1) - 1) + 1 = e0 - 1
        BY <2>4, <3>2, <2>2
      <4> DEFINE p == 2 ^ ((e0 - 1) - 1)
                 q == 2 ^ (e0 - 1)
      <4>2. p \in Nat /\ p > 0 /\ q = 2 * p
        BY <4>1, PowersOfTwo
      <4>3. MaxExact * q <= MaxExact
        BY <2>2, <2>6
      <4> HIDE DEF p, q
      <4>4. q \in Nat /\ q >= 2
        BY <4>2
      <4>5. MaxExact * q = MaxExact * (q - 1) + MaxExact /\ MaxExact * (q - 1) > 0
        BY <4>4, IntegersThere
      <4> QED
        BY <4>3, <4>4, <4>5, IntegersThere
    <3> QED
      BY <3>1, <3>2
  <2> QED
    BY <2>3, <2>5, <2>6
<1> QED
  BY <1>1, <1>2, IntegersThere

(***************************************************************************)
(* Rounding keeps integers integers, and those up to 2^53 as they are.     *)
(***************************************************************************)
LEMMA Rounded ==
  ASSUME NEW a \in Nat, a <= MaxInt + 1
  PROVE  Round(a) \in Nat /\ (a <= MaxExact => Round(a) = a)
<1>1. PICK gap : gap = Spacing(a)
  OBVIOUS
<1>2. gap \in Nat /\ gap > 0 /\ (a = MaxExact => gap = 2)
  BY <1>1, SpacingExists
<1> DEFINE low == a \div gap
           rest == a % gap
           up == 2 * rest > gap \/ (2 * rest = gap /\ low % 2 = 1)
<1>3. Round(a) = gap * (IF up THEN low + 1 ELSE low)
  BY <1>1 DEF Round
<1>4. low \in Nat
  BY <1>2
<1>5. Round(a) \in Nat
  <2> HIDE DEF low, up
  <2>1. (IF up THEN low + 1 ELSE low) \in Nat
    BY <1>4
  <2> QED
    BY <1>2, <1>3, <2>1
<1>6. ASSUME a < MaxExact
      PROVE  Round(a) = a
  <2>1. gap = 1
    BY <1>1, <1>6 DEF Spacing
  <2>2. low = a /\ rest = 0
    BY <2>1
  <2> HIDE DEF low, rest
  <2> QED
    BY <1>3, <2>1, <2>2
<1>7. ASSUME a = MaxExact
      PROVE  Round(a) = a
  <2>1. gap = 2 /\ a = 2 * 2 ^ (FloatBits - 1) /\ 2 ^ (FloatBits - 1) \in Nat
    BY <1>2, <1>7, IntegersThere
  <2>2. PICK p \in Nat : a = 2 * p
    BY <2>1
  <2>3. low = p /\ rest = 0
    BY <2>1, <2>2
  <2> HIDE DEF low, rest
  <2> QED
    BY <1>3, <2>1, <2>2, <2>3
<1> QED
  BY <1>5, <1>6, <1>7, IntegersThere

\* So an int64 becomes an integer, which is itself if it is small enough.
LEMMA Floated ==
  ASSUME NEW n \in MinInt .. MaxInt
  PROVE  ToFloat(n) \in Int /\ (n \in -MaxExact .. MaxExact => ToFloat(n) = n)
<1>1. n \in Int /\ MaxInt \in Nat /\ MinInt = -MaxInt - 1 /\ MaxExact \in Nat
  BY IntegersThere
<1>2. CASE n < 0
  <2>1. -n \in Nat /\ -n <= MaxInt + 1
    BY <1>1, <1>2
  <2>2. Round(-n) \in Nat /\ (-n <= MaxExact => Round(-n) = -n)
    BY <2>1, Rounded
  <2> QED
    BY <1>1, <1>2, <2>2 DEF ToFloat
<1>3. CASE ~(n < 0)
  <2>1. n \in Nat /\ n <= MaxInt + 1
    BY <1>1, <1>3
  <2>2. Round(n) \in Nat /\ (n <= MaxExact => Round(n) = n)
    BY <2>1, Rounded
  <2> QED
    BY <1>1, <1>3, <2>2 DEF ToFloat
<1> QED
  BY <1>2, <1>3

(***************************************************************************)
(* What decodeWireInt64 makes of an integer, if it makes anything of it,   *)
(* is an int64; one that is a float64 for sure comes back as it was.       *)
(***************************************************************************)
THEOREM DecodedIntegers ==
  ASSUME NEW n \in MinInt .. MaxInt
  PROVE  /\ \A o \in DecodeWireInt64(n) :
              o = <<>> \/ \E i \in MinInt .. MaxInt : o = <<i>>
         /\ n \in -MaxExact .. MaxExact => DecodeWireInt64(n) = {<<n>>}
<1>1. MinInt \in Int /\ MaxInt \in Nat /\ MinInt <= MaxInt
  BY IntegersThere
<1>2. PICK f : f = ToFloat(n)
  OBVIOUS
<1>3. f \in Int /\ (n \in -MaxExact .. MaxExact => f = n)
  BY <1>2, Floated
<1>4. ToInt64(f) \subseteq MinInt .. MaxInt
  BY <1>1, <1>3 DEF ToInt64
<1>5. ASSUME NEW o \in DecodeWireInt64(n)
      PROVE  o = <<>> \/ \E i \in MinInt .. MaxInt : o = <<i>>
  BY <1>2, <1>4, <1>5 DEF DecodeWireInt64
<1>6. ASSUME n \in -MaxExact .. MaxExact
      PROVE  DecodeWireInt64(n) = {<<n>>}
  <2>1. ToInt64(f) = {n}
    BY <1>1, <1>3, <1>6 DEF ToInt64
  <2>2. ToFloat(n) = n
    BY <1>2, <1>3, <1>6
  <2> QED
    BY <1>2, <2>1, <2>2 DEF DecodeWireInt64
<1> QED
  BY <1>5, <1>6

-----------------------------------------------------------------------------
(***************************************************************************)
(* What becomes of a key that has been served.                             *)
(***************************************************************************)
KeyOf(ref, key) ==
  /\ key.run = Rel(Logdir, ref.of.dir) /\ key.tag = ref.of.tag /\ key.index = ref.index
  /\ key.step \in MinInt .. MaxInt /\ (Exact(ref.of) => key.step = ref.of.step)

\* What it was made for has been in the sample of a reader.
LEMMA ReferenceThere ==
  ASSUME World, Referring, NEW ref \in refs
  PROVE  \E r \in DOMAIN state :
           /\ Held(r, ref.of) /\ ref.of.dir = Path(r) /\ ref.of.dir \in Dirs
           /\ ref.of.step \in MinInt .. MaxInt
           /\ ref.of.tensor.dtype = "string" => ref.of.tensor.vals \in Seq(Seq(Int))
           /\ ref.index \in MinInt .. MaxInt /\ ref.index \in 0 .. MaxExact
<1>1. /\ ref.of.tensor.dims # <<>> /\ ref.index \in 0 .. Head(ref.of.tensor.dims) - 1
      /\ \E r \in DOMAIN state : Held(r, ref.of)
  BY DEF Referring
<1>2. PICK r \in DOMAIN state : Held(r, ref.of)
  BY <1>1
<1>3. ref.of.dir = Path(r) /\ ref.of.dir \in Dirs
  BY <1>2, HeldWasThere
<1>4. /\ ref.of.step \in MinInt .. MaxInt
      /\ Head(ref.of.tensor.dims) \in MinInt .. Min({MaxInt, MaxExact})
      /\ ref.of.tensor.dtype = "string" => ref.of.tensor.vals \in Seq(Seq(Int))
  BY <1>1, <1>2, GenuineIsLoggable DEF Held
<1>5. ref.index \in MinInt .. MaxInt /\ ref.index \in 0 .. MaxExact
  <2> DEFINE N == {MaxInt, MaxExact}
             h == Head(ref.of.tensor.dims)
  <2>1. /\ N \in SUBSET Nat /\ N # {} /\ MaxInt \in Nat /\ MaxExact \in Nat
        /\ MinInt = -MaxInt - 1
    BY IntegersThere
  <2>2. Min(N) \in Nat /\ Min(N) <= MaxInt /\ Min(N) <= MaxExact
    <3>1. Min(N) \in N /\ \A n \in N : Min(N) <= n
      <4> HIDE DEF N
      <4> QED
        BY <2>1, LeastNatural
    <3> QED
      BY <2>1, <3>1
  <2>3. h \in MinInt .. Min(N) /\ ref.index \in 0 .. h - 1
    BY <1>1, <1>4
  <2> HIDE DEF N, h
  <2> QED
    BY <2>1, <2>2, <2>3
<1> QED
  BY <1>2, <1>3, <1>4, <1>5

\* The key says so, or is refused as its step was not a float64.
LEMMA KeyDecoded ==
  ASSUME World, Referring, NEW ref \in refs, NEW bk \in Decode(ref.key)
  PROVE  IF bk = <<>> THEN ~Exact(ref.of) ELSE KeyOf(ref, Head(bk))
<1>1. /\ ref.of.step \in MinInt .. MaxInt /\ ref.index \in MinInt .. MaxInt
      /\ ref.index \in -MaxExact .. MaxExact
  BY ReferenceThere, IntegersThere
<1>2. /\ ref.key = <<ref.key[1], ref.of.tag, ref.of.step, ref.index>>
      /\ ref.key[1] = Rel(Logdir, ref.of.dir)
  BY DEF Referring
<1>3. PICK key : key = ref.key
  OBVIOUS
<1>4. PICK run : run = key[1]
  OBVIOUS
<1>5. key = <<run, ref.of.tag, ref.of.step, ref.index>> /\ run = Rel(Logdir, ref.of.dir)
  BY <1>2, <1>3, <1>4
<1>6. key[2] = ref.of.tag /\ key[3] = ref.of.step /\ key[4] = ref.index
  BY <1>5
<1>7. PICK step \in DecodeWireInt64(key[3]), index \in DecodeWireInt64(key[4]) :
        bk = IF step = <<>> \/ index = <<>> THEN <<>>
             ELSE <<[run |-> key[1], tag |-> key[2], step |-> step[1], index |-> index[1]]>>
  BY <1>3 DEF Decode
<1>8. index = <<ref.index>>
  BY <1>1, <1>6, <1>7, DecodedIntegers
<1>9. /\ step = <<>> \/ \E i \in MinInt .. MaxInt : step = <<i>>
      /\ Exact(ref.of) => step = <<ref.of.step>>
  BY <1>1, <1>6, <1>7, DecodedIntegers DEF Exact
<1>10. CASE step = <<>>
  <2>1. bk = <<>> /\ ~Exact(ref.of)
    BY <1>7, <1>9, <1>10
  <2> QED
    BY <2>1
<1>11. ASSUME NEW i \in MinInt .. MaxInt, step = <<i>>
       PROVE  IF bk = <<>> THEN ~Exact(ref.of) ELSE KeyOf(ref, Head(bk))
  <2>1. PICK k : k = [run |-> run, tag |-> ref.of.tag, step |-> i, index |-> ref.index]
    OBVIOUS
  <2>2. bk = <<k>>
    BY <1>4, <1>6, <1>7, <1>8, <1>11, <2>1
  <2>3. k.run = run /\ k.tag = ref.of.tag /\ k.step = i /\ k.index = ref.index
    BY <2>1
  <2>4. Head(bk) = k /\ bk # <<>>
    BY <2>2
  <2>5. Exact(ref.of) => i = ref.of.step
    BY <1>9, <1>11
  <2> QED
    BY <1>5, <1>11, <2>3, <2>4, <2>5 DEF KeyOf
<1> QED
  BY <1>9, <1>10, <1>11

(***************************************************************************)
(* The handler takes a key, and looks for the run.                         *)
(***************************************************************************)
LEMMA ReadBlobKeepsCalls ==
  ASSUME World, Calls, ReadBlob
  PROVE  Calls'
<1>1. /\ Still /\ UNCHANGED refs /\ Going /\ req.op = "ReadBlob" /\ Referring
  BY DEF ReadBlob, Still, Asked, Going, req, Calls
<1>2. PICK ref \in refs : \E bk \in Decode(ref.key) :
       \/ bk = <<>> /\ Answer([req |-> req, status |-> "InvalidArgument", ref |-> ref])
       \/ /\ bk # <<>>
          /\ call' = [pc |-> "blob", ref |-> ref, bk |-> Head(bk), gone |-> gone,
                      acc |-> IF Head(bk).run \in Names(Runs) THEN Runs[Head(bk).run] ELSE 0]
          /\ UNCHANGED answers
  BY Zenon DEF ReadBlob
<1>3. PICK bk \in Decode(ref.key) :
       \/ bk = <<>> /\ Answer([req |-> req, status |-> "InvalidArgument", ref |-> ref])
       \/ /\ bk # <<>>
          /\ call' = [pc |-> "blob", ref |-> ref, bk |-> Head(bk), gone |-> gone,
                      acc |-> IF Head(bk).run \in Names(Runs) THEN Runs[Head(bk).run] ELSE 0]
          /\ UNCHANGED answers
  BY <1>2
<1>4. IF bk = <<>> THEN ~Exact(ref.of) ELSE KeyOf(ref, Head(bk))
  BY <1>1, KeyDecoded
<1>5. Referring'
  BY <1>1, StillThere DEF Referring
<1>6. ASSUME NEW a, a = [req |-> req, status |-> "InvalidArgument", ref |-> ref],
             Answer(a), bk = <<>>
      PROVE  Calls'
  <2>1. a.req = req /\ a.status = "InvalidArgument" /\ a.ref = ref
    BY <1>6
  <2>2. BlobOK(a)
    BY <1>4, <1>6, <2>1 DEF BlobOK, Exact
  <2>3. AnswerOK(a) /\ Follows(a)
    BY <1>1, <2>1, <2>2 DEF AnswerOK, Follows, IsSeries, IsBlob
  <2> QED
    BY <1>1, <1>5, <1>6, <2>1, <2>3, Answers
<1>7. ASSUME NEW key, key = Head(bk), bk # <<>>, NEW acc,
             acc = IF key.run \in Names(Runs) THEN Runs[key.run] ELSE 0,
             NEW c, c = [pc |-> "blob", ref |-> ref, bk |-> key, gone |-> gone, acc |-> acc],
             call' = c, UNCHANGED answers
      PROVE  Calls'
  <2>1. c.pc = "blob" /\ c.ref = ref /\ c.bk = key /\ c.gone = gone /\ c.acc = acc
    BY <1>7
  <2>2. KeyOf(ref, key)
    BY <1>4, <1>7
  <2>3. PICK r \in DOMAIN state :
          Held(r, ref.of) /\ ref.of.dir = Path(r) /\ ref.of.dir \in Dirs
    BY <1>1, ReferenceThere
  <2>4. 0 \notin DOMAIN state
    BY Places DEF World
  <2>5. acc # 0 => /\ acc \in DOMAIN state /\ Path(acc) = ref.of.dir
                   /\ \A k \in readers[acc].opened : k > gone[Path(acc)]
    <3>1. CASE key.run \in Names(data)
      <4>1. acc = data[key.run]
        BY <1>7, <3>1 DEF Runs
      <4>2. Path(acc) = Logdir \o key.run
        BY <3>1, <4>1, MappedIsOpen
      <4>3. Path(acc) = ref.of.dir
        BY <2>2, <2>3, <4>2, RelSays DEF KeyOf
      <4> QED
        BY <3>1, <4>1, <4>3, MappedIsOpen
    <3>2. CASE key.run \notin Names(data)
      BY <1>7, <3>2 DEF Runs
    <3> QED
      BY <3>1, <3>2
  <2>6. (acc # 0 /\ Held(acc, ref.of)) \/ ref.of.at[1] <= gone[ref.of.dir]
    <3>1. ref.of.at[1] \in Nat /\ gone[ref.of.dir] \in Nat
      BY <2>3, PresentIsOpen
    <3>2. ASSUME ref.of.at[1] > gone[ref.of.dir]
          PROVE  acc # 0 /\ Held(acc, ref.of)
      <4>1. key.run \in Names(data) /\ data[key.run] = r
        BY <2>2, <2>3, <3>2, PresentIsOpen DEF KeyOf
      <4>2. acc = r
        BY <1>7, <4>1 DEF Runs
      <4> QED
        BY <2>3, <2>4, <4>2
    <3> QED
      BY <3>1, <3>2
  <2>7. /\ UNCHANGED <<scenario, disk, born, changes, data, state, found, gone, readers, accs>>
        /\ \A q, x : Held(q, x)' <=> Held(q, x)
        /\ \A q : Path(q)' = Path(q)
        /\ req' = req
    BY <1>1, <1>7, StillThere DEF req
  <2>8. Dropped'
    <3>1. \A d \in Dirs : gone[d] \in Nat /\ gone[d] <= gone[d]
      BY Numbers
    <3> QED
      BY <1>7, <2>1, <2>7, <3>1 DEF Dropped
  <2>9. Since(acc)' <=> \A k \in readers[acc].opened : k > gone[Path(acc)]
    BY <1>7, <2>1, <2>7, Zenon DEF Since
  <2>10. acc # 0 => acc \in DOMAIN state' /\ Path(acc)' = ref.of.dir /\ Since(acc)'
    BY <2>5, <2>7, <2>9
  <2>11. (acc # 0 /\ Held(acc, ref.of)') \/ ref.of.at[1] <= gone[ref.of.dir]
    BY <2>6, <2>7
  <2>12. Going' /\ req'.op = "ReadBlob" /\ ref \in refs'
    BY <1>1, <1>7, <2>7 DEF Going
  <2>13. Fetching'
    BY <1>7, <2>1, <2>2, <2>8, <2>10, <2>11, <2>12, Zenon DEF Fetching, KeyOf
  <2>14. Calling' /\ Counting' /\ Listing' /\ PanicOnlyIfMixed'
    BY <1>7, <2>1 DEF Calling, Counting, Listing, PanicOnlyIfMixed
  <2> QED
    BY <1>1, <1>7, <2>13, <2>14, GoesOn
<1> QED
  BY <1>3, <1>6, <1>7

-----------------------------------------------------------------------------
(***************************************************************************)
(* A blob of n bytes in pieces of b: how many there are, where one ends.   *)
(***************************************************************************)
EndOf(i, b, n) == Min({i * b, n})

\* Each piece has 1 .. b bytes and starts where the one before it ends; k are enough.
LEMMA PieceEnds ==
  ASSUME NEW b \in Nat \ {0}, NEW n \in Nat, NEW k, k = (n + b - 1) \div b
  PROVE  /\ k \in Nat /\ EndOf(0, b, n) = 0 /\ EndOf(k, b, n) = n
         /\ \A i \in 1 .. k : /\ EndOf(i - 1, b, n) = (i - 1) * b /\ (i - 1) * b \in Nat
                              /\ EndOf(i, b, n) \in (i - 1) * b + 1 .. n
                              /\ EndOf(i, b, n) - (i - 1) * b \in 1 .. b
<1>1. \A x, y \in Nat : /\ Min({x, y}) \in {x, y}
                        /\ Min({x, y}) <= x /\ Min({x, y}) <= y
  <2>1. ASSUME NEW x \in Nat, NEW y \in Nat
        PROVE  Min({x, y}) \in {x, y} /\ Min({x, y}) <= x /\ Min({x, y}) <= y
    <3>1. {x, y} \in SUBSET Nat /\ {x, y} # {}
      OBVIOUS
    <3>2. Min({x, y}) \in {x, y} /\ \A z \in {x, y} : Min({x, y}) <= z
      BY <3>1, LeastNatural
    <3> QED
      BY <3>2
  <2> QED
    BY <2>1
<1>2. k \in Nat /\ k * b <= n + b - 1 /\ n + b - 1 < k * b + b
  <2> DEFINE m == n + b - 1
  <2>1. m \in Nat /\ b > 0
    OBVIOUS
  <2> HIDE DEF m
  <2>2. (m \div b) \in Nat /\ (m \div b) * b <= m /\ m < (m \div b) * b + b
    BY <2>1
  <2> QED
    BY <2>2 DEF m
<1>3. n <= k * b /\ k * b \in Nat
  BY <1>2
<1>4. EndOf(0, b, n) = 0
  <2>1. 0 * b = 0
    OBVIOUS
  <2> QED
    BY <1>1, <2>1 DEF EndOf
<1>5. EndOf(k, b, n) = n
  BY <1>1, <1>3 DEF EndOf
<1>6. ASSUME NEW i \in 1 .. k
      PROVE  /\ EndOf(i - 1, b, n) = (i - 1) * b /\ (i - 1) * b \in Nat
             /\ EndOf(i, b, n) \in (i - 1) * b + 1 .. n
             /\ EndOf(i, b, n) - (i - 1) * b \in 1 .. b
  <2> DEFINE p == (i - 1) * b
             q == i * b
  <2>1. (k - i) \in Nat /\ k * b = (k - i) * b + i * b /\ (k - i) * b \in Nat
    BY <1>2
  <2>2. q = p + b /\ p \in Nat
    OBVIOUS
  <2>3. p < n
    <3> DEFINE d == (k - i) * b
               e == k * b
    <3>1. e = d + q /\ d \in Nat /\ e \in Nat /\ e <= n + b - 1
      BY <1>2, <1>3, <2>1
    <3> HIDE DEF p, q, d, e
    <3> QED
      BY <2>2, <3>1
  <2>4. EndOf(i - 1, b, n) = Min({p, n}) /\ EndOf(i, b, n) = Min({q, n})
    BY DEF EndOf
  <2> HIDE DEF p, q
  <2>5. q \in Nat /\ Min({p, n}) = p
    BY <1>1, <2>2, <2>3
  <2>6. Min({q, n}) \in p + 1 .. n /\ Min({q, n}) - p \in 1 .. b
    BY <1>1, <2>2, <2>3, <2>5
  <2> QED
    BY <2>2, <2>4, <2>5, <2>6 DEF p
<1> QED
  BY <1>2, <1>4, <1>5, <1>6

(***************************************************************************)
(* The pieces put together are the blob.                                   *)
(***************************************************************************)
THEOREM FramesAreTheBlob ==
  ASSUME NEW S, NEW blob \in Seq(S)
  PROVE  /\ FlattenSeq(Frames(blob)) = blob
         /\ \A f \in ToSet(Frames(blob)) : Len(f) \in 1 .. BatchSize
<1> DEFINE n == Len(blob)
           b == BatchSize
           k == (n + b - 1) \div b
           frame(i) == SubSeq(blob, (i - 1) * b + 1, EndOf(i, b, n))
           first(j) == [i \in 1 .. j |-> frame(i)]
<1>1. n \in Nat /\ b \in Nat \ {0} /\ \A i \in 1 .. n : blob[i] \in S
  BY ServerAssumption, LenProperties, ElementOfSeq
<1>2. Frames(blob) = first(k)
  BY DEF Frames, EndOf
<1> HIDE DEF n, b, k
<1>3. /\ k \in Nat /\ EndOf(0, b, n) = 0 /\ EndOf(k, b, n) = n
      /\ \A i \in 1 .. k : /\ EndOf(i - 1, b, n) = (i - 1) * b /\ (i - 1) * b \in Nat
                           /\ EndOf(i, b, n) \in (i - 1) * b + 1 .. n
                           /\ EndOf(i, b, n) - (i - 1) * b \in 1 .. b
  BY <1>1, PieceEnds DEF k
<1>4. ASSUME NEW i \in 1 .. k
      PROVE  frame(i) \in Seq(S) /\ Len(frame(i)) \in 1 .. b
  <2> DEFINE p == (i - 1) * b
             q == EndOf(i, b, n)
  <2>1. p \in Nat /\ q \in p + 1 .. n /\ q - p \in 1 .. b
    BY <1>3, <1>4
  <2>2. frame(i) = SubSeq(blob, p + 1, q)
    OBVIOUS
  <2> HIDE DEF p, q, frame
  <2>3. p + 1 \in Int /\ q \in Int /\ p + 1 <= q /\ \A j \in p + 1 .. q : blob[j] \in S
    BY <1>1, <2>1
  <2>4. SubSeq(blob, p + 1, q) \in Seq(S) /\ Len(SubSeq(blob, p + 1, q)) = q - (p + 1) + 1
    BY <2>3, SubSeqProperties
  <2> QED
    BY <2>1, <2>2, <2>3, <2>4
<1> DEFINE Whole(j) == /\ first(j) \in Seq(Seq(S))
                       /\ FlattenSeq(first(j)) = SubSeq(blob, 1, EndOf(j, b, n))
           G == {j \in Nat : j <= k => Whole(j)}
<1>5. 0 \in G
  <2>1. first(0) = <<>>
    OBVIOUS
  <2>2. first(0) \in Seq(Seq(S)) /\ FlattenSeq(first(0)) = <<>>
    <3> HIDE DEF first
    <3> QED
      BY <2>1, FlattenAppend, EmptySeq
  <2>3. SubSeq(blob, 1, EndOf(0, b, n)) = <<>>
    BY <1>3, SubSeqEmpty
  <2> HIDE DEF first
  <2> QED
    BY <2>2, <2>3
<1>6. ASSUME NEW j \in Nat, j \in G
      PROVE  j + 1 \in G
  <2> SUFFICES ASSUME j + 1 <= k
               PROVE  Whole(j + 1)
    <3>1. j + 1 \in Nat
      OBVIOUS
    <3> HIDE DEF Whole
    <3> QED
      BY <3>1
  <2>1. j + 1 \in 1 .. k /\ j <= k /\ (j + 1) - 1 = j
    BY <1>3
  <2>2. first(j) \in Seq(Seq(S)) /\ FlattenSeq(first(j)) = SubSeq(blob, 1, EndOf(j, b, n))
    BY <1>6, <2>1
  <2>3. frame(j + 1) \in Seq(S)
    BY <1>4, <2>1
  <2>4. first(j + 1) = Append(first(j), frame(j + 1))
    <3> HIDE DEF frame
    <3> DEFINE s == first(j)
               t == first(j + 1)
    <3>1. s \in Seq(Seq(S)) /\ DOMAIN s = 1 .. j /\ Len(s) = j
      <4>1. s \in Seq(Seq(S)) /\ DOMAIN s = 1 .. j
        BY <2>2
      <4> HIDE DEF s
      <4> QED
        BY <4>1, LenOfDomain
    <3>2. DOMAIN t = 1 .. j + 1 /\ t[j + 1] = frame(j + 1) /\ \A i \in 1 .. j : t[i] = s[i]
      OBVIOUS
    <3>3. t = [i \in 1 .. j + 1 |-> t[i]]
      OBVIOUS
    <3> HIDE DEF s, t
    <3>4. Append(s, frame(j + 1)) = [i \in 1 .. j + 1 |-> IF i = j + 1 THEN frame(j + 1) ELSE s[i]]
      BY <3>1 DEF Append
    <3>5. \A i \in 1 .. j + 1 : t[i] = IF i = j + 1 THEN frame(j + 1) ELSE s[i]
      BY <3>2
    <3>6. t = Append(s, frame(j + 1))
      BY <3>3, <3>4, <3>5
    <3> QED
      BY <3>6 DEF s, t
  <2>5. /\ first(j + 1) \in Seq(Seq(S))
        /\ FlattenSeq(first(j + 1)) = SubSeq(blob, 1, EndOf(j, b, n)) \o frame(j + 1)
    <3> HIDE DEF first, frame
    <3>1. FlattenSeq(first(j + 1)) = FlattenSeq(first(j)) \o frame(j + 1)
      BY <2>2, <2>3, <2>4, FlattenAppend
    <3>2. Append(first(j), frame(j + 1)) \in Seq(Seq(S))
      BY <2>2, <2>3, AppendProperties
    <3> QED
      BY <2>2, <2>4, <3>1, <3>2
  <2>6. SubSeq(blob, 1, EndOf(j, b, n)) \o frame(j + 1) = SubSeq(blob, 1, EndOf(j + 1, b, n))
    <3> DEFINE p == EndOf(j, b, n)
               q == EndOf(j + 1, b, n)
    <3>1. EndOf((j + 1) - 1, b, n) = ((j + 1) - 1) * b
          /\ ((j + 1) - 1) * b \in Nat /\ q \in ((j + 1) - 1) * b + 1 .. n
      BY <1>3, <2>1
    <3>2. p = ((j + 1) - 1) * b
      BY <2>1, <3>1
    <3>3. frame(j + 1) = SubSeq(blob, p + 1, q)
      BY <3>2
    <3>4. p \in Nat /\ q \in p + 1 .. n
      BY <3>1, <3>2
    <3> HIDE DEF p, q, frame
    <3>5. 1 \in 1 .. Len(blob) + 1 /\ p \in 1 - 1 .. Len(blob) /\ q \in p .. Len(blob)
      BY <1>1, <3>4 DEF n
    <3>6. SubSeq(blob, 1, p) \o SubSeq(blob, p + 1, q) = SubSeq(blob, 1, q)
      BY <3>5, ConcatAdjacentSubSeq
    <3> QED
      BY <3>3, <3>6 DEF p, q
  <2> HIDE DEF first, frame
  <2> QED
    BY <2>5, <2>6
<1> HIDE DEF G
<1>7. k \in G
  BY <1>3, <1>5, <1>6, InductionOnNat
<1>8. FlattenSeq(first(k)) = SubSeq(blob, 1, EndOf(k, b, n))
  <2>1. k <= k
    BY <1>3
  <2> QED
    BY <1>7, <2>1, Zenon DEF G
<1>9. FlattenSeq(first(k)) = blob
  BY <1>3, <1>8, SubSeqFull DEF n
<1>10. ToSet(first(k)) = {frame(i) : i \in 1 .. k}
  BY DEF ToSet
<1> HIDE DEF first, frame
<1>11. \A f \in ToSet(first(k)) : Len(f) \in 1 .. b
  BY <1>4, <1>10
<1> QED
  BY <1>2, <1>9, <1>11 DEF b

(***************************************************************************)
(* The first point of a step is the one that is looked for, if there is    *)
(* one at all.                                                             *)
(***************************************************************************)
LEMMA PlaceOfStep ==
  ASSUME NEW s, Len(s) \in Nat, NEW step
  PROVE  /\ AtStep(s, step) # 0 =>
              AtStep(s, step) \in 1 .. Len(s) /\ s[AtStep(s, step)].step = step
         /\ AtStep(s, step) = 0 => \A i \in 1 .. Len(s) : s[i].step # step
<1> DEFINE I == {i \in 1 .. Len(s) : s[i].step = step}
<1>1. AtStep(s, step) = IF I # {} THEN Min(I) ELSE 0
  BY DEF AtStep, SelectInSeq
<1>2. I \in SUBSET Nat /\ 0 \notin I
  OBVIOUS
<1>3. I # {} => Min(I) \in I
  <2> HIDE DEF I
  <2> QED
    BY <1>2, LeastNatural
<1> QED
  BY <1>1, <1>2, <1>3

(***************************************************************************)
(* What the handler gets of the series that the key names.                 *)
(***************************************************************************)
Fetched(acc, tag) == IF acc = 0 THEN <<>> ELSE SampleOf(acc, tag)

\* It is the sample of that series, or nothing.
LEMMA SampleFetched ==
  ASSUME World, NEW acc, NEW tag, acc # 0 => acc \in DOMAIN state, NEW s, s = Fetched(acc, tag)
  PROVE  /\ Len(s) \in Nat
         /\ \A x : x \in ToSet(s) <=> \E i \in 1 .. Len(s) : s[i] = x
         /\ ToSet(s) = IF acc # 0 /\ tag \in DOMAIN accs[acc] THEN accs[acc][tag].sample ELSE {}
         /\ \A x, y \in ToSet(s) : x.step = y.step => x = y
<1>1. CASE acc # 0 /\ tag \in DOMAIN accs[acc]
  <2> DEFINE S == accs[acc][tag].sample
  <2>1. s = SampleOf(acc, tag)
    BY <1>1 DEF Fetched
  <2>2. Steps(S) /\ s = InOrder(S)
    BY <1>1, <2>1, SampleRead
  <2> HIDE DEF S
  <2>3. Len(s) \in Nat /\ ToSet(s) = S /\ DOMAIN s = 1 .. Len(s)
    BY <2>2, SampleInOrder
  <2>4. \A x, y \in S : x.step = y.step => x = y
    BY <2>2 DEF Steps
  <2>5. \A x : x \in ToSet(s) <=> \E i \in 1 .. Len(s) : s[i] = x
    BY <2>3 DEF ToSet
  <2> QED
    BY <1>1, <2>3, <2>4, <2>5 DEF S
<1>2. CASE ~(acc # 0 /\ tag \in DOMAIN accs[acc])
  <2>1. s = <<>>
    BY <1>2 DEF Fetched, SampleOf
  <2>2. Len(s) = 0 /\ ToSet(s) = {}
    BY <2>1 DEF ToSet
  <2> QED
    BY <1>2, <2>2
<1> QED
  BY <1>1, <1>2

(***************************************************************************)
(* What the handler knows when it has them: where its references come from *)
(* and what was dropped before the call.                                   *)
(***************************************************************************)
Reading(ref, key, acc, dropped) ==
  /\ ref \in refs /\ key.step \in MinInt .. MaxInt
  /\ key.tag = ref.of.tag /\ key.index = ref.index
  /\ Exact(ref.of) => key.step = ref.of.step
  /\ \A d \in Dirs : dropped[d] \in Nat /\ dropped[d] <= gone[d]
  /\ acc # 0 => /\ acc \in DOMAIN state /\ Path(acc) = ref.of.dir
                /\ \A k \in readers[acc].opened : k > dropped[Path(acc)]
  /\ (acc # 0 /\ Held(acc, ref.of)) \/ ref.of.at[1] <= dropped[ref.of.dir]

(***************************************************************************)
(* A point at the step of the key is what the key was made for, or newer.  *)
(***************************************************************************)
LEMMA PointFetched ==
  ASSUME World, Referring, NEW ref, NEW key, NEW acc, NEW dropped,
         Reading(ref, key, acc, dropped),
         NEW x, x \in ToSet(Fetched(acc, key.tag)), x.step = key.step
  PROVE  /\ x.dir = ref.of.dir /\ x.at[1] > dropped[x.dir]
         /\ Exact(ref.of) =>
              \/ x = ref.of
              \/ Later(x, ref.of) /\ x.tag = ref.of.tag /\ x.step = ref.of.step
         /\ x.tensor.dtype = "string" => x.tensor.vals \in Seq(Seq(Int))
<1>1. acc # 0 /\ acc \in DOMAIN state /\ key.tag \in DOMAIN accs[acc]
      /\ x \in accs[acc][key.tag].sample
  BY SampleFetched DEF Reading
<1>2. /\ Held(acc, x) /\ x.tag = key.tag /\ x.dir = Path(acc)
      /\ x.at[1] \in readers[acc].opened /\ x.at[1] \in Nat
  BY <1>1, HeldNow
<1>3. x.dir = ref.of.dir /\ x.at[1] > dropped[x.dir] /\ x.tag = ref.of.tag
  BY <1>1, <1>2 DEF Reading
<1>4. x.dir \in Dirs /\ dropped[x.dir] \in Nat
  BY <1>1, <1>2, Places DEF World, Reading
<1>5. ref.of.at[1] \in Nat
  BY ReferenceThere, PresentIsOpen DEF Reading
<1>6. ASSUME Exact(ref.of)
      PROVE  x = ref.of \/ (Later(x, ref.of) /\ x.step = ref.of.step)
  <2>1. x.step = ref.of.step
    BY <1>6 DEF Reading
  <2>2. CASE ref.of.at[1] <= dropped[ref.of.dir]
    BY <1>2, <1>3, <1>4, <1>5, <2>1, <2>2 DEF Later
  <2>3. CASE Held(acc, ref.of)
    <3>1. x \in accs[acc][ref.of.tag].sample
      BY <1>1 DEF Reading
    <3>2. x = ref.of \/ After(x.at, ref.of.at)
      BY <2>1, <2>3, <3>1, Zenon DEF Held
    <3> QED
      BY <1>3, <2>1, <3>2 DEF Later, After
  <2> QED
    BY <2>2, <2>3 DEF Reading
<1>7. x.tensor.dtype = "string" => x.tensor.vals \in Seq(Seq(Int))
  BY <1>1, <1>2, GenuineIsLoggable DEF Held
<1> QED
  BY <1>3, <1>6, <1>7

(***************************************************************************)
(* The blob that is sent is the one that the key names, and it is whole.   *)
(***************************************************************************)
LEMMA BlobIsSent ==
  ASSUME World, Referring, NEW ref, NEW key, NEW acc, NEW dropped,
         Reading(ref, key, acc, dropped),
         NEW x, x \in ToSet(Fetched(acc, key.tag)), x.step = key.step,
         HasIndex(Strings(x.tensor), key.index),
         NEW a, a = [req |-> req, status |-> "OK", ref |-> ref, gone |-> dropped, of |-> x,
                     frames |-> Frames(x.tensor.vals[key.index + 1])]
  PROVE  BlobOK(a)
<1> DEFINE blob == x.tensor.vals[key.index + 1]
<1>1. /\ a.status = "OK" /\ a.ref = ref /\ a.gone = dropped /\ a.of = x
      /\ a.frames = Frames(blob)
  OBVIOUS
<1>2. /\ x.dir = ref.of.dir /\ x.at[1] > dropped[x.dir]
      /\ Exact(ref.of) =>
           \/ x = ref.of
           \/ Later(x, ref.of) /\ x.tag = ref.of.tag /\ x.step = ref.of.step
      /\ x.tensor.dtype = "string" => x.tensor.vals \in Seq(Seq(Int))
  BY PointFetched
<1>3. ref \in refs /\ key.index = ref.index
  BY DEF Reading
<1>4. key.index \in Nat
  BY <1>3, ReferenceThere
<1>5. x.tensor.dtype = "string"
  <2>1. Len(<<>>) = 0 /\ ~(key.index < 0)
    BY <1>4
  <2> QED
    BY <2>1 DEF HasIndex, Strings
<1>6. blob \in Seq(Int)
  <2>1. key.index < Len(x.tensor.vals)
    BY <1>5 DEF HasIndex, Strings
  <2>2. x.tensor.vals \in Seq(Seq(Int))
    BY <1>2, <1>5
  <2>3. Len(x.tensor.vals) \in Nat
    BY <2>2, LenProperties
  <2>4. key.index + 1 \in 1 .. Len(x.tensor.vals)
    BY <1>4, <2>1, <2>3
  <2> QED
    BY <2>2, <2>4, ElementOfSeq
<1> HIDE DEF blob
<1>7. /\ FlattenSeq(Frames(blob)) = blob
      /\ \A f \in ToSet(Frames(blob)) : Len(f) \in 1 .. BatchSize
  BY <1>6, FramesAreTheBlob
<1>8. blob = x.tensor.vals[ref.index + 1]
  BY <1>3 DEF blob
<1> QED
  BY <1>1, <1>2, <1>3, <1>7, <1>8, Zenon DEF BlobOK, Exact

(***************************************************************************)
(* One that exists is not found only as something newer has evicted it.    *)
(***************************************************************************)
LEMMA BlobIsNotFound ==
  ASSUME World, Referring, NEW ref, NEW key, NEW acc, NEW dropped,
         Reading(ref, key, acc, dropped),
         NEW s, s = Fetched(acc, key.tag),
         AtStep(s, key.step) # 0 =>
           ~HasIndex(Strings(s[AtStep(s, key.step)].tensor), key.index),
         NEW a, a = [req |-> req, status |-> "NotFound", ref |-> ref, sample |-> ToSet(s)]
  PROVE  BlobOK(a)
<1>1. a.status = "NotFound" /\ a.ref = ref /\ a.sample = ToSet(s)
  OBVIOUS
<1>2. ref \in refs
  BY DEF Reading
<1>3. ASSUME Exact(ref.of), ref.index < Len(Strings(ref.of.tensor)), Present(ref.of)
      PROVE  ref.of \notin ToSet(s) /\ \E x \in ToSet(s) : Later(x, ref.of)
  <2>1. PICK r \in DOMAIN state :
          Held(r, ref.of) /\ ref.of.dir = Path(r) /\ ref.of.dir \in Dirs
    BY <1>2, ReferenceThere
  <2>2. /\ ref.of.at[1] \in Nat /\ gone[ref.of.dir] \in Nat /\ ref.of.at[1] > gone[ref.of.dir]
        /\ dropped[ref.of.dir] \in Nat /\ dropped[ref.of.dir] <= gone[ref.of.dir]
    BY <1>3, <2>1, PresentIsOpen DEF Reading
  <2>3. ~(ref.of.at[1] <= dropped[ref.of.dir])
    BY <2>2
  <2>4. /\ acc # 0 /\ acc \in DOMAIN state /\ Held(acc, ref.of) /\ Path(acc) = ref.of.dir
        /\ key.tag = ref.of.tag /\ key.index = ref.index /\ key.step = ref.of.step
    BY <1>3, <2>3 DEF Reading
  <2>5. ref.of.tag \in DOMAIN accs[acc]
    BY <2>4 DEF Held
  <2>6. /\ Len(s) \in Nat /\ ToSet(s) = accs[acc][ref.of.tag].sample
        /\ \A x : x \in ToSet(s) <=> \E i \in 1 .. Len(s) : s[i] = x
        /\ \A x, y \in ToSet(s) : x.step = y.step => x = y
    BY <2>4, <2>5, SampleFetched
  <2>7. ref.of \notin ToSet(s)
    <3>1. SUFFICES ASSUME ref.of \in ToSet(s)
                   PROVE  FALSE
      OBVIOUS
    <3> DEFINE hit == AtStep(s, key.step)
    <3>2. /\ hit # 0 => hit \in 1 .. Len(s) /\ s[hit].step = key.step
          /\ hit = 0 => \A i \in 1 .. Len(s) : s[i].step # key.step
          /\ hit # 0 => ~HasIndex(Strings(s[hit].tensor), key.index)
      BY <2>6, PlaceOfStep
    <3> HIDE DEF hit
    <3>3. hit # 0
      BY <2>4, <2>6, <3>1, <3>2
    <3>4. s[hit] \in ToSet(s) /\ s[hit].step = ref.of.step
      BY <2>4, <2>6, <3>2, <3>3
    <3>5. s[hit] = ref.of
      BY <2>6, <3>1, <3>4
    <3> QED
      BY <1>3, <2>4, <3>2, <3>3, <3>5 DEF HasIndex
  <2>8. PICK y \in ToSet(s) : After(y.at, ref.of.at)
    BY <2>4, <2>6, <2>7 DEF Held
  <2>9. y.dir = Path(acc)
    BY <2>4, <2>5, <2>6, <2>8, HeldNow
  <2>10. Later(y, ref.of)
    BY <2>4, <2>8, <2>9 DEF Later, After
  <2> QED
    BY <2>7, <2>8, <2>10
<1> QED
  BY <1>1, <1>2, <1>3, Zenon DEF BlobOK, Exact

(***************************************************************************)
(* The handler sends the blob, or has not found it.                        *)
(***************************************************************************)
LEMMA SendBlobKeepsCalls ==
  ASSUME World, Calls, SendBlob
  PROVE  Calls'
<1>1. /\ call.pc = "blob" /\ Fetching /\ Referring /\ Still /\ UNCHANGED refs
      /\ Going /\ req.op = "ReadBlob"
  <2>1. call.pc = "blob" /\ UNCHANGED <<diskVars, loaderVars, runVars, refs>>
    BY Zenon DEF SendBlob
  <2> QED
    BY <2>1 DEF Still, Calls, Fetching
<1>2. Referring'
  BY <1>1, StillThere DEF Referring
<1>3. PICK ref, key, acc, dropped :
        ref = call.ref /\ key = call.bk /\ acc = call.acc /\ dropped = call.gone
  OBVIOUS
<1>4. Reading(ref, key, acc, dropped)
  BY <1>1, <1>3, Zenon DEF Fetching, Reading, Dropped, Since
<1>5. PICK s : s = Fetched(acc, key.tag)
  OBVIOUS
<1>6. PICK hit : hit = AtStep(s, key.step)
  OBVIOUS
<1>7. \/ /\ hit # 0 /\ HasIndex(Strings(s[hit].tensor), key.index)
         /\ Answer([req |-> req, status |-> "OK", ref |-> ref, gone |-> dropped, of |-> s[hit],
                    frames |-> Frames(s[hit].tensor.vals[key.index + 1])])
      \/ /\ hit # 0 => ~HasIndex(Strings(s[hit].tensor), key.index)
         /\ Answer([req |-> req, status |-> "NotFound", ref |-> ref, sample |-> ToSet(s)])
  BY <1>3, <1>5, <1>6, Zenon DEF SendBlob, Fetched
<1>8. ASSUME NEW a, a.req = req, a.status \in {"OK", "NotFound"}, BlobOK(a), Answer(a)
      PROVE  Calls'
  <2>1. AnswerOK(a) /\ Follows(a)
    BY <1>1, <1>8 DEF AnswerOK, Follows, IsSeries, IsBlob
  <2> QED
    BY <1>1, <1>2, <1>8, <2>1, Answers
<1>9. ASSUME NEW x, x = s[hit], hit # 0, HasIndex(Strings(x.tensor), key.index),
             NEW a, a = [req |-> req, status |-> "OK", ref |-> ref, gone |-> dropped, of |-> x,
                         frames |-> Frames(x.tensor.vals[key.index + 1])],
             Answer(a)
      PROVE  Calls'
  <2>1. /\ Len(s) \in Nat
        /\ \A y : y \in ToSet(s) <=> \E i \in 1 .. Len(s) : s[i] = y
    BY <1>4, <1>5, SampleFetched DEF Reading
  <2>2. hit \in 1 .. Len(s) /\ x.step = key.step
    BY <1>6, <1>9, <2>1, PlaceOfStep
  <2>3. x \in ToSet(Fetched(acc, key.tag))
    BY <1>5, <1>9, <2>1, <2>2
  <2>4. BlobOK(a)
    BY <1>1, <1>4, <1>9, <2>2, <2>3, BlobIsSent
  <2>5. a.req = req /\ a.status \in {"OK", "NotFound"}
    BY <1>9
  <2> QED
    BY <1>8, <1>9, <2>4, <2>5
<1>10. ASSUME hit # 0 => ~HasIndex(Strings(s[hit].tensor), key.index),
              NEW a, a = [req |-> req, status |-> "NotFound", ref |-> ref, sample |-> ToSet(s)],
              Answer(a)
       PROVE  Calls'
  <2>1. BlobOK(a)
    BY <1>1, <1>4, <1>5, <1>6, <1>10, BlobIsNotFound
  <2>2. a.req = req /\ a.status \in {"OK", "NotFound"}
    BY <1>10
  <2> QED
    BY <1>8, <1>10, <2>1, <2>2
<1> QED
  BY <1>7, <1>9, <1>10

\* A handler leaves the calls as they should be.
LEMMA HandlerKeepsCalls ==
  ASSUME World, Calls, Handler
  PROVE  Calls'
BY ListRunsKeepsCalls, FillRunsKeepsCalls, BadRequestKeepsCalls, BeginKeepsCalls,
   VisitRunKeepsCalls, VisitTagKeepsCalls, ReturnKeepsCalls, ReadBlobKeepsCalls,
   SendBlobKeepsCalls, Zenon DEF Handler

-----------------------------------------------------------------------------
(***************************************************************************)
(* No call has been made yet.                                              *)
(***************************************************************************)
LEMMA CallsInit == Init => Calls
<1> SUFFICES ASSUME Init
             PROVE  Calls
  OBVIOUS
<1>1. call = [pc |-> "idle"] /\ answers = <<>> /\ refs = {} /\ World
  BY WorldInit DEF Init, NoCall
<1>2. DOMAIN answers = {} /\ Len(answers) = 0
  BY <1>1
<1>3. Series = {} /\ Blobs = {}
  BY <1>2 DEF Series, Blobs
<1>4. Calling /\ Counting /\ Listing /\ Fetching /\ PanicOnlyIfMixed
  BY <1>1 DEF Calling, Counting, Listing, Fetching, PanicOnlyIfMixed
<1>5. Referring
  BY <1>1 DEF Referring
<1>6. Answered
  <2>1. Len(scenario.requests) \in Nat
    BY <1>1, RequestsThere
  <2>2. answers \in Seq(ToSet(answers))
    BY <1>1, EmptySeq
  <2> QED
    BY <1>2, <1>3, <2>1, <2>2 DEF Answered
<1> QED
  BY <1>3, <1>4, <1>5, <1>6
     DEF Calls, ServedFromTheRun, ReadsGoForward, AnswerComplete, BlobKeyNamesItsBlob,
         BlobFoundWhileStored

(***************************************************************************)
(* The invariant holds at the start, and every step of the loader, of a    *)
(* reader, of an accumulator and of the handler keeps it.                  *)
(***************************************************************************)
THEOREM Inductive == Spec => []IInv
<1>1. Init => IInv
  BY WorldInit, CallsInit DEF IInv
<1>2. IInv /\ [Next]_vars => IInv'
  <2> SUFFICES ASSUME World, Calls, [Next]_vars
               PROVE  World' /\ Calls'
    BY DEF IInv
  <2>1. CASE Loading
    <3>1. World' /\ Grows
      BY <2>1, LoadingGrows
    <3>2. UNCHANGED callVars
      BY <2>1, LoadingLeavesCalls
    <3> QED
      BY <3>1, <3>2, GrowsKeepsCalls
  <2>2. CASE Handler
    <3>1. World'
      BY <2>2, HandlerIsStill, StillKeepsWorld
    <3> QED
      BY <2>2, <3>1, HandlerKeepsCalls
  <2>3. CASE UNCHANGED vars
    <3>1. Still /\ UNCHANGED callVars
      BY <2>3 DEF vars, Still
    <3>2. World'
      BY <3>1, StillKeepsWorld
    <3>3. /\ UNCHANGED <<scenario, disk, born, changes, data, state, found, gone, readers, accs>>
          /\ UNCHANGED <<call, answers, refs>>
      BY <3>1, StillThere DEF callVars
    <3>4. Calls'
      <4>1. call.pc # "panicked" => Grows
        BY <3>3, Numbers, ReadersStay
      <4>2. CASE call.pc # "panicked"
        BY <3>1, <3>2, <4>1, <4>2, GrowsKeepsCalls
      <4>3. CASE call.pc = "panicked"
        <5>1. Calling' /\ Counting' /\ Listing' /\ Fetching'
          BY <3>3, <4>3 DEF Calling, Counting, Listing, Fetching
        <5>2. PanicOnlyIfMixed'
          BY <3>3 DEF Calls, PanicOnlyIfMixed, req, Written
        <5> QED
          BY <3>1, <3>3, <5>1, <5>2, GoesOn
      <4> QED
        BY <4>2, <4>3
    <3> QED
      BY <3>2, <3>4
  <2> QED
    BY <2>1, <2>2, <2>3 DEF Next
<1> QED
  BY <1>1, <1>2, PTL DEF Spec

(***************************************************************************)
(* The variables have their types: no directory is made more often than    *)
(* the disk may change, and an accumulator knows no tag that its reader    *)
(* has not sent (io/run/accumulator.go:68).                                *)
(***************************************************************************)
THEOREM TypeCorrect == Spec => []TypeOK
<1>1. IInv => TypeOK
  <2> SUFFICES ASSUME IInv
               PROVE  TypeOK
    OBVIOUS
  <2>1. World /\ Calls
    BY DEF IInv
  <2>2. born \in [Dirs -> 0 .. MaxChanges + 1]
    <3>1. \A d \in Dirs : born[d] \in 0 .. MaxChanges + 1
      <4> SUFFICES ASSUME NEW d \in Dirs
                   PROVE  born[d] \in 0 .. MaxChanges + 1
        OBVIOUS
      <4>1. born[d] \in Nat /\ MaxChanges \in Nat /\ changes \in Nat /\ changes <= MaxChanges
        BY <2>1, Numbers
      <4>2. 2 * born[d] <= changes + 2
        BY <2>1, <4>1 DEF World, Incarnations
      <4> QED
        BY <4>1, <4>2
    <3> QED
      BY <2>1, <3>1 DEF World, Types
  <2>3. /\ disk \subseteq Dirs /\ found.stayed \subseteq found.appeared
        /\ found.appeared \subseteq Dirs
        /\ Len(readers) = Len(state) /\ Len(accs) = Len(state)
    BY <2>1 DEF World, Types, Discovering
  <2>4. \A r \in DOMAIN state :
          /\ state[r].doing \in {"asleep", "reloading", "closed"}
          /\ Len(readers[r].sending) <= 1
          /\ DOMAIN accs[r] \subseteq DOMAIN readers[r].mds
    BY <2>1, Places DEF World, Sending, ReaderState
  <2>5. /\ call.pc \in {"idle", "sized", "reading", "blob", "panicked"}
        /\ call.pc = "blob" => call.bk.step \in MinInt .. MaxInt
        /\ \A i \in DOMAIN answers : answers[i].status \in {"OK", "NotFound", "InvalidArgument"}
    BY <2>1 DEF Calls, Calling, Fetching, Answered
  <2> QED
    BY <2>2, <2>3, <2>4, <2>5 DEF TypeOK
<1> QED
  BY <1>1, Inductive, PTL

(***************************************************************************)
(* Whatever the loader does in the middle of a call, what the handler      *)
(* serves as a run has been read from that run's directory, and nothing    *)
(* that the loader had dropped when the call began (server/server.go:62,   *)
(* io/logdir/loader.go:122).                                               *)
(***************************************************************************)
THEOREM ServedFromTheRunAlways == Spec => []ServedFromTheRun
BY Inductive, PTL DEF IInv, Calls

(***************************************************************************)
(* What a client has seen of a directory that is still there, it sees      *)
(* again, or something newer, in every later answer: readers, reservoirs   *)
(* and downsampling lose nothing that it would take to go forward          *)
(* (server/server.go:82, io/run/accumulator.go:123).                       *)
(***************************************************************************)
THEOREM ReadsGoForwardAlways == Spec => []ReadsGoForward
BY Inductive, PTL DEF IInv, Calls

(***************************************************************************)
(* No loop of a handler passes over a series that is asked for and was     *)
(* there when the call began, or has one that is not asked for             *)
(* (server/server.go:62-76, :113-127, :401).                               *)
(***************************************************************************)
THEOREM AnswerCompleteAlways == Spec => []AnswerComplete
BY Inductive, PTL DEF IInv, Calls

(***************************************************************************)
(* The points of every answer are in the order of their steps, up to the   *)
(* newest one, and those of scalars and tensors as many as are asked for,  *)
(* for any sample and any number of points (server/server.go:491,          *)
(* server/downsample.go:9).  How many blob sequences there are is not said. *)
(***************************************************************************)
THEOREM PointsInOrderAlways == Spec => []PointsInOrder
<1>1. IInv => PointsInOrder
  <2> SUFFICES ASSUME IInv, NEW i \in Series, answers[i].req.op = "Read",
                      NEW e \in answers[i].entries
               PROVE  /\ \A j \in 1 .. Len(e.points) - 1 : e.points[j].step < e.points[j + 1].step
                      /\ e.md.class # "blobs" =>
                           Len(e.points) = Min({answers[i].req.points, e.stored})
                      /\ e.points # <<>> => e.points[Len(e.points)] = e.newest
    BY DEF PointsInOrder
  <2>1. Fulfils(e, answers[i].req)
    BY DEF IInv, Calls, Answered, Entries
  <2> QED
    BY <2>1 DEF Fulfils
<1> QED
  BY <1>1, Inductive, PTL

(***************************************************************************)
(* A key that has been served names the blob it was made for, or a later   *)
(* one of the same step, for any precision of the floating-point numbers   *)
(* it goes through and any sizes of blobs and of batches                   *)
(* (server/blobkey.go:49, server/server.go:388).                           *)
(***************************************************************************)
THEOREM BlobKeyNamesItsBlobAlways == Spec => []BlobKeyNamesItsBlob
BY Inductive, PTL DEF IInv, Calls

(***************************************************************************)
(* A blob that exists and is not found has been evicted by a newer value,  *)
(* and by nothing else that happens between the call that served its key   *)
(* and the one that uses it (server/server.go:380).                        *)
(***************************************************************************)
THEOREM BlobFoundWhileStoredAlways == Spec => []BlobFoundWhileStored
BY Inductive, PTL DEF IInv, Calls

(***************************************************************************)
(* A handler panics only over a value that does not fit the metadata of    *)
(* its series, for any values that may be logged (server/server.go:431,    *)
(* :452, :483).                                                            *)
(***************************************************************************)
THEOREM PanicOnlyIfMixedAlways == Spec => []PanicOnlyIfMixed
BY Inductive, PTL DEF IInv, Calls
===============================================================================
