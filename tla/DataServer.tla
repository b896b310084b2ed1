------------------------------ MODULE DataServer ------------------------------
(***************************************************************************)
(* The RPC handlers of server/server.go, over the runs that the loader     *)
(* keeps while directories come, go and come back and values come in.      *)
(*                                                                         *)
(* The loader is RunMap, which LogdirLoader implements; a run's reader     *)
(* reads, as RunReader does, its files in the order of their names, and    *)
(* hands the values over one by one; an accumulator is TagStore, which     *)
(* Accumulator implements.  Handlers only read, and only what is shared    *)
(* matters to them: so one handler, which is called again and again, shows *)
(* what any of them can get.  Go's order of a map's keys is any order.     *)
(***************************************************************************)
EXTENDS RunMap, DataCompat, TimeSeries, BlobKey, Downsample

CONSTANTS Scenarios,      \* what directories hold, and what is asked for
          CapacityOf(_),  \* reservoirCapacity, scaled down
          BatchSize,      \* blobBatchSizeBytes, scaled down
          MaxChanges      \* bound: how often a directory appears or disappears

ASSUME ServerAssumption ==
  /\ BatchSize \in Nat \ {0} /\ MaxChanges \in Nat
  /\ Logdir \in Seq(STRING) /\ IsFiniteSet(Dirs)
  /\ \A d \in Dirs : d \in Seq(STRING) /\ IsPrefix(Logdir, d)

(***************************************************************************)
(* What may be logged and asked for.  Bounds: there is something to log    *)
(* each time that a directory is made again, and a shape is not so large   *)
(* that the references to its blobs would not fit in memory.               *)
(***************************************************************************)
Loggable(event) ==
  LET tensor == TensorOf(event.value)
  IN  /\ event.step \in MinInt .. MaxInt
      /\ tensor.dims = <<>> \/ Head(tensor.dims) \in MinInt .. Min({MaxInt, MaxExact})
      /\ tensor.dtype = "string" => tensor.vals \in Seq(Seq(Int))
Filter(f) == f = <<>> \/ f = <<Head(f)>>
Request(q) ==
  /\ q.op \in {"ListRuns", "ReadBlob", "List", "Read"}
  /\ q.op \in {"List", "Read"} =>
       /\ q.class \in {"scalar", "tensor", "blobs"} /\ q.points \in Int
       /\ Filter(q.runs) /\ Filter(q.tags)
Events(s, d) == UNION {ToSet(file) : file \in ToSet(s.logged[d])}
ASSUME ScenariosAssumption ==
  \A s \in Scenarios :
    /\ \A d \in Dirs :
         /\ s.logged[d] \in Seq(Seq(Events(s, d))) /\ 2 * Len(s.logged[d]) > MaxChanges
         /\ \A event \in Events(s, d) : Loggable(event)
    /\ s.requests \in Seq(ToSet(s.requests))
    /\ \A q \in ToSet(s.requests) : Request(q)

VARIABLES scenario,  \* [logged, requests], see MCDataServer
          disk,      \* the directories that hold event files now
          born,      \* how often each of them has been made
          changes,   \* how often the disk has changed
          found,     \* the discovery going on: [stayed, appeared], or none
          readers,   \* of each reader: what it has opened, read and sent
          accs,      \* of each accumulator, by tag: [md, sample, offered]
          call,      \* the call that the handler is in
          answers,   \* history: its answers so far
          refs,      \* history: the blob references in them
          gone       \* history: the incarnations of each directory that had
                     \*   been removed when the loader last dropped its run

diskVars == <<scenario, disk, born, changes>>
loaderVars == <<data, state, found, gone>>
runVars == <<readers, accs>>
callVars == <<call, answers, refs>>
vars == <<diskVars, loaderVars, runVars, callVars>>

NotDiscovering == [stayed |-> {}, appeared |-> {}, on |-> FALSE]
NoCall == [pc |-> "idle"]

Init ==
  /\ scenario \in Scenarios
  /\ disk \in SUBSET Dirs /\ born = [d \in Dirs |-> IF d \in disk THEN 1 ELSE 0]
  /\ changes = 0
  /\ MapInit /\ found = NotDiscovering
  /\ readers = <<>> /\ accs = <<>>
  /\ call = NoCall /\ answers = <<>> /\ refs = {}
  /\ gone = [d \in Dirs |-> 0]

\* No handler recovers from a panic, so one of them ends the process.  Bound:
\* what happens after the last answer matters to nobody.
Running == call.pc # "panicked" /\ Len(answers) < Len(scenario.requests)

-----------------------------------------------------------------------------
\* A directory is removed, or made again with an event file of another name.
Change(d) ==
  /\ Running
  /\ changes < MaxChanges /\ changes' = changes + 1
  /\ \/ d \in disk /\ disk' = disk \ {d} /\ UNCHANGED born
     \/ d \notin disk /\ disk' = disk \cup {d} /\ born' = [born EXCEPT ![d] = @ + 1]
  /\ found' = IF found.on
              THEN [found EXCEPT !.stayed = @ \ {d}, !.appeared = @ \cup {d}] ELSE found
  /\ UNCHANGED <<scenario, data, state, gone, runVars, callVars>>

\* Reload has been called: the discovery begins.
Discover ==
  /\ Running /\ ~found.on
  /\ \A r \in DOMAIN state : state[r].doing # "reloading"
  /\ found' = [stayed |-> disk, appeared |-> disk, on |-> TRUE]
  /\ UNCHANGED <<diskVars, data, state, gone, runVars, callVars>>

NewReader == [opened |-> {}, at |-> <<0, 0>>, mds |-> <<>>, sending |-> <<>>]

\* It ends; which directories it finds is what AllRunsFound says.
SyncRuns(dirs) ==
  /\ Running /\ found.on
  /\ found.stayed \subseteq dirs /\ dirs \subseteq found.appeared
  /\ Sync(dirs)
  /\ found' = NotDiscovering
  /\ gone' = [d \in Dirs |->
                IF d \in dirs THEN gone[d]
                ELSE IF d \in disk THEN born[d] - 1 ELSE born[d]]
  /\ LET new == 1 .. Len(state') - Len(state)
     IN  /\ readers' = readers \o [i \in new |-> NewReader]
         /\ accs' = accs \o [i \in new |-> <<>>]
  /\ UNCHANGED <<diskVars, callVars>>

\* The run's Reload starts, and opens the file that it finds in the directory.
ReloadRun(r) ==
  /\ Running /\ ~found.on
  /\ RunReload(r)
  /\ LET d == state[r].path
     IN  readers' = IF d \in disk
                    THEN [readers EXCEPT ![r].opened = @ \cup {born[d]}] ELSE readers
  /\ UNCHANGED <<diskVars, found, gone, accs, callVars>>

ReloadRunReturn(r) ==
  /\ Running /\ RunReloadReturn(r)
  /\ UNCHANGED <<diskVars, found, gone, runVars, callVars>>

\* The next values of a reader: <<incarnation, place>> of each.
Upcoming(r) ==
  LET read == readers[r]
  IN  {p \in {<<read.at[1], read.at[2] + 1>>} \cup {<<k, 1>> : k \in read.opened} :
         /\ p[1] \in read.opened /\ p[1] >= read.at[1]
         /\ p[1] = read.at[1] => p[2] = read.at[2] + 1
         /\ p[2] <= Len(scenario.logged[state[r].path][p[1]])}

(***************************************************************************)
(* The reader sends a value, which its accumulator receives.  It goes on   *)
(* to the next file when it likes: the current one ends there for now, and *)
(* for good, as its directory has been removed.                            *)
(***************************************************************************)
Send(r) ==
  /\ Running /\ Doing(r, "reloading") /\ readers[r].sending = <<>>
  /\ \E p \in Upcoming(r) :
       LET event == scenario.logged[state[r].path][p[1]][p[2]]
           ev    == EventValues(<<event.value>>, readers[r].mds)
           value == Head(ev.values)
           datum == [step |-> event.step, dir |-> state[r].path, at |-> p,
                     tag |-> value.tag, meta |-> value.meta, tensor |-> value.tensor]
       IN  readers' = [readers EXCEPT ![r] = [opened |-> @.opened, at |-> p, mds |-> ev.mds,
                                              sending |-> <<datum>>]]
  /\ UNCHANGED <<diskVars, loaderVars, accs, callVars>>

(***************************************************************************)
(* ingestDatum, which may take until after the Reload has returned and the *)
(* reader has been closed.                                                 *)
(***************************************************************************)
Ingest(r) ==
  /\ Running /\ readers[r].sending # <<>>
  /\ LET d   == Head(readers[r].sending)
         had == IF d.tag \in DOMAIN accs[r] THEN accs[r][d.tag]
                ELSE [md |-> d.meta, sample |-> {}, offered |-> 0]
         Keep(series) == accs' = [accs EXCEPT ![r] = Put(@, d.tag, series)]
     IN  \/ had.md = NoMeta /\ Keep(had)
         \/ /\ had.md # NoMeta
            /\ \E s \in SamplesAfter(had.sample, had.offered, CapacityOf(had.md.class), d) :
                 Keep([md |-> had.md, sample |-> s, offered |-> had.offered + 1])
  /\ readers' = [readers EXCEPT ![r].sending = <<>>]
  /\ UNCHANGED <<diskVars, loaderVars, callVars>>

Loading ==
  \/ \E d \in Dirs : Change(d)
  \/ Discover \/ \E dirs \in SUBSET Dirs : SyncRuns(dirs)
  \/ \E r \in DOMAIN state :
       ReloadRun(r) \/ ReloadRunReturn(r) \/ Send(r) \/ Ingest(r)

-----------------------------------------------------------------------------
(***************************************************************************)
(* The calls.  "op" is ListRuns, ReadBlob, or List or Read, each for one   *)
(* class of data.  A filter is <<>> for nil, or has the set it matches.    *)
(***************************************************************************)
Runs == data

Asked(op) ==
  /\ call.pc = "idle"
  /\ Len(answers) < Len(scenario.requests)
  /\ scenario.requests[Len(answers) + 1].op = op
req == scenario.requests[Len(answers) + 1]

Answer(a) ==
  /\ answers' = Append(answers, a)
  /\ call' = NoCall

\* runs := s.ll.Runs(); res.Runs = make(..., len(runs))
ListRuns ==
  /\ Asked("ListRuns")
  /\ call' = [pc |-> "sized", size |-> Cardinality(Names(Runs))]
  /\ UNCHANGED <<diskVars, loaderVars, runVars, answers, refs>>

\* for run := range s.ll.Runs(): a copy of its own, which may be larger.
FillRuns ==
  /\ call.pc = "sized"
  /\ \/ /\ Cardinality(Names(Runs)) > call.size
        /\ call' = [call EXCEPT !.pc = "panicked"]
        /\ UNCHANGED answers
     \/ /\ Cardinality(Names(Runs)) <= call.size
        /\ Answer([req |-> req, status |-> "OK", size |-> call.size, names |-> Names(Runs)])
  /\ UNCHANGED <<diskVars, loaderVars, runVars, refs>>

\* Mutant of MatchesFilter: an empty filter is as good as none.
MatchesFilterUnlessEmpty(f, x) == f # <<>> /\ Head(f) # {} => x \in Head(f)

MatchesFilter(f, x) == f # <<>> => x \in Head(f)

\* The tags of a run that the loop over acc.List() does not pass over.
Matching(acc) ==
  {tag \in DOMAIN accs[acc] :
     LET md == accs[acc][tag].md
     IN  /\ md # NoMeta /\ md.class = req.class
         /\ md.plugin = req.plugin
         /\ MatchesFilter(req.tags, tag)}

BadRequest ==
  /\ Asked("Read") /\ req.points < 0
  /\ Answer([req |-> req, status |-> "InvalidArgument"])
  /\ UNCHANGED <<diskVars, loaderVars, runVars, refs>>

\* The series of all runs, as a call finds them when it begins.
AllSeries ==
  UNION {{[run |-> name, tag |-> tag, md |-> accs[Runs[name]][tag].md] :
            tag \in DOMAIN accs[Runs[name]]} : name \in Names(Runs)}

\* The handler copies the map of the runs, and goes on with its accumulators.
Begin ==
  /\ Asked("List") \/ (Asked("Read") /\ req.points >= 0)
  /\ call' = [pc |-> "reading",
              runs |-> [name \in {n \in Names(Runs) : MatchesFilter(req.runs, n)} |-> Runs[name]],
              run |-> <<>>, acc |-> 0, tags |-> {}, entries |-> {},
              due |-> AllSeries, gone |-> gone]
  /\ UNCHANGED <<diskVars, loaderVars, runVars, answers, refs>>

\* for tag, md := range acc.List()
VisitRun ==
  /\ call.pc = "reading" /\ call.tags = {}
  /\ \E name \in Names(call.runs) :
       call' = [call EXCEPT !.run = name, !.acc = call.runs[name],
                            !.tags = Matching(call.runs[name]),
                            !.runs = [n \in Names(@) \ {name} |-> @[n]]]
  /\ UNCHANGED <<diskVars, loaderVars, runVars, answers, refs>>

\* acc.Sample(tag), in the order of the steps
InOrder(sample) ==
  CHOOSE s \in [1 .. Cardinality(sample) -> sample] :
    ToSet(s) = sample /\ \A i \in 2 .. Len(s) : s[i - 1].step < s[i].step
SampleOf(acc, tag) ==
  IF tag \in DOMAIN accs[acc] THEN InOrder(accs[acc][tag].sample) ELSE <<>>

\* Where tensor.TensorShape.Dim[0], make and scalarValue panic.
NoLength(tensor) == tensor.dims = <<>>
Negative(tensor) == tensor.dims # <<>> /\ Head(tensor.dims) < 0
NoScalar(tensor) ==
  tensor = NoTensor \/ (tensor.dtype \in {"float", "double"} /\ tensor.vals = <<>>)

\* The points of an answer.  Blob sequences are not downsampled: "TODO", line 333.
PointsOf(sample) ==
  IF req.op = "List" THEN {<<>>}
  ELSE IF req.class = "blobs" THEN {sample} ELSE Downsampled(sample, req.points)

\* What the body of the loop over tags cannot take.
Unreadable(sample, points) ==
  \/ req.class = "blobs" /\ \E x \in ToSet(sample) : NoLength(x.tensor)
  \/ req.class = "blobs" /\ req.op = "Read" /\ \E x \in ToSet(sample) : Negative(x.tensor)
  \/ req.class = "scalar" /\ \E x \in ToSet(points) : NoScalar(x.tensor)

\* The body of that loop; "newest" is what max_step is the step of.  A sample
\* is never empty here, as ListedTagHasData of Accumulator shows.
VisitTag ==
  /\ call.pc = "reading"
  /\ \E tag \in call.tags :
       LET sample == SampleOf(call.acc, tag)
       IN  \E points \in PointsOf(sample) :
             call' = IF Unreadable(sample, points)
                     THEN [call EXCEPT !.pc = "panicked", !.tags = {tag}]
                     ELSE [call EXCEPT
                             !.tags = @ \ {tag},
                             !.entries = @ \cup
                               {[run |-> call.run, tag |-> tag,
                                 md |-> accs[call.acc][tag].md, newest |-> Last(sample),
                                 points |-> points, stored |-> Len(sample)]}]
  /\ UNCHANGED <<diskVars, loaderVars, runVars, answers, refs>>

\* blobSequenceValues: a reference to each blob of a point.
RefsOf(run, tag, x) ==
  {[key |-> Encode([run |-> run, tag |-> tag, step |-> x.step, index |-> i]),
    of |-> x, index |-> i] : i \in 0 .. Head(x.tensor.dims) - 1}

Return ==
  /\ call.pc = "reading" /\ call.tags = {} /\ call.runs = <<>>
  /\ Answer([req |-> req, status |-> "OK", entries |-> call.entries,
             due |-> call.due, gone |-> call.gone])
  /\ refs' = refs \cup
       UNION {UNION {RefsOf(e.run, e.tag, x) : x \in ToSet(e.points)} :
                e \in {e \in call.entries : e.md.class = "blobs"}}
  /\ UNCHANGED <<diskVars, loaderVars, runVars>>

-----------------------------------------------------------------------------
\* ReadBlob with a key that was served: it is decoded, then s.ll.Run(bk.run).
ReadBlob ==
  /\ Asked("ReadBlob")
  /\ \E ref \in refs : \E bk \in Decode(ref.key) :
       \/ /\ bk = <<>>
          /\ Answer([req |-> req, status |-> "InvalidArgument", ref |-> ref])
       \/ /\ bk # <<>>
          /\ call' = [pc |-> "blob", ref |-> ref, bk |-> Head(bk), gone |-> gone,
                      acc |-> IF Head(bk).run \in Names(Runs) THEN Runs[Head(bk).run] ELSE 0]
          /\ UNCHANGED answers
  /\ UNCHANGED <<diskVars, loaderVars, runVars, refs>>

\* Mutants of AtStep and HasIndex.
AtStepOrAfter(sample, step) == SelectInSeq(sample, LAMBDA x : x.step >= step)
HasNextIndex(strings, index) == index + 1 < Len(strings)

\* The place of the first point of that step, or 0.
AtStep(sample, step) == SelectInSeq(sample, LAMBDA x : x.step = step)
HasIndex(strings, index) == index < Len(strings)

\* tensor.StringVal
Strings(tensor) == IF tensor.dtype = "string" THEN tensor.vals ELSE <<>>

\* The blob, sent piece by piece.
Frames(blob) ==
  [i \in 1 .. (Len(blob) + BatchSize - 1) \div BatchSize |->
     SubSeq(blob, (i - 1) * BatchSize + 1, Min({i * BatchSize, Len(blob)}))]

\* run.Sample(bk.tag) and all that follows.
SendBlob ==
  /\ call.pc = "blob"
  /\ LET bk     == call.bk
         sample == IF call.acc = 0 THEN <<>> ELSE SampleOf(call.acc, bk.tag)
         hit    == AtStep(sample, bk.step)
     IN  \/ /\ hit # 0 /\ HasIndex(Strings(sample[hit].tensor), bk.index)
            /\ Answer([req |-> req, status |-> "OK", ref |-> call.ref, gone |-> call.gone,
                       of |-> sample[hit],
                       frames |-> Frames(sample[hit].tensor.vals[bk.index + 1])])
         \/ /\ hit # 0 => ~HasIndex(Strings(sample[hit].tensor), bk.index)
            /\ Answer([req |-> req, status |-> "NotFound", ref |-> call.ref,
                       sample |-> ToSet(sample)])
  /\ UNCHANGED <<diskVars, loaderVars, runVars, refs>>

-----------------------------------------------------------------------------
Handler ==
  \/ ListRuns \/ FillRuns
  \/ BadRequest \/ Begin \/ VisitRun \/ VisitTag \/ Return
  \/ ReadBlob \/ SendBlob
Next == Loading \/ Handler

Spec == Init /\ [][Next]_vars

-----------------------------------------------------------------------------
\* The types of the variables.
TypeOK ==
  /\ disk \subseteq Dirs /\ born \in [Dirs -> 0 .. MaxChanges + 1]
  /\ found.stayed \subseteq found.appeared /\ found.appeared \subseteq Dirs
  /\ Len(readers) = Len(state) /\ Len(accs) = Len(state)
  /\ \A r \in DOMAIN state :
       /\ state[r].doing \in {"asleep", "reloading", "closed"}
       /\ Len(readers[r].sending) <= 1
       /\ DOMAIN accs[r] \subseteq DOMAIN readers[r].mds
  /\ call.pc \in {"idle", "sized", "reading", "blob", "panicked"}
  /\ call.pc = "blob" => call.bk.step \in MinInt .. MaxInt
  /\ \A i \in DOMAIN answers : answers[i].status \in {"OK", "NotFound", "InvalidArgument"}

\* The answers of the calls that list or read series, and of those for a blob.
Series == {i \in DOMAIN answers : answers[i].req.op \in {"List", "Read"} /\ answers[i].status = "OK"}
Blobs == {i \in DOMAIN answers : answers[i].req.op = "ReadBlob"}

\* Whether a series is asked for, taking the words for the filters literally.
AskedFor(request, s) ==
  /\ s.md.class = request.class /\ s.md.plugin = request.plugin
  /\ request.runs = <<>> \/ \E names \in ToSet(request.runs) : s.run \in names
  /\ request.tags = <<>> \/ \E names \in ToSet(request.tags) : s.tag \in names

\* What was read later from the same directory; what is in the present one.
Later(x, y) ==
  x.dir = y.dir /\ (x.at[1] > y.at[1] \/ (x.at[1] = y.at[1] /\ x.at[2] > y.at[2]))
Present(x) == x.dir \in disk /\ born[x.dir] = x.at[1]

(***************************************************************************)
(* What is served as a run is what its own directory holds or has held,    *)
(* and once the loader has dropped the run, what it dropped is never       *)
(* served to a later call, not even if the directory is made again.        *)
(***************************************************************************)
ServedFromTheRun ==
  /\ \A i \in Series : \A e \in answers[i].entries :
       \A x \in {e.newest} \cup ToSet(e.points) :
         x.dir = Logdir \o e.run /\ x.tag = e.tag /\ x.at[1] > answers[i].gone[x.dir]
  /\ \A i \in Blobs : answers[i].status = "OK" =>
       /\ answers[i].of.dir = answers[i].ref.of.dir
       /\ answers[i].of.at[1] > answers[i].gone[answers[i].of.dir]

(***************************************************************************)
(* The calls of a client do not go back in time: while its directory stays *)
(* there, a series that has been listed or read once is in every later     *)
(* answer that asks for it, and its newest value is as new, whatever the   *)
(* loader, the readers and the reservoirs have done in between.            *)
(***************************************************************************)
ReadsGoForward ==
  \A i, j \in Series : i < j =>
    \A a \in answers[i].entries :
      (Present(a.newest) /\ AskedFor(answers[j].req, a)) =>
        \E b \in answers[j].entries :
          /\ b.run = a.run /\ b.tag = a.tag
          /\ b.newest = a.newest \/ Later(b.newest, a.newest)

(***************************************************************************)
(* An answer has every series that was there when the call began and that  *)
(* is asked for, and none that is not asked for: "If nil, it matches all   *)
(* strings. Otherwise, it matches exactly those" (server/server.go:401).   *)
(***************************************************************************)
AnswerComplete ==
  \A i \in Series :
    /\ \A s \in answers[i].due : AskedFor(answers[i].req, s) =>
         \E e \in answers[i].entries : e.run = s.run /\ e.tag = s.tag /\ e.md = s.md
    /\ \A e \in answers[i].entries : AskedFor(answers[i].req, e)

(***************************************************************************)
(* The points of a series are in the order of their steps, each step once, *)
(* and the last of them is the newest value, whose step is listed as the   *)
(* greatest.  Of scalars and tensors they are as many as are asked for     *)
(* unless there are fewer.  Of blob sequences nothing like that is stated: *)
(* ReadBlobSequences serves all that is stored (the TODO at server/        *)
(* server.go:333), although num_points is the "[m]aximum number of points  *)
(* to return" (proto/data_provider.proto:109).                             *)
(***************************************************************************)
PointsInOrder ==
  \A i \in Series : answers[i].req.op = "Read" =>
    \A e \in answers[i].entries :
      /\ \A j \in 1 .. Len(e.points) - 1 : e.points[j].step < e.points[j + 1].step
      /\ e.md.class # "blobs" => Len(e.points) = Min({answers[i].req.points, e.stored})
      /\ e.points # <<>> => e.points[Len(e.points)] = e.newest

(***************************************************************************)
(* A blob that is found under a key is the one the key was made for, or    *)
(* one that has been logged since at the same step of the same series, and *)
(* it comes whole.  Steps that are not float64s are the exception.         *)
(***************************************************************************)
BlobKeyNamesItsBlob ==
  \A i \in Blobs :
    LET a == answers[i] IN
    a.status = "OK" /\ a.ref.of.step \in -MaxExact .. MaxExact =>
      /\ a.of = a.ref.of \/ (Later(a.of, a.ref.of) /\ a.of.tag = a.ref.of.tag
                               /\ a.of.step = a.ref.of.step)
      /\ FlattenSeq(a.frames) = a.of.tensor.vals[a.ref.index + 1]
      /\ \A f \in ToSet(a.frames) : Len(f) \in 1 .. BatchSize

(***************************************************************************)
(* "[I]t may have been evicted from memory" (server/server.go:380) is the  *)
(* only reason why a blob that exists is not found, besides the loss of    *)
(* its directory: something newer has been logged to the series.           *)
(***************************************************************************)
BlobFoundWhileStored ==
  \A i \in Blobs :
    LET a == answers[i] IN
    (/\ a.status # "OK"
     /\ a.ref.of.step \in -MaxExact .. MaxExact
     /\ a.ref.index < Len(Strings(a.ref.of.tensor)) /\ Present(a.ref.of)) =>
      /\ a.status = "NotFound" /\ a.ref.of \notin a.sample
      /\ \E x \in a.sample : Later(x, a.ref.of)

\* The value that became x, as it was written.
Written(x) == scenario.logged[x.dir][x.at[1]][x.at[2]].value

\* Values of the kinds that series of this class are logged with.
Fits(class, v) ==
  CASE class = "scalar" -> v.what = "simple" \/ (v.what = "tensor" /\ v.data.vals # <<>>)
    [] class = "blobs"  -> \/ v.what \in {"image", "graph"}
                           \/ v.what = "tensor" /\ v.data.dims # <<>> /\ Head(v.data.dims) >= 0
    [] OTHER            -> TRUE

(***************************************************************************)
(* A handler panics only over a series whose values are not all of the     *)
(* kind that its first metadata says, or have not the shape of that: not   *)
(* for one that was logged in one format, old or new, graphs among them.   *)
(* (For ListRuns see below.)                                               *)
(***************************************************************************)
PanicOnlyIfMixed ==
  call.pc = "panicked" /\ req.op # "ListRuns" =>
    \E tag \in call.tags : \E x \in accs[call.acc][tag].sample :
      ~Fits(req.class, Written(x))

(***************************************************************************)
(* Every call for series is answered: maxLength takes "any of the given    *)
(* data points, whose summaries' time series should be                     *)
(* DATA_CLASS_BLOB_SEQUENCE" (server/server.go:478), which is what the     *)
(* handler has made sure of.                                               *)
(***************************************************************************)
HandlersAnswer == call.pc # "panicked"

(***************************************************************************)
(* A call of ListRuns is answered with a list of runs, in which no entry   *)
(* is nil.  Reload "[m]ay be called concurrently with reads" (io/logdir/   *)
(* loader.go:173), and the handler reads while main polls.                 *)
(***************************************************************************)
ListRunsAnswers ==
  /\ call.pc # "panicked"
  /\ \A i \in DOMAIN answers :
       answers[i].req.op = "ListRuns" => Cardinality(answers[i].names) = answers[i].size
=============================================================================
