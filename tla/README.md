# A TLA+ model of the TensorBoard data server

The data server loads the event files of a TensorBoard log directory while they
are being written, keeps a bounded sample of every time series in memory, and
serves it over gRPC.  This directory holds TLA+ modules that model its
concurrent core, TLC configurations that check them on small instances, and
proofs that TLAPS checks for all instances.

    tlc -config runreader.cfg MCRunReader     # any run: see "Runs"
    tlapm LogdirLoader_proofs.tla             # the proofs of a part: any *_proofs

## The system

| part | source | state | operations |
|---|---|---|---|
| `main` | `main.go` | - | starts everything; one goroutine calls `Loader.Reload` for ever |
| log directory loader | `io/logdir/loader.go` | `readers`, `data` (run name to reader, to accumulator), under `mu` | `start` (discover, `mkloaders`, `doreload`), `Reload`, `Runs`, `Run`, `Close` |
| run reader | `io/run/reader.go` | `loaders`, `fds`, `mds` | `start` (`mkloaders`, `readfrom` for each file), `Reload`, `Close` |
| event file reader | `io/eventfile/reader.go` | decoder state, three channels | `start`: read to EOF, doze, wake up, abort |
| TFRecord decoder | `io/tfrecord.go` | `TFRecordState`: the part of a record that has been read | `ReadRecord`, `Checksum`, `Write` |
| compatibility | `mem/datacompat.go` | the metadata store it is given | `EventValues` |
| accumulator | `io/run/accumulator.go` | `mds`, `data` (tag to reservoir), under `mu` | ingesting goroutine; `List`, `Metadata`, `Sample`, `Last` |
| reservoir | `mem/eager_reservoir.go` | `buf`, `stored`, `seen`, under its mutex | `Offer`, `Sample`, `Last` |
| RPC handlers | `server/server.go` | none | eight RPCs over `Loader.Runs`, `Loader.Run` and the accumulators |
| blob keys, downsampling | `server/blobkey.go`, `server/downsample.go` | none | pure functions |
| file system | `fs/` | - | `FindFiles`, `ListFiles`, `Open` |

How they interact.  There is a goroutine for the loader, one per run reader, one
per event file, one per accumulator, one per running RPC, and the poller.  The
poller wakes the loader through `reload` and waits on `asleep`.  The loader
discovers the run directories, closes the readers of those that are gone, makes a
reader and an accumulator for each new one, starts a goroutine per run that calls
its `Reload`, and waits for all.  A run reader wakes its event files one after
the other and selects between their `Results` and `Asleep`; every value goes
through the compatibility transformations and then through `Out` to the run's
accumulator, which offers it to the reservoir of its tag.  All these channels are
unbuffered except `Out`, whose capacity is a parameter (0 in the server).
Handlers take a snapshot of the run map, then the accumulators' locks one call at
a time.

What is hard about it: files are read while they grow, so a record arrives in
pieces; readers sleep and are woken, and every handshake must be paired or
somebody waits for ever; runs vanish and come back while they are read; two
metadata stores that are filled at different times have to agree; a restarted
training program writes steps again, and the reservoir must forget what they
preempt; handlers run at any time between all of this.  What makes each part
correct is listed with its module below.  `PROJECT.json` lists the hazards by
source line with the properties that cover them.

## Modules

**`EagerReservoir`** models `mem/eager_reservoir.go`.  `buf` is the stored prefix
of the code's slice, `seen` the code's count.  `Offer(v)` is the whole method:
`Kept` is the backward scan of `lockedPreempt`, `SeenAfterPreempt` its new count,
and the three alternatives are keep-last, append and evict, with the random
position as `\E dst`; the fourth is the index -1 that ends the process.  `live`
and `offered` are history.  `RoundingError` says what float64 may add to the
ceiling: for up to ten stored records the rounded formula was compared with the
exact one and never differs, so TLC uses `{0}`; the proofs allow `{0, 1}`.
`TimeSeries` and **`ReservoirContract`** state what the interface promises, as
sets: the sample holds live records, the newest among them, loses at most one old
record per offer and none while the live ones fit (`Offer`, `Spec`).  The code keeps
that until the stream goes back for the first time.  `OfferAfterRestart` says what is
left of it then, because of line 95: an old record may be lost although it would fit,
as soon as `Capacity` records have been offered in all (`SpecWithRestarts`).

**`EventFileReader`** models the goroutine of `io/eventfile/reader.go` with
`ReadRecord` under it.  The file is a sequence of bytes, each known by its record
and place; the writer appends any number of them; `ReadHeader` and `ReadBody` are
the two halves of `ReadRecord`, each taking what there is.  The width of the
length field and of `int` are constants, so that the sum `length + 4` and its
conversion wrap as in Go.  A CRC is taken to detect every error.  It implements
**`EventStream`**, the same goroutine record by record: the records of the file
in order, once each; a doze at the end; an end at a bad length or a read error.

**`DataCompat`** models what `EventValues` does to each value: the metadata it
gets, the tensor it becomes (shape, values, the rows of a histogram), and what it
leaves in the metadata store.

**`RunReader`** models `io/run/reader.go` over `EventStream`, one goroutine per
file, with the caller of `Reload` and `Close` and the consumer of `Out`.  The
control of the loading goroutine is `rrpc`: `list` and `open` are `mkloaders`,
`next` the loop over the files, `select` the loop in `readfrom`; what it has
still to send is `toSend`, and it does nothing else before that is sent.  An
unbuffered send and its receive are one step of both goroutines.  `Abort(f)` is
the goroutine that `Close` starts for `f`.  It implements **`RunSource`**, what
the consumer of `Out` may rely on: the values of the files, one file after the
other in each reload, every record once, with the metadata that the values before
it leave for it; errors in between that lose nothing else.

**`Accumulator`** models `io/run/accumulator.go`: ingestion in the two steps
between which `mu` is held, calls that only look at a map as one step, calls that
go on to a reservoir as two (`Sample` holds `mu` between them, `Last` does not).
Reservoirs are `TimeSeries` samples that count all offers, restarts or not, which is
what the proofs about `EagerReservoir` justify.  It implements **`TagStore`**, where every operation
is atomic.

**`RunDirs`** is the naming of runs (`rundirs`), with paths as sequences of
elements.  **`LogdirLoader`** models `io/logdir/loader.go`, the walk of
`fs/os.go` under it and the polling loop of `main.go`.  `WalkDir`, `WalkFile` and
`WalkError` are `filepath.Walk`: a directory is listed when the walk gets to it,
its entries are visited later, and one that has vanished ends the discovery with
an error; `Discovered` is the rest of `rundirs`.  Then come `MkLoaders`,
`DoReload`, a `RunReload`/`RunReloadReturn` per reader, `ReloadReturn`, and
`Close`; directories come and go at any time, during the walk too.  A reader and
its accumulator are numbered together; what a run's `Reload` does in between is
`RunReader`'s subject.  Critical sections of `ll.mu` block on nothing and are one
step each.  It implements **`RunMap`**, what those who read the runs may rely on: a
map that is brought in line with the disk in one step (`Sync`), never during a
reload, and in which a run that has gone and come back has a new accumulator.

**`DataServer`** composes the abstractions that the detailed modules implement:
it extends `RunMap` for the loader; its readers hand values over in the order
`RunSource` promises, through `DataCompat`; its accumulators take a datum in one
step, as `TagStore` does, into `TimeSeries` samples.  Upon them it has the eight RPCs of `server/server.go`.
`ListScalars`, `ListTensors` and `ListBlobSequences` differ in the data class only,
and so do the three that read; they are the operations "List" and "Read" with a class.
`Begin` copies the map of the runs, `VisitRun` calls `List` of an accumulator,
`VisitTag` samples one tag and makes its entry, `Return` answers; between any two of
these the loader, the readers and the ingestion go on.  `ReadBlob` and
`SendBlob` look up a key that an earlier answer contained.  Where the code would
index out of range or make a slice of a negative length, the call's `pc` is "panicked"
and everything ends.
**`BlobKey`** is the encoding of keys, with the rounding of a float64 of any
precision, and **`Downsample`** the choice of points.

The `MC...` modules give the constants small values.  Definitions whose comment
begins with "Mutant" are deliberate errors, one for each property, each like a
slip in the code: substituted for the definition that follows them they make
the property fail, which shows that the property has something to say.

## Runs

| run | result | shows |
|---|---|---|
| `reservoir` | passes | `StepSorted`, `LastIsMaxStep`, `ImplementsContractUntilRestart` and the inductive invariant, for all streams of 7 records over 4 steps and 3 places |
| `eventfile` | passes | no cut of the file and no pattern of wake-ups loses the framing (`Framed`); the results are the records in order (`ImplementsEventStream`); what is written is delivered (`EveryRecordDelivered`) |
| `runreader` | passes | values are relayed once and in order (`Relayed`), a returned reload has read what was there (`ReadToEOF`), metadata is first-wins as sent (`FirstMetadata`), files are read one at a time in name order (`OneFileInOrder`), none is read closed and no goroutine is forgotten (`FileOpenWhileRead`); the consumer gets what an abstract source promises (`ImplementsRunSource`); a reload returns unless a file has ended in a fatal result (`ReloadReturnsUnlessFatal`), and `ClosedReadersEnd` |
| `accumulator` | passes | a listed tag has data (`ListedTagHasData`), both metadata stores agree (`AgreesWithReader`), series hold the right values (`SeriesFollowStream`), histograms and other converted values fit their shape (`HistogramsWhole`), calls are atomic (`ImplementsTagStore`) |
| `loader` | passes | `MapsAgree`, `ReloadComplete`, `AllRunsFound` for an absolute path and a changing tree, `ReadersUsedInTurn`, `ReloadEnds`, `ServesTheDisk`, `ImplementsRunMap` |
| `server` | passes | answers are the run's own and never what had been dropped before the call (`ServedFromTheRun`), complete for the filters (`AnswerComplete`), no older than earlier ones (`ReadsGoForward`), in order with the last point kept, scalars and tensors downsampled to the right number (`PointsInOrder`); a key leads to its blob, or a later one at its step, whole (`BlobKeyNamesItsBlob`), as long as it is stored (`BlobFoundWhileStored`); no series logged in one format makes a handler panic (`PanicOnlyIfMixed`) |
| `runreader_fatal` | `ReloadReturns` fails | finding 1 |
| `loader_discovery` | `ReloadReturns` fails | finding 2 |
| `listruns` | `ListRunsAnswers` fails | finding 3 |
| `loader_relative` | `AllRunsFound` fails | finding 4 |
| `reservoir_panic` | `OfferReturns` fails | finding 5 |
| `series_mixed` | `HandlersAnswer` fails | finding 6 |

### Findings

1. `io/run/reader.go:185`: `break` after a fatal result leaves the `select`, not
   the loop.  The goroutine waits on an exited reader, `Reload` never returns,
   and the loader's `wg.Wait` keeps every run from being reloaded again.
2. `io/logdir/loader.go:87`: after a failed discovery nothing is sent on
   `asleep`; the poller waits for ever.  It is enough that an entry vanishes after
   its directory has been listed: `fs/os.go:19` returns Walk's error.  `ReloadReturns`
   asks for nothing when the log directory itself may have gone, so that the run shows
   this: a subdirectory is listed, removed, and then visited.
3. `server/server.go:45-49`: `ListRuns` sizes its slice by one snapshot and
   fills it from another; a run that appears in between is an index out of
   range, one that vanishes a nil entry.
4. `io/logdir/loader.go:108` looks a path up in a map keyed by names; with a
   relative log directory `data`, a run `data/data` hides the root run.
5. `mem/eager_reservoir.go:73`: if a record preempts all that is stored, `seen` is
   not reduced; so one step offered four times to a reservoir of three, which never
   holds more than one record, makes `seen` exceed the capacity with `stored` 0, and
   keep-last writes to `buf[-1]`.  The cause is line 95: `seen` is multiplied by the
   fraction that was preempted, not by the one that remains, while line 43 has it
   count the non-preempted records.  Nor does a reservoir then "hold up to capacity
   elements losslessly" (line 29): after the steps 1, 2, 3, 2 with a capacity of 3,
   `seen` is 3, and one more record, of step 3, may overwrite the second 2 although
   only three are live.  So `ImplementsContract` does not hold; what holds is
   `ImplementsContractUntilRestart`, and `ImplementsContract` for increasing steps.
6. `server/server.go:483` and `:452` take dimension 0 of every value of a blob
   sequence, but the class is that of the tag's first value: an image followed
   by a scalar under the same tag ends the process when the tag is listed.

Other divergences were met and have no run.  `io/run/accumulator.go:149` releases
`mu` before it calls the reservoir although line 35 says it is always held;
`ImplementsTagStore` shows that no answer goes wrong by it.  `io/tfrecord.go:134`
cannot detect an over-long length on a 64-bit build, where `int` and back is the
identity: `make` or the slice expression panics.  `EventFileReader` has both
panics.  A step beyond 2^53 does not survive a blob key, so that its key leads to
another step, to none or to an error, although the interface calls a key the "unique
identifier" of a blob: `BlobKeyNamesItsBlob` and `BlobFoundWhileStored` except such
steps.  `ReadBlobSequences` checks `num_points` and then ignores it (a TODO at
`server/server.go:333`), although it is the "[m]aximum number of points to return"
(`proto/data_provider.proto:109`): one point is asked for in a scenario, and
two are served.  `PointsInOrder` says nothing of the number of blob sequences.

### Bounds

- `reservoir`: capacity 3 and seven offers allow an overflow, a partial and a
  total preemption, and a second overflow; the findings need four offers at most.
- `eventfile`: headers and footers of 2 bytes, so every cut within and between the
  parts occurs, and a length that wraps can leave room for a part of the footer; three
  records, one of them empty, of every kind, and every length of a 4-bit field under
  a 3-bit `int`.
- `runreader`: two files, two records each, two reloads and one place in `Out`:
  a file that grows or appears between and during reloads, a tag that occurs in
  both files, errors in every place.  The code sorts by name, so a third file
  adds no case.  One content has a bad checksum, legacy and mixed values, the other
  a corrupt length.  `runreader_fatal` has the server's unbuffered `Out`.
- `accumulator`: capacities 2 and 1 for 1000, 100 and 10; streams of at most
  four values with a restart, an overflow, an error, a tag without metadata and
  histograms with more counts than limits; two handlers.
- `loader`: a root run, a run below it and a nested one; three changes on disk,
  enough for a run to vanish and return while another changes, or for an entry to
  vanish under the walk.
- `server`: a root run and one below it, two changes on disk, and seven scenarios of what
  is logged and asked (`MCDataServer`): a restart that preempts with an overflow, a
  step that returns after the directory was made again, filters for nothing,
  zero and negative numbers of points, a missing string, series of two kinds, a blob
  sequence whose shape has a negative length.  What may be logged and asked is
  `ScenariosAssumption`: there is something to log each time a directory is made
  again, and no shape is so large that the references to its blobs would not fit in memory.
  Capacities are 2 and 1.  A float64 has 2 bits of precision and an int64 has 4, so
  that the steps 5 and 7 are no float64s, and 7 rounds to a number that is out of range;
  frames have 2 bytes, for blobs of 1, 2 and 3.  One handler is enough: handlers
  only read, so that what one gets does not depend on the others, and it makes
  up to three calls in a row.  Nothing is explored after the last answer.

`MaxRecords` bounds a file, and `MaxOffers`, `MaxReloads` and `MaxChanges` how often the
environment acts, and only that.

### Fairness

Weak fairness is on goroutines only: Go's scheduler runs a goroutine that can go
on.  Where several goroutines meet on a channel, the meeting is one action.  In
`RunReader` (`FairSpec`) nothing obliges the writer to write or the caller to
call; in `EventFileReader` the owner goes on taking results and waking the
reader, which is what the polling of `main.go` amounts to, but may abort it; in
`LogdirLoader` the poller calls `Reload` again and again, and the reload of one
run ends, which `ReloadReturnsUnlessFatal` of `RunReader` shows if no result is fatal and
the file does not grow for ever.  `DataServer` has safety properties only and
needs none.  In the models files are finite; with a writer that is never outrun
`Reload` does not return in the code either.

## Proofs

What is proved holds for every value of the constants that satisfies the
assumptions, not only for the instance that a run checks.  Each detailed module has an
inductive invariant `IInv` (theorem `Inductive`); its layers are conjuncts of `IInv`
with a comment each in the `..._proofs` module, and are proved one after the other
with the help of those before.  From it follow the type invariant, the invariants
and the action properties of the run, and the refinement.

| module | theorems | for every |
|---|---|---|
| `EagerReservoir_proofs` | `ReservoirTypeOK`, `ReservoirStepSorted`, `ReservoirLastIsMaxStep`, `ReservoirImplementsContractUntilRestart`; for increasing steps, `ContractOfIncreasingSteps` (`ImplementsContract`) | set of integer steps, capacity, number of offers, random choice, rounding error of 0 or 1 |
| `EventFileReader_proofs` | `TypeCorrect`, `KeepsFraming` (`Framed`), `Refinement` (`ImplementsEventStream`) | contents of the file, growth, wake-ups, widths of the header, the footer, the length and `int` |
| `RunReader_proofs` | `TypeCorrect`, `FilesOpen` (`FileOpenWhileRead`), `ReloadReads` (`ReadToEOF`), `EachValueOnce` (`Relayed`), `StoreHoldsTheFirst` (`FirstMetadata`), `InNameOrder` (`OneFileInOrder`), `Refinement` (`ImplementsRunSource`) | finite set of files, contents, capacity of `Out`, number of reloads |
| `Accumulator_proofs` | `TypeCorrect`, `ListedThenFound` (`ListedTagHasData`), `OneMetadata` (`AgreesWithReader`), `SeriesFollow` (`SeriesFollowStream`), `Tensors` (`HistogramsWhole`), `Refinement` (`ImplementsTagStore`) | set of handlers, stream of events, capacities |
| `LogdirLoader_proofs` | `TypeCorrect`, `SameRuns` (`MapsAgree`), `Complete` (`ReloadComplete`), `EveryRunFound` (`AllRunsFound`), `UsedInTurn` (`ReadersUsedInTurn`), `Refinement` (`ImplementsRunMap`) | finite tree of directories, changes of it |
| `DataServer_proofs` | `TypeCorrect`, `ServedFromTheRunAlways`, `ReadsGoForwardAlways`, `AnswerCompleteAlways`, `PointsInOrderAlways`, `BlobKeyNamesItsBlobAlways`, `BlobFoundWhileStoredAlways`, `PanicOnlyIfMixedAlways`; `DecodedIntegers`, `FramesAreTheBlob` | finite set of directories, logged values, requests, capacities, number of changes, batch size, precision and width of numbers |

With the refinements, what `DataServer` is built upon is proved, not only checked:
`RunMap` of the loader, `RunSource` of the run reader, `TagStore` of the accumulator,
`EventStream` of the event file reader, `ReservoirContract` (until a restart, and what
is left of it then) of the reservoir.

**Assumptions.**  `ReservoirAssumption`: steps are integers, the capacity is not 0.
`FormatAssumption`: headers and footers have bytes, records have lengths that the
length field can hold, and the length field is as wide as `int` or wider.
`RunAssumption` and `ContentsAssumption`: finitely many files, numbered in the
order of their names; events have sequences of values, and none has the tag `""`, which
stands for "no tag" in the model.  `ClientsAssumption`: no handler is named like a state of the lock.
`StreamsAssumption`: an event has an integer step and values of one of the kinds of the
protocol buffer.  `CapacityAssumption`: capacities are naturals.  `LoaderAssumption`: finitely many
directories, all below the log directory.  `EveryRunFound` also assumes that the paths
are absolute, because of finding 4; `NoNameIsAPath`, which is what its proof needs, follows from that.
`ServerAssumption` and `ScenariosAssumption`: finitely many directories below the log
directory, a positive batch size, and of the scenarios what is said under "Bounds".
`BlobKeyAssumption`: floating-point numbers have a precision greater than one bit, and
integers are wider.  TLC evaluates all these on the runs of the module that has them.

**The arguments.**

- *Reservoir.*  `StepSorted` alone is inductive, but `LastIsMaxStep` speaks of
  `live`, so `IInv` adds that stored records are live; and the contract allows a
  loss only when as many records count as `Capacity`, so it adds that `seen` and the
  numbers of stored and of live records never exceed the offers.  If the live records that
  `v` spares are fewer than the offers, the stream has gone back; if not, they are all the
  offers, and the two counts are the same (`OfferKeepsContract`).  `KeptExists` (the backward scan stops somewhere)
  and `KeptIsExact` (in a sorted buffer it keeps exactly the records below the new
  step), `EvictKeepsOrder` and `ReplaceLastIsEvict` give `OfferStores`, one call that returns.
- *Event file reader.*  `Framing` says that the decoder holds the first bytes of the
  record whose turn it is and nothing else; `Room`, how many bytes it has made room
  for, by what the length field says or wraps to; `Results`, that what has been
  handed over are the records before it.  The file is the concatenation of the records'
  bytes (`Bytes`, `Ends`, `ByteAt`), so reading on keeps to it (`HeaderRead`, `BodyRead`).
  For the refinement, `JudgedRecords` shows that the record the
  reader is at is the next one of the stream, and `VisibleGrows` that bytes only make more records judgeable.
- *Run reader.*  `Control`: at most one file is being read, and a goroutine outside
  `rr.loaders` has not begun, has ended or will be aborted.  `Stream`: the results of a
  file are its records in order.  `Progress`: what the reload has done with the files before the
  current one.  `Relay`: what was sent is what the received results stand for.
  Metadata is first-wins because `EventValues` is (`EventValuesKeepFirst`).
- *Accumulator.*  `Results` lifts `EventValues` over a stream.  `Locking`: who holds
  `mu`, and that a tag lacks data only while ingestion holds it.  `Listing`: tags once listed stay.
  `MetadataOfFirst`: `mds` has the metadata of the first datum of each tag, which is what the reader's
  store has too.  `Followed`: a series is what its tag's data make of it (`SeriesOfTags` ties the two maps).
- *Loader.*  `Named`: maps and reader numbers agree; `Working` and `Progress`: what the reload
  in progress has closed, made and started; `Walk`: a directory that has held event files
  since the walk began has been found, or lies below an entry still to be visited.
- *Data server.*  `World` is about loading: a reader has opened nothing that had gone
  before it was made, and nothing made after it was closed (`Opened`); in every sample the
  order of the steps is the order of the places in the files (`Sampled`).  `Calls` is about
  the handler: what is still due will be visited (`Listing`), what a key is looked up in
  (`Fetching`), where references come from (`Referring`), and what the answers so
  far have (`Answered`).  It rests on `Held`: of a value that has once been in a
  sample, the sample has it still, or one that is later.  Loading never undoes that (`Grows`), so that `Calls`
  survives every step between two of the handler's, and each of these has a
  lemma of its own (`...KeepsCalls`).

`CommonLemmas` has facts about sequences, folds, minima and powers, and about
`EventValues` and histograms, which several of these proofs need;
`LeftFold` is an induction over `FoldLeft` for an operator that it is instantiated with
(`EventValues`, `Results`, `RunDirsOf` and products are folds).  So what they compute is
proved for inputs of any length.

**What the proofs found.**  `Framed` and `ImplementsEventStream` passed TLC and were wrong
about footers of several bytes, as the real ones are: a length that wraps leaves
room for a part of the footer, for which the reader waits although the record was counted as
judgeable, and on the panic that follows the model dropped the bytes read.
`EventFileReader` now says so (`RoomFor`, `Judgeable`), and `eventfile` has footers of 2 bytes.
`TagStore` offered any datum, `ReloadComplete` and `HistogramsWhole` said less than they do now.
In `DataServer` a negative length made `make` panic in the code and not in the model
(`Negative`), and `BlobFoundWhileStored` had taken the length of a blob sequence from its
shape; it now counts `Strings`, which is what `ReadBlob` can send.

**Only model-checked.**  Liveness (`EveryRecordDelivered`, `ReloadReturnsUnlessFatal`,
`ClosedReadersEnd`, `ReloadEnds`, `ServesTheDisk`): fairness and `ENABLED` are beyond the prover.
Every other property of a passing run is stated by a theorem.

## Not modelled

Wall times (`max_wall_time` is that of the sample, not of all that was logged) and
the number in `max_length`; keys that the server did not make, and their
decoding errors; errors of `stream.Send`, which `ReadBlob` ignores; the CRC
formula; buffering by `bufio`; `io/bufread.go`, which nothing uses; protobuf
encoding; gRPC, flags and logging; the demos and benchmarks below `cmd`; that
`Sample` and `downsample` are uniform, statements about probabilities; an event
file that is replaced under its own name; permissions and other I/O errors of
the walk, which end it as `WalkError` does; a `Reload` after `Close`, which no
caller makes; the directory that `fs/os.go:42` opens and leaves to a finalizer.
`MetadataStore()` returns a map that no caller uses during a reload.

## Plan

Done, in this order because everything served passes through them: the
reservoir and its contract; the event file reader and its stream; the run
reader and the source it is; the accumulator and its store; the loader, the walk
under it and the map it is; the handlers over all of these, with blob keys,
downsampling and the converted data.

The proofs followed the same order, and cover all of them.

1. That the readers and accumulators inside `DataServer` are a `RunSource` and a
   `TagStore` each, stated as refinements; today it uses the same operators.
2. Files replaced under their name; `Run` and `Runs` during `Close`.
