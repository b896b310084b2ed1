------------------------------- MODULE RunReader -------------------------------
(***************************************************************************)
(* The reader of one run directory (io/run/reader.go), the goroutines of   *)
(* its event files (EventStream), the caller of Reload and Close, and the  *)
(* consumer of the Out channel (the goroutine of run/accumulator.go).      *)
(*                                                                         *)
(* Reload, asleep and the channels of EventStream are unbuffered: a send   *)
(* and its receive are one step of both goroutines.  Out has ChanBuf       *)
(* places.  Event files are numbered in the lexical order of their names.  *)
(***************************************************************************)
EXTENDS EventStream, DataCompat, FiniteSets, FiniteSetsExt

CONSTANTS ChanBuf,    \* capacity of the Out channel; 0 in logdir/loader.go
          FSMayFail,  \* whether ListFiles and Open may return an error
          MaxReloads  \* bound: how often Reload is called

ASSUME RunAssumption ==
  /\ Files \subseteq Nat \ {0} /\ IsFiniteSet(Files)
  /\ ChanBuf \in Nat /\ FSMayFail \in BOOLEAN /\ MaxReloads \in Nat

\* A file holds records, and an event values; "" is kept for "no tag", and
\* stands for no tag of a file.
ASSUME ContentsAssumption ==
  \A c \in Contents : \A f \in Files :
    /\ c[f] \in Seq(ToSet(c[f]))
    /\ \A r \in ToSet(c[f]) : /\ r.values \in Seq(ToSet(r.values))
                             /\ \A v \in ToSet(r.values) : v.tag # ""

VARIABLES dir,       \* the event files that exist
          loaders,   \* rr.loaders: "absent", "live" or, for a nil entry, "dead"
          fds,       \* the files of rr.fds that are open
          mds,       \* rr.mds
          rrpc,      \* where the loading goroutine is
          todo,      \* the files its loop has not come to
          cur,       \* the file it is reading, 0 for none
          toSend,    \* the ValueResults it has still to send
          out,       \* the Out channel
          consumer,  \* "recv", or "busy" with the result it has received last
          caller,    \* "idle", "waiting" in Reload, or "closed"
          aborting,  \* the files whose Abort waits to be received
          reloads,   \* how many Reloads have been called
          taken,     \* history: what the consumer has received
          atReload   \* history: what was visible when Reload was last called

readerVars == <<loaders, fds, mds, rrpc, todo, cur, toSend>>
envVars == <<dir, consumer, caller, aborting, reloads, taken, atReload>>
vars == <<streamVars, readerVars, out, envVars>>

\* A ValueResult with a Datum, and one with an Err; file 0 is the directory.
Datum(f, i, v) == [file |-> f, rec |-> i, tag |-> v.tag, meta |-> v.meta]
Err(f, i) == [file |-> f, rec |-> i, tag |-> "", meta |-> NoMeta]

RunInit ==
  /\ StreamInit
  /\ dir = {}
  /\ loaders = [f \in Files |-> "absent"] /\ fds = {} /\ mds = <<>>
  /\ rrpc = "idle" /\ todo = {} /\ cur = 0
  /\ toSend = <<>> /\ out = <<>>
  /\ consumer = "recv" /\ caller = "idle" /\ aborting = {} /\ reloads = 0
  /\ taken = <<>> /\ atReload = [f \in Files |-> 0]

-----------------------------------------------------------------------------
\* The program that logs the run creates an event file, and appends to it.
CreateFile(f) ==
  /\ f \notin dir
  /\ dir' = dir \cup {f}
  /\ UNCHANGED <<streamVars, readerVars, out, consumer, caller, aborting,
                 reloads, taken, atReload>>

Append1(f) == f \in dir /\ Write(f) /\ UNCHANGED <<readerVars, out, envVars>>

\* The goroutine of an event file.
ReadFile(f) ==
  /\ ReadRecord(f) \/ ReadEOF(f) \/ ReadError(f)
  /\ UNCHANGED <<readerVars, out, envVars>>

-----------------------------------------------------------------------------
\* rr.reload <- struct{}{} of the caller, received by the loading goroutine.
Reload ==
  /\ caller = "idle" /\ reloads < MaxReloads
  /\ rrpc = "idle"
  /\ caller' = "waiting" /\ reloads' = reloads + 1
  /\ atReload' = visible
  /\ rrpc' = "list"
  /\ UNCHANGED <<streamVars, loaders, fds, mds, todo, cur, toSend, out, dir,
                 consumer, aborting, taken>>

\* Mutant of Known: files are opened by the first reload only.
KnownOnceOpened ==
  IF \E f \in Files : loaders[f] # "absent" THEN Files ELSE {}

Known == {f \in Files : loaders[f] # "absent"}

\* What start does once mkloaders has returned; cur is reset for readfrom.
StartReading(ls) ==
  /\ rrpc' = "next"
  /\ todo' = {f \in Files : ls[f] # "absent"}
  /\ cur' = 0

ListFiles ==
  /\ rrpc = "list"
  /\ \/ /\ rrpc' = "open" /\ todo' = dir
        /\ UNCHANGED <<cur, toSend>>
     \/ /\ FSMayFail
        /\ toSend' = <<Err(0, 0)>>
        /\ StartReading(loaders)
  /\ UNCHANGED <<streamVars, loaders, fds, mds, out, envVars>>

(***************************************************************************)
(* mkloader, for the files in order that have no entry in rr.loaders yet.  *)
(* A file that was opened once stays known, even when its reader has died. *)
(***************************************************************************)
MkLoader ==
  /\ rrpc = "open" /\ toSend = <<>>
  /\ todo \ Known # {}
  /\ LET f == Min(todo \ Known)
     IN  /\ todo' = todo \ {f}
         /\ \/ /\ loaders' = [loaders EXCEPT ![f] = "live"]
               /\ fds' = fds \cup {f}
               /\ UNCHANGED toSend
            \/ /\ FSMayFail
               /\ toSend' = <<Err(f, 0)>>
               /\ UNCHANGED <<loaders, fds>>
  /\ UNCHANGED <<streamVars, mds, rrpc, cur, out, envVars>>

MkLoadersDone ==
  /\ rrpc = "open" /\ toSend = <<>>
  /\ todo \subseteq Known
  /\ StartReading(loaders)
  /\ UNCHANGED <<streamVars, loaders, fds, mds, toSend, out, envVars>>

-----------------------------------------------------------------------------
\* The loaders that readfrom does not return from at once.
Live(fs) == {f \in fs : loaders[f] = "live"}

\* Mutant of NextFile: the names come in another order.
NextFileUnsorted == Max(Live(todo))

\* The next file of "for _, fn := range filenames", in sorted order.
NextFile == Min(Live(todo))

\* readfrom(NextFile): efr.Wake <- eventfile.Resume
ReadFrom ==
  /\ rrpc = "next"
  /\ toSend = <<>>
  /\ Live(todo) # {}
  /\ WakeUp(NextFile, "Resume")
  /\ cur' = NextFile
  /\ todo' = todo \ {NextFile}
  /\ rrpc' = "select"
  /\ UNCHANGED <<loaders, fds, mds, toSend, out, envVars>>

\* Mutant of SelectAsleep: "break" for "return", as after a fatal result.
SelectAsleepBreaks ==
  /\ rrpc = "select" /\ toSend = <<>>
  /\ TakeAsleep(cur)
  /\ UNCHANGED <<readerVars, out, envVars>>

SelectAsleep ==
  /\ rrpc = "select" /\ toSend = <<>>
  /\ TakeAsleep(cur)
  /\ rrpc' = "next"
  /\ UNCHANGED <<loaders, fds, mds, todo, cur, toSend, out, envVars>>

(***************************************************************************)
(* The "break" after a fatal result leaves the select statement, not the   *)
(* loop around it: the goroutine is back in the select afterwards.         *)
(***************************************************************************)
SelectResult ==
  /\ rrpc = "select" /\ toSend = <<>>
  /\ TakeResult(cur)
  /\ LET res == result[cur]
     IN  \/ /\ res.status = "fatal"
            /\ loaders' = [loaders EXCEPT ![cur] = "dead"]
            /\ toSend' = <<Err(cur, res.rec)>>
            /\ UNCHANGED mds
         \/ /\ res.status = "error"
            /\ toSend' = <<Err(cur, res.rec)>>
            /\ UNCHANGED <<loaders, mds>>
         \/ /\ res.status = "event"
            /\ LET ev == EventValues(content[cur][res.rec].values, mds)
               IN  /\ mds' = ev.mds
                   /\ toSend' = [i \in 1 .. Len(ev.values) |->
                                   Datum(cur, res.rec, ev.values[i])]
            /\ UNCHANGED loaders
  /\ UNCHANGED <<fds, rrpc, todo, cur, out, envVars>>

\* Mutant of HasRoom: one place too many.
HasRoomForMore == Len(out) <= ChanBuf

HasRoom == Len(out) < ChanBuf

\* rr.out <- ..., into the buffer or to the consumer that waits for it.
Send ==
  /\ toSend # <<>>
  /\ toSend' = Tail(toSend)
  /\ \/ /\ HasRoom
        /\ out' = Append(out, Head(toSend))
        /\ UNCHANGED <<consumer, taken>>
     \/ /\ out = <<>> /\ consumer = "recv"
        /\ consumer' = "busy"
        /\ taken' = Append(taken, Head(toSend))
        /\ UNCHANGED out
  /\ UNCHANGED <<streamVars, loaders, fds, mds, rrpc, todo, cur, dir, caller,
                 aborting, reloads, atReload>>

\* rr.asleep <- struct{}{}, received at the end of Reload.
ReloadReturn ==
  /\ rrpc = "next" /\ toSend = <<>>
  /\ Live(todo) = {}
  /\ caller = "waiting"
  /\ rrpc' = "idle" /\ todo' = {} /\ cur' = 0
  /\ caller' = "idle"
  /\ UNCHANGED <<streamVars, loaders, fds, mds, toSend, out, dir, consumer,
                 aborting, reloads, taken, atReload>>

-----------------------------------------------------------------------------
\* Mutant of Close: the goroutines of the event files are forgotten.
CloseWithoutAbort ==
  /\ caller = "idle"
  /\ caller' = "closed"
  /\ loaders' = [f \in Files |-> "absent"]
  /\ fds' = {}
  /\ UNCHANGED <<streamVars, mds, rrpc, todo, cur, toSend, out, dir, consumer,
                 aborting, reloads, taken, atReload>>

(***************************************************************************)
(* Close, which must not run concurrently with Reload.  The loading        *)
(* goroutine stays where it is: nothing closes its reload channel.         *)
(***************************************************************************)
Close ==
  /\ caller = "idle"
  /\ caller' = "closed"
  /\ aborting' = Live(Files)
  /\ loaders' = [f \in Files |-> "absent"]
  /\ fds' = {}
  /\ UNCHANGED <<streamVars, mds, rrpc, todo, cur, toSend, out, dir, consumer,
                 reloads, taken, atReload>>

\* A goroutine that Close has started: efr.Wake <- eventfile.Abort
Abort(f) ==
  /\ f \in aborting
  /\ WakeUp(f, "Abort")
  /\ aborting' = aborting \ {f}
  /\ UNCHANGED <<readerVars, out, dir, consumer, caller, reloads, taken, atReload>>

\* The consumer: "for dr := range acc.c", and what it does with dr.
Receive ==
  /\ consumer = "recv" /\ out # <<>>
  /\ consumer' = "busy"
  /\ taken' = Append(taken, Head(out))
  /\ out' = Tail(out)
  /\ UNCHANGED <<streamVars, readerVars, dir, caller, aborting, reloads, atReload>>

Consumed ==
  /\ consumer = "busy"
  /\ consumer' = "recv"
  /\ UNCHANGED <<streamVars, readerVars, out, dir, caller, aborting, reloads,
                 taken, atReload>>

-----------------------------------------------------------------------------
Loading == ListFiles \/ MkLoader \/ MkLoadersDone \/ ReadFrom \/ SelectAsleep
             \/ SelectResult \/ Send \/ ReloadReturn
Consumer == Receive \/ Consumed
Writer == \E f \in Files : CreateFile(f) \/ Append1(f)
Next ==
  \/ Writer \/ Loading \/ Consumer
  \/ Reload \/ Close
  \/ \E f \in Files : ReadFile(f) \/ Abort(f)

Spec == RunInit /\ [][Next]_vars

(***************************************************************************)
(* The Go scheduler runs every goroutine that can go on.  Nothing obliges  *)
(* the writer to write, nor the caller to call Reload or Close.            *)
(***************************************************************************)
FairSpec ==
  /\ Spec
  /\ WF_vars(Loading) /\ WF_vars(Consumer)
  /\ \A f \in Files : WF_vars(ReadFile(f)) /\ WF_vars(Abort(f))

-----------------------------------------------------------------------------
\* The types of the variables.
TypeOK ==
  /\ dir \subseteq Files
  /\ loaders \in [Files -> {"absent", "live", "dead"}]
  /\ fds \subseteq Files
  /\ rrpc \in {"idle", "list", "open", "next", "select"}
  /\ todo \subseteq Files
  /\ cur \in Files \cup {0}
  /\ (rrpc = "select") => (cur # 0)
  /\ Len(out) <= ChanBuf
  /\ consumer \in {"recv", "busy"}
  /\ caller \in {"idle", "waiting", "closed"}
  /\ aborting \subseteq Files

\* Everything that the loading goroutine has sent or is about to send, in order.
Sent == taken \o out \o toSend
FromFile(f, r) == IF r.file = f /\ r.rec > 0 THEN <<<<r.rec, r.tag>>>> ELSE <<>>
SentFrom(f) == FlattenSeq([i \in DOMAIN Sent |-> FromFile(f, Sent[i])])

\* What the results received from the goroutine of a file stand for.
ValueTags(c, res) ==
  IF res.status = "event"
  THEN [i \in DOMAIN c[res.rec].values |-> <<res.rec, c[res.rec].values[i].tag>>]
  ELSE IF res.rec > 0 THEN <<<<res.rec, "">>>> ELSE <<>>
Expected(f) ==
  FlattenSeq([i \in DOMAIN got[f] |-> ValueTags(content[f], got[f][i])])

(***************************************************************************)
(* Over all reloads, errors and closings, the values of a file come out    *)
(* once each and in file order, and so do the errors of its records: the   *)
(* records received are the first ones of the file, and every value of     *)
(* them, no other, has been sent.                                          *)
(***************************************************************************)
Relayed ==
  \A f \in Files :
    /\ \A i \in DOMAIN got[f] : got[f][i].rec \in {i, 0}
    /\ SentFrom(f) = Expected(f)

(***************************************************************************)
(* "Reload polls event files again and reads them to current EOF": when it *)
(* has returned, what was visible at the call has been read and all but    *)
(* what fits in the channel and the consumer's hands was processed.  A     *)
(* file can only be missing if an error that says so has been sent.        *)
(***************************************************************************)
ReadToEOF ==
  (caller = "idle" /\ reloads > 0) =>
    /\ toSend = <<>>
    /\ \A f \in Files : atReload[f] > 0 =>
         \/ loaders[f] = "live" /\ Len(got[f]) >= atReload[f]
         \/ /\ loaders[f] = "absent"
            /\ \E r \in ToSet(Sent) : r.file \in {0, f} /\ r.rec = 0

(***************************************************************************)
(* The store maps each tag to the metadata of the first value sent for it, *)
(* whatever the file: an accumulator that keeps the first metadata it sees *)
(* arrives at the store that decided how the later values were migrated.   *)
(***************************************************************************)
FirstMetadata ==
  mds = [t \in {r.tag : r \in ToSet(Sent)} \ {""} |->
           Sent[Min({i \in DOMAIN Sent : Sent[i].tag = t})].meta]

(***************************************************************************)
(* The files are read one at a time and, within a reload, in the order of  *)
(* their names, although they come out of a map: what a restarted program  *)
(* has logged to a later file preempts what an earlier file holds.         *)
(***************************************************************************)
OneFileInOrder ==
  [][/\ cur' \in Nat => cur' = 0 \/ cur' >= cur
     /\ \A f \in Files : pc'[f] \in {"read", "result", "sleep"} => f = cur']_vars

(***************************************************************************)
(* No goroutine reads a file that is not open, and none is left that Close *)
(* does not stop: one that waits for Wake is in rr.loaders, or an Abort is *)
(* on its way to it.                                                       *)
(***************************************************************************)
FileOpenWhileRead ==
  \A f \in Files :
    /\ pc[f] \in {"read", "result", "sleep"} => f \in fds
    /\ loaders[f] = "live" => f \in fds /\ pc[f] # "dead"
    /\ (pc[f] = "wait" /\ (next[f] > 1 \/ got[f] # <<>>)) =>
         loaders[f] = "live" \/ f \in aborting

(***************************************************************************)
(* "It blocks until the reload finishes": the reload does finish and the   *)
(* call returns.                                                           *)
(***************************************************************************)
ReloadReturns == (caller = "waiting") ~> (caller = "idle")

(***************************************************************************)
(* It does so unless a file has ended in a fatal result, however many      *)
(* other errors there are: a reload goes on with what it can read.         *)
(***************************************************************************)
ReloadReturnsUnlessFatal ==
  (caller = "waiting") ~> (caller = "idle" \/ \E f \in Files : loaders[f] = "dead")

(***************************************************************************)
(* Close lets every goroutine of an event file end, although they may all  *)
(* be blocked when it is called and it waits for none of them.             *)
(***************************************************************************)
ClosedReadersEnd == \A f \in Files : (f \in aborting) ~> (pc[f] = "dead")

(***************************************************************************)
(* Behind two reloads' worth of goroutines, channels and errors, the       *)
(* consumer of Out is handed what RunSource promises, as far as it has     *)
(* been sent; Close ends it.                                               *)
(***************************************************************************)
Source ==
  INSTANCE RunSource
    WITH place   <- [f \in Files |->
                      Cardinality({i \in DOMAIN got[f] : got[f][i].rec > 0})],
         ended   <- {f \in Files : \E r \in ToSet(got[f]) : r.status = "fatal"},
         turn    <- cur,
         calling <- caller = "waiting",
         results <- Sent
ImplementsRunSource == Source!Spec
=============================================================================
