--------------------------- MODULE RunReader_proofs ---------------------------
(***************************************************************************)
(* Proofs about the reader of a run (io/run/reader.go), for every set of   *)
(* event files and every contents of them, any capacity of the channel and *)
(* any number of reloads.                                                  *)
(*                                                                         *)
(* The invariants come in layers, each proved with the help of those       *)
(* before it: who may be where (Control), what a file's goroutine has read *)
(* and its owner received (Stream), how far a reload has come (Progress),  *)
(* what has been sent for it (Relay), and the metadata store (Metadata).   *)
(***************************************************************************)
EXTENDS RunReader, CommonLemmas

\* The values that the event files may hold, and what they can become.
Records == UNION {ToSet(c[f]) : c \in Contents, f \in Files}
FileValues == UNION {ToSet(r.values) : r \in Records}
Tags == TagsOf(FileValues)
Metas == MetasOf(FileValues)
MigratedValue == MigratedOf(FileValues)

\* An EventResult, and a ValueResult.
Result == [rec : Nat, status : {"none", "event", "error", "fatal"}]
ValueResult == [file : Files \cup {0}, rec : Nat, tag : Tags \cup {""}, meta : Metas]

\* The types of all variables.
Types ==
  /\ TypeOK
  /\ content \in Contents
  /\ visible \in [Files -> Nat] /\ next \in [Files -> Nat]
  /\ pc \in [Files -> PCs]
  /\ result \in [Files -> Result] /\ got \in [Files -> Seq(Result)]
  /\ toSend \in Seq(ValueResult) /\ out \in Seq(ValueResult)
  /\ taken \in Seq(ValueResult)
  /\ reloads \in Nat /\ atReload \in [Files -> Nat]

\* The goroutine of f has been told to go on, and is not asleep again.
Reading(f) == pc[f] \in {"read", "result", "sleep"}

(***************************************************************************)
(* Who may be where.  Only the file the loading goroutine is waiting for   *)
(* is being read; a file is dead only while that goroutine waits for it,   *)
(* in vain; and a goroutine outside rr.loaders has not begun, has ended,   *)
(* or will be aborted.                                                     *)
(***************************************************************************)
CallerState ==
  /\ rrpc = "idle" <=> caller # "waiting"
  /\ rrpc \in {"idle", "list"} => toSend = <<>>
  /\ rrpc \in {"idle", "list", "open"} => cur = 0
  /\ rrpc = "select" => cur \in Files
FileState(f) ==
  /\ Reading(f) => rrpc = "select" /\ cur = f /\ loaders[f] = "live"
  /\ loaders[f] = "live" => f \in fds /\ pc[f] # "dead"
  /\ loaders[f] = "dead" => pc[f] = "dead" /\ rrpc = "select" /\ cur = f
  /\ loaders[f] = "absent" =>
       \/ caller = "closed" /\ (f \in aborting \/ pc[f] = "dead")
       \/ pc[f] = "wait" /\ next[f] = 1 /\ got[f] = <<>>
  /\ f \in aborting => caller = "closed" /\ pc[f] = "wait"
  /\ caller = "closed" => loaders[f] = "absent"
  /\ (rrpc \in {"next", "select"} /\ f \in todo /\ loaders[f] = "live") => f > cur
Control == CallerState /\ \A f \in Files : FileState(f)

(***************************************************************************)
(* What the goroutine of f has read is what its owner has received, but    *)
(* for the result it holds: record after record, until an error ends it.   *)
(***************************************************************************)
FileStream(f) ==
  /\ visible[f] <= Len(content[f])
  /\ next[f] \in 1 .. Len(content[f]) + 1
  /\ pc[f] \in {"wait", "read", "sleep"} => next[f] = Len(got[f]) + 1
  /\ pc[f] = "result" =>
       \/ result[f].rec = 0 /\ result[f].status = "fatal" /\ next[f] = Len(got[f]) + 1
       \/ /\ result[f].rec = Len(got[f]) + 1 /\ next[f] = Len(got[f]) + 2
          /\ result[f].status = Status(content[f][result[f].rec])
  /\ \A i \in 1 .. Len(got[f]) :
       got[f][i].rec = i \/ (got[f][i].rec = 0 /\ pc[f] = "dead")
  /\ \A i \in 1 .. Len(got[f]) :
       /\ got[f][i].rec \in 0 .. Len(content[f])
       /\ got[f][i].rec = 0 => got[f][i].status = "fatal"
       /\ got[f][i].status = "fatal" => pc[f] = "dead"
Stream == \A f \in Files : FileStream(f)

(***************************************************************************)
(* How far a reload has come: a file that was visible when it began is to  *)
(* be opened, open, or given up with an error; and an open one is still to *)
(* be read or has been read as far as it was visible.                      *)
(***************************************************************************)
ErrorSent(f) == \E r \in ToSet(Sent) : r.file \in {0, f} /\ r.rec = 0
FileProgress(f) ==
  /\ visible[f] > 0 => f \in dir
  /\ atReload[f] <= visible[f]
  /\ pc[f] = "sleep" => next[f] > atReload[f]
  /\ (rrpc = "open" /\ atReload[f] > 0) =>
       f \in todo \/ loaders[f] # "absent" \/ ErrorSent(f)
  /\ (rrpc \in {"next", "select"} /\ atReload[f] > 0) =>
       loaders[f] # "absent" \/ ErrorSent(f)
  /\ (rrpc \in {"next", "select"} /\ loaders[f] = "live") =>
       \/ f \in todo \/ (rrpc = "select" /\ cur = f)
       \/ Len(got[f]) >= atReload[f]
  /\ (caller = "idle" /\ reloads > 0 /\ atReload[f] > 0) =>
       \/ loaders[f] = "live" /\ Len(got[f]) >= atReload[f]
       \/ loaders[f] = "absent" /\ ErrorSent(f)
Progress == \A f \in Files : FileProgress(f)

\* What has been sent for a file is what its results stand for.
Relay == \A f \in Files : SentFrom(f) = Expected(f)

-----------------------------------------------------------------------------
(***************************************************************************)
(* The files that the reader still has to come to have a first one.        *)
(***************************************************************************)
LEMMA NextFileIsFirst ==
  ASSUME Types, Live(todo) # {}
  PROVE  /\ NextFile \in Files /\ NextFile \in todo /\ loaders[NextFile] = "live"
         /\ \A f \in todo : loaders[f] = "live" => NextFile <= f
<1>1. Live(todo) \in SUBSET Nat /\ Live(todo) \subseteq Files
  BY RunAssumption DEF Types, TypeOK, Live
<1>2. NextFile \in Live(todo) /\ \A f \in Live(todo) : NextFile <= f
  BY <1>1, LeastNatural DEF NextFile
<1> QED
  BY <1>1, <1>2 DEF Live

\* The results that the values of an event become, with the store m.
Datums(c, f, i, m) ==
  LET ev == EventValues(c[f][i].values, m)
  IN  [j \in 1 .. Len(ev.values) |-> Datum(f, i, ev.values[j])]

(***************************************************************************)
(* The results made of an event are ValueResults of the record.            *)
(***************************************************************************)
LEMMA DatumsType ==
  ASSUME NEW m, NEW c \in Contents, NEW f \in Files, NEW i \in 1 .. Len(c[f])
  PROVE  c[f][i].values \in Seq(FileValues) /\ Datums(c, f, i, m) \in Seq(ValueResult)
<1>1. c[f] \in Seq(ToSet(c[f])) /\ c[f][i] \in ToSet(c[f])
  <2>1. c[f] \in Seq(ToSet(c[f]))
    BY ContentsAssumption
  <2> QED
    BY <2>1, LenProperties, ElementOfSeq
<1>2. c[f][i].values \in Seq(FileValues)
  <2>1. c[f][i].values \in Seq(ToSet(c[f][i].values))
    BY <1>1, ContentsAssumption
  <2>2. ToSet(c[f][i].values) \subseteq FileValues
    <3>1. c[f][i] \in Records
      BY <1>1 DEF Records
    <3> QED
      BY <3>1 DEF FileValues
  <2> QED
    BY <2>1, <2>2, SeqMonotonic, Zenon
<1> DEFINE vs == EventValues(c[f][i].values, m).values
           ds == [j \in 1 .. Len(vs) |-> Datum(f, i, vs[j])]
<1>3. vs \in Seq(MigratedValue)
  BY <1>2, EventValuesType DEF MigratedValue
<1>4. i \in Nat /\ Len(vs) \in Nat
  <2>1. Len(c[f]) \in Nat
    BY <1>1, LenProperties
  <2> QED
    BY <1>3, <2>1, LenProperties
<1> HIDE DEF vs
<1>5. \A j \in 1 .. Len(vs) : Datum(f, i, vs[j]) \in ValueResult
  <2>1. \A j \in 1 .. Len(vs) : vs[j] \in MigratedValue
    BY <1>3, ElementOfSeq
  <2> QED
    BY <1>4, <2>1 DEF Datum, ValueResult, MigratedValue, MigratedOf, Tags, Metas
<1>6. ds \in [1 .. Len(vs) -> ValueResult]
  BY <1>5
<1> HIDE DEF ds
<1>7. ds \in Seq(ValueResult)
  BY <1>4, <1>6, SeqOfFunction
<1> QED
  BY <1>2, <1>7 DEF vs, ds, Datums

(***************************************************************************)
(* There is one for every value, with the tag of that.                     *)
(***************************************************************************)
LEMMA DatumsTags ==
  ASSUME NEW m, NEW c \in Contents, NEW f \in Files, NEW i \in 1 .. Len(c[f])
  PROVE  /\ Len(Datums(c, f, i, m)) = Len(c[f][i].values)
         /\ \A j \in 1 .. Len(c[f][i].values) :
              /\ Datums(c, f, i, m)[j].file = f /\ Datums(c, f, i, m)[j].rec = i
              /\ Datums(c, f, i, m)[j].tag = c[f][i].values[j].tag
<1> DEFINE us == c[f][i].values
           vs == EventValues(us, m).values
           ds == [j \in 1 .. Len(vs) |-> Datum(f, i, vs[j])]
<1>1. us \in Seq(FileValues)
  BY DatumsType
<1>b. Becomes(us, vs) /\ Len(us) \in Nat
  BY <1>1, EventValuesType, LenProperties
<1> HIDE DEF us, vs
<1>2. /\ Len(vs) = Len(us) /\ \A j \in 1 .. Len(us) : vs[j].tag = us[j].tag
      /\ Len(us) \in Nat
  BY <1>b DEF Becomes
<1>3. \A j \in 1 .. Len(us) : ds[j] = Datum(f, i, vs[j])
  BY <1>2
<1>4. \A j \in 1 .. Len(us) :
        ds[j].file = f /\ ds[j].rec = i /\ ds[j].tag = us[j].tag
  BY <1>2, <1>3 DEF Datum
<1>5. Len(ds) = Len(us)
  BY <1>2
<1> HIDE DEF ds
<1> QED
  BY <1>4, <1>5 DEF Datums, us, vs, ds

-----------------------------------------------------------------------------
(***************************************************************************)
(* Errors are ValueResults.                                                *)
(***************************************************************************)
LEMMA ErrType ==
  ASSUME NEW f \in Files \cup {0}, NEW i \in Nat
  PROVE  Err(f, i) \in ValueResult
<1>1. NoMeta \in Metas
  <2>1. NoMeta \in {NoMeta, GraphMeta}
    OBVIOUS
  <2> QED
    BY <2>1, SMT DEF Metas, MetasOf
<1> QED
  BY <1>1 DEF Err, ValueResult

(***************************************************************************)
(* A result that holds an event is about a record of the file.             *)
(***************************************************************************)
LEMMA HeldRecord ==
  ASSUME Types, NEW f \in Files, FileStream(f), pc[f] = "result",
         result[f].status = "event"
  PROVE  result[f].rec \in 1 .. Len(content[f])
<1>1. Len(content[f]) \in Nat /\ Len(got[f]) \in Nat
  <2>1. content[f] \in Seq(ToSet(content[f]))
    BY ContentsAssumption DEF Types
  <2>2. got[f] \in Seq(Result)
    BY DEF Types
  <2> QED
    BY <2>1, <2>2, LenProperties, Zenon
<1>2. next[f] <= Len(content[f]) + 1 /\ next[f] \in Nat
  BY <1>1 DEF FileStream, Types
<1>3. result[f].rec = Len(got[f]) + 1 /\ next[f] = Len(got[f]) + 2
  BY DEF FileStream
<1> QED
  BY <1>1, <1>2, <1>3

-----------------------------------------------------------------------------
(***************************************************************************)
(* The types hold at first, and every step keeps them.  Control is needed  *)
(* for the file a result comes from, Stream for its place in the file.     *)
(***************************************************************************)
LEMMA TypesInit == RunInit => Types
BY RunAssumption, EmptySeq
   DEF RunInit, StreamInit, Types, TypeOK, PCs, Result, NoResult

(***************************************************************************)
(* Every step keeps the types.                                             *)
(***************************************************************************)
LEMMA TypesStep ==
  ASSUME Types, Control, Stream, [Next]_vars
  PROVE  Types'
<1> USE DEF Types, TypeOK
<1>1. ASSUME NEW f \in Files, CreateFile(f)
      PROVE  Types'
  BY <1>1 DEF CreateFile, streamVars, readerVars
<1>2. ASSUME NEW f \in Files, Append1(f)
      PROVE  Types'
  BY <1>2, SMTT(30) DEF Append1, Write, readerVars, envVars
<1>a. \A f \in Files \cup {0}, i \in Nat : <<Err(f, i)>> \in Seq(ValueResult)
  BY ErrType
<1>3. CASE ListFiles
  <2>1. toSend' \in Seq(ValueResult)
    BY <1>3, <1>a DEF ListFiles
  <2> QED
    BY <1>3, <2>1 DEF ListFiles, StartReading, streamVars, envVars
<1>4. CASE MkLoader
  <2> DEFINE f == Min(todo \ Known)
  <2>1. f \in Files
    <3>1. todo \ Known \in SUBSET Nat /\ todo \ Known # {}
      BY <1>4, RunAssumption DEF MkLoader
    <3> QED
      BY <3>1, LeastNatural
  <2>2. toSend' \in Seq(ValueResult)
    BY <1>4, <1>a, <2>1, ZenonT(40) DEF MkLoader
  <2> QED
    BY <1>4, <2>1, <2>2 DEF MkLoader, streamVars, envVars
<1>5. CASE MkLoadersDone
  BY <1>5 DEF MkLoadersDone, StartReading, streamVars, envVars
<1>6. CASE ReadFrom
  <2>1. NextFile \in Files
    BY <1>6, NextFileIsFirst DEF ReadFrom
  <2>2. NextFile # 0
    BY <2>1, RunAssumption
  <2>3. pc' = [pc EXCEPT ![NextFile] = "read"]
    BY <1>6 DEF ReadFrom, WakeUp
  <2> QED
    BY <1>6, <2>1, <2>2, <2>3 DEF ReadFrom, WakeUp, PCs, envVars
<1>7. CASE SelectAsleep
  BY <1>7 DEF SelectAsleep, TakeAsleep, PCs, envVars
<1>8. CASE SelectResult
  <2> DEFINE res == result[cur]
             ds  == Datums(content, cur, res.rec, mds)
  <2>1. cur \in Files /\ pc[cur] = "result" /\ res \in Result
    BY <1>8 DEF SelectResult, Control, CallerState, TakeResult
  <2>2. Append(got[cur], res) \in Seq(Result)
    BY <2>1, AppendProperties
  <2>3. res.status = "event" => ds \in Seq(ValueResult)
    <3> SUFFICES ASSUME res.status = "event"
                 PROVE  ds \in Seq(ValueResult)
      OBVIOUS
    <3>1. res.rec \in 1 .. Len(content[cur])
      BY <2>1, HeldRecord DEF Stream
    <3>2. content \in Contents
      OBVIOUS
    <3> QED
      BY <2>1, <3>1, <3>2, DatumsType, Zenon
  <2>4. toSend' \in Seq(ValueResult)
    <3>1. res.rec \in Nat /\ <<Err(cur, res.rec)>> \in Seq(ValueResult)
      BY <1>a, <2>1 DEF Result
    <3>2. toSend' = <<Err(cur, res.rec)>> \/ (res.status = "event" /\ toSend' = ds)
      BY <1>8, Zenon DEF SelectResult, Datums
    <3> QED
      BY <2>3, <3>1, <3>2, Zenon
  <2>5. /\ got' \in [Files -> Seq(Result)] /\ result' \in [Files -> Result]
        /\ pc' \in [Files -> PCs]
    BY <1>8, <2>1, <2>2 DEF SelectResult, TakeResult, PCs, NoResult, Result
  <2> HIDE DEF ds
  <2> QED
    BY <1>8, <2>1, <2>4, <2>5 DEF SelectResult, TakeResult, envVars
<1>9. CASE Send
  <2>1. Head(toSend) \in ValueResult /\ Tail(toSend) \in Seq(ValueResult)
    BY <1>9, HeadTailProperties DEF Send
  <2>2. /\ Append(out, Head(toSend)) \in Seq(ValueResult)
        /\ Append(taken, Head(toSend)) \in Seq(ValueResult)
        /\ Len(Append(out, Head(toSend))) = Len(out) + 1 /\ Len(out) \in Nat
    BY <2>1, AppendProperties, LenProperties
  <2>3. toSend' \in Seq(ValueResult)
    BY <1>9, <2>1 DEF Send
  <2>4. \/ out' = Append(out, Head(toSend)) /\ Len(out) < ChanBuf /\ taken' = taken
        \/ out' = out /\ taken' = Append(taken, Head(toSend))
    BY <1>9 DEF Send, HasRoom
  <2>5. /\ taken' \in Seq(ValueResult) /\ out' \in Seq(ValueResult)
        /\ Len(out') <= ChanBuf
    <3>1. ChanBuf \in Nat
      BY RunAssumption
    <3> HIDE DEF Types, TypeOK
    <3>2. /\ taken \in Seq(ValueResult) /\ out \in Seq(ValueResult) /\ Len(out) <= ChanBuf
      BY DEF Types, TypeOK
    <3>3. CASE out' = out
      BY <2>2, <2>4, <3>2, <3>3
    <3>4. CASE out' = Append(out, Head(toSend)) /\ Len(out) < ChanBuf /\ taken' = taken
      BY <2>2, <3>1, <3>2, <3>4
    <3> QED
      BY <2>4, <3>3, <3>4
  <2>6. consumer' \in {"recv", "busy"}
    BY <1>9 DEF Send
  <2> QED
    BY <1>9, <2>3, <2>5, <2>6 DEF Send, streamVars
<1>10. CASE ReloadReturn
  BY <1>10 DEF ReloadReturn, streamVars
<1>11. CASE Receive
  <2>1. /\ Head(out) \in ValueResult /\ Tail(out) \in Seq(ValueResult)
        /\ Len(Tail(out)) = Len(out) - 1 /\ Len(out) \in Nat
    BY <1>11, HeadTailProperties, LenProperties DEF Receive
  <2>2. Append(taken, Head(out)) \in Seq(ValueResult)
    BY <2>1, AppendProperties
  <2>3. Len(out') <= ChanBuf
    BY <1>11, <2>1, RunAssumption DEF Receive
  <2> QED
    BY <1>11, <2>1, <2>2, <2>3 DEF Receive, streamVars, readerVars
<1>12. CASE Consumed
  BY <1>12 DEF Consumed, streamVars, readerVars
<1>13. CASE Reload
  BY <1>13 DEF Reload, streamVars
<1>14. CASE Close
  BY <1>14 DEF Close, streamVars, Live
<1>15. ASSUME NEW f \in Files, ReadFile(f)
       PROVE  Types'
  <2>1. Status(content[f][next[f]]) \in {"event", "error", "fatal"}
    BY DEF Status
  <2>2. CASE ReadRecord(f)
    BY <1>15, <2>1, <2>2 DEF ReadFile, ReadRecord, SetResult, PCs, readerVars, envVars,
       Result
  <2>3. CASE ReadEOF(f)
    BY <1>15, <2>3 DEF ReadFile, ReadEOF, PCs, readerVars, envVars
  <2>4. CASE ReadError(f)
    BY <1>15, <2>4 DEF ReadFile, ReadError, SetResult, PCs, readerVars, envVars, Result
  <2> QED
    BY <1>15, <2>2, <2>3, <2>4 DEF ReadFile
<1>16. ASSUME NEW f \in Files, Abort(f)
       PROVE  Types'
  BY <1>16 DEF Abort, WakeUp, PCs, readerVars
<1>17. CASE UNCHANGED vars
  BY <1>17 DEF vars, streamVars, readerVars, envVars
<1> QED
  BY <1>1, <1>2, <1>3, <1>4, <1>5, <1>6, <1>7, <1>8, <1>9, <1>10, <1>11, <1>12,
     <1>13, <1>14, <1>15, <1>16, <1>17
     DEF Next, Writer, Loading, Consumer

-----------------------------------------------------------------------------
(***************************************************************************)
(* Control holds at first, when no goroutine has begun.                    *)
(***************************************************************************)
LEMMA ControlInit == RunInit => Control
BY DEF RunInit, StreamInit, Control, CallerState, FileState, Reading

(***************************************************************************)
(* Every step keeps the callers in step with the loading goroutine, ...    *)
(***************************************************************************)
LEMMA CallerStep ==
  ASSUME Types, Control, [Next]_vars
  PROVE  CallerState'
<1> USE DEF Control, CallerState
<1>1. CASE UNCHANGED <<rrpc, caller, toSend, cur>>
  BY <1>1
<1>2. CASE ListFiles
  BY <1>2 DEF ListFiles, StartReading, envVars
<1>3. CASE MkLoader
  BY <1>3 DEF MkLoader, envVars
<1>4. CASE MkLoadersDone
  BY <1>4 DEF MkLoadersDone, StartReading, envVars
<1>5. CASE ReadFrom
  BY <1>5, NextFileIsFirst DEF ReadFrom, envVars
<1>6. CASE SelectAsleep
  BY <1>6 DEF SelectAsleep, envVars
<1>7. CASE SelectResult
  BY <1>7 DEF SelectResult, envVars
<1>8. CASE Send
  BY <1>8 DEF Send
<1>9. CASE ReloadReturn
  BY <1>9 DEF ReloadReturn
<1>10. CASE Reload
  BY <1>10 DEF Reload
<1>11. CASE Close
  BY <1>11 DEF Close
<1>12. ASSUME NEW f \in Files, CreateFile(f) \/ Append1(f) \/ ReadFile(f) \/ Abort(f)
       PROVE  UNCHANGED <<rrpc, caller, toSend, cur>>
  BY <1>12, Zenon
     DEF CreateFile, Append1, ReadFile, Abort, readerVars, envVars
<1>13. ASSUME Receive \/ Consumed \/ UNCHANGED vars
       PROVE  UNCHANGED <<rrpc, caller, toSend, cur>>
  BY <1>13, Zenon DEF Receive, Consumed, vars, readerVars, envVars
<1> QED
  BY <1>1, <1>2, <1>3, <1>4, <1>5, <1>6, <1>7, <1>8, <1>9, <1>10, <1>11, <1>12,
     <1>13
     DEF Next, Writer, Loading, Consumer

(***************************************************************************)
(* ... and each file in the place that its goroutine's state calls for.    *)
(***************************************************************************)
LEMMA FileStateStep ==
  ASSUME Types, Control, Stream, [Next]_vars, NEW g \in Files
  PROVE  FileState(g)'
<1> DEFINE Place == <<pc, rrpc, cur, loaders, fds, aborting, next, got, caller, todo>>
<1>a. /\ FileState(g) /\ CallerState
      /\ pc \in [Files -> PCs]
      /\ loaders \in [Files -> {"absent", "live", "dead"}]
      /\ next \in [Files -> Nat] /\ got \in [Files -> Seq(Result)]
      /\ g \in Nat /\ g > 0
  BY RunAssumption, SMTT(30) DEF Control, Types, TypeOK
<1>1. CASE UNCHANGED Place
  BY <1>a, <1>1 DEF FileState, Reading
<1>2. CASE ListFiles
  BY <1>a, <1>2 DEF FileState, Reading, CallerState, ListFiles, StartReading,
     streamVars, envVars
<1>3. CASE MkLoader
  <2>1. \/ UNCHANGED loaders /\ fds' = fds
        \/ \E f \in Files : /\ loaders[f] = "absent" /\ fds' = fds \cup {f}
                            /\ loaders' = [loaders EXCEPT ![f] = "live"]
    <3>1. todo \ Known \in SUBSET Nat /\ todo \ Known # {} /\ todo \subseteq Files
      BY <1>3, RunAssumption DEF MkLoader, Types, TypeOK
    <3>2. Min(todo \ Known) \in Files /\ Min(todo \ Known) \notin Known
      BY <3>1, LeastNatural
    <3>3. loaders[Min(todo \ Known)] = "absent"
      BY <3>2 DEF Known
    <3> QED
      BY <1>3, <3>2, <3>3 DEF MkLoader
  <2>2. /\ rrpc = "open" /\ UNCHANGED <<pc, rrpc, cur, next, got, caller, aborting>>
    BY <1>3 DEF MkLoader, streamVars, envVars
  <2> QED
    BY <1>a, <2>1, <2>2 DEF FileState, Reading, CallerState
<1>4. CASE MkLoadersDone
  BY <1>a, <1>4 DEF FileState, Reading, CallerState, MkLoadersDone, StartReading,
     streamVars, envVars
<1>5. CASE ReadFrom
  <2>1. /\ NextFile \in Files /\ loaders[NextFile] = "live"
        /\ (g \in todo /\ loaders[g] = "live") => NextFile <= g
        /\ NextFile \in Nat
    BY <1>5, NextFileIsFirst, RunAssumption DEF ReadFrom
  <2>2. /\ pc[NextFile] = "wait" /\ pc' = [pc EXCEPT ![NextFile] = "read"]
        /\ cur' = NextFile /\ todo' = todo \ {NextFile}
        /\ rrpc = "next" /\ rrpc' = "select"
        /\ UNCHANGED <<loaders, fds, aborting, next, got, caller>>
    BY <1>5 DEF ReadFrom, WakeUp, envVars
  <2> QED
    BY <1>a, <2>1, <2>2 DEF FileState, Reading, CallerState
<1>6. CASE SelectAsleep
  BY <1>a, <1>6 DEF FileState, Reading, CallerState, SelectAsleep, TakeAsleep, envVars
<1>7. CASE SelectResult
  BY <1>a, <1>7 DEF FileState, Reading, CallerState, SelectResult, TakeResult, envVars
<1>8. CASE ReloadReturn
  <2>1. /\ rrpc = "next" /\ rrpc' = "idle" /\ caller = "waiting" /\ caller' = "idle"
        /\ UNCHANGED <<pc, loaders, fds, aborting, next, got>>
    BY <1>8 DEF ReloadReturn, streamVars
  <2> QED
    BY <1>a, <2>1 DEF FileState, Reading
<1>9. CASE Reload
  BY <1>a, <1>9 DEF FileState, Reading, CallerState, Reload, streamVars
<1>10. CASE Close
  <2>1. /\ caller = "idle" /\ caller' = "closed" /\ rrpc = "idle"
        /\ loaders'[g] = "absent" /\ (g \in aborting' <=> loaders[g] = "live")
        /\ UNCHANGED <<pc, rrpc, cur, todo, next, got>>
    BY <1>a, <1>10 DEF Close, streamVars, Live, CallerState
  <2>2. /\ loaders[g] = "live" => pc[g] = "wait"
        /\ loaders[g] # "live" => pc[g] = "wait" /\ next[g] = 1 /\ got[g] = <<>>
    BY <1>a, <2>1 DEF FileState, Reading, PCs
  <2> QED
    BY <2>1, <2>2 DEF FileState, Reading
<1>11. ASSUME NEW f \in Files, ReadFile(f)
       PROVE  FileState(g)'
  BY <1>a, <1>11 DEF FileState, Reading, CallerState, ReadFile, ReadRecord, ReadEOF,
     ReadError, SetResult, readerVars, envVars
<1>12. ASSUME NEW f \in Files, Abort(f)
       PROVE  FileState(g)'
  BY <1>a, <1>12 DEF FileState, Reading, CallerState, Abort, WakeUp, readerVars
<1>13. ASSUME NEW f \in Files, CreateFile(f) \/ Append1(f)
       PROVE  UNCHANGED Place
  BY <1>13, Zenon
     DEF CreateFile, Append1, Write, readerVars, envVars, streamVars
<1>14. ASSUME Receive \/ Consumed \/ Send \/ UNCHANGED vars
       PROVE  UNCHANGED Place
  BY <1>14, Zenon DEF Receive, Consumed, Send, vars, readerVars, envVars, streamVars
<1> HIDE DEF Place
<1> QED
  BY <1>1, <1>2, <1>3, <1>4, <1>5, <1>6, <1>7, <1>8, <1>9, <1>10, <1>11, <1>12,
     <1>13, <1>14, Zenon
     DEF Next, Writer, Loading, Consumer

(***************************************************************************)
(* Both together.                                                          *)
(***************************************************************************)
LEMMA ControlStep ==
  ASSUME Types, Control, Stream, [Next]_vars
  PROVE  Control'
<1>1. CallerState'
  BY CallerStep
<1>2. \A g \in Files : FileState(g)'
  BY FileStateStep
<1> QED
  BY <1>1, <1>2 DEF Control

-----------------------------------------------------------------------------
(***************************************************************************)
(* At first nothing is visible, read or received.                          *)
(***************************************************************************)
LEMMA StreamHolds == RunInit => Stream
<1> SUFFICES ASSUME RunInit, NEW g \in Files
             PROVE  FileStream(g)
  BY DEF Stream
<1>1. content[g] \in Seq(ToSet(content[g]))
  BY ContentsAssumption DEF RunInit, StreamInit
<1>2. Len(content[g]) \in Nat
  BY <1>1, LenProperties
<1> QED
  BY <1>2, EmptySeq DEF RunInit, StreamInit, FileStream

(***************************************************************************)
(* Each step of a goroutine and of its owner keeps what is read in step    *)
(* with what is received.                                                  *)
(***************************************************************************)
LEMMA StreamStep ==
  ASSUME Types, Control, Stream, [Next]_vars
  PROVE  Stream'
<1> SUFFICES ASSUME NEW g \in Files
             PROVE  FileStream(g)'
  BY DEF Stream
<1>a. /\ Len(content[g]) \in Nat /\ Len(got[g]) \in Nat
      /\ visible \in [Files -> Nat] /\ next \in [Files -> Nat]
      /\ pc \in [Files -> PCs] /\ result \in [Files -> Result]
      /\ got \in [Files -> Seq(Result)]
  <2>1. content[g] \in Seq(ToSet(content[g]))
    BY ContentsAssumption DEF Types
  <2>2. got[g] \in Seq(Result)
    BY DEF Types
  <2> QED
    BY <2>1, <2>2, LenProperties, Zenon DEF Types
<1>b. FileStream(g)
  BY DEF Stream
<1>1. CASE UNCHANGED streamVars
  BY <1>b, <1>1 DEF FileStream, streamVars
<1>2. ASSUME NEW f \in Files, Write(f)
      PROVE  FileStream(g)'
  BY <1>a, <1>b, <1>2 DEF Write, FileStream
<1>3. ASSUME NEW f \in Files, ReadRecord(f)
      PROVE  FileStream(g)'
  BY <1>a, <1>b, <1>3 DEF ReadRecord, SetResult, FileStream
<1>4. ASSUME NEW f \in Files, ReadEOF(f)
      PROVE  FileStream(g)'
  BY <1>a, <1>b, <1>4 DEF ReadEOF, FileStream
<1>5. ASSUME NEW f \in Files, ReadError(f)
      PROVE  FileStream(g)'
  BY <1>a, <1>b, <1>5 DEF ReadError, SetResult, FileStream
<1>6. ASSUME NEW f \in Files, NEW a, WakeUp(f, a)
      PROVE  FileStream(g)'
  BY <1>a, <1>b, <1>6 DEF WakeUp, FileStream
<1>7. ASSUME NEW f \in Files, TakeAsleep(f)
      PROVE  FileStream(g)'
  BY <1>a, <1>b, <1>7 DEF TakeAsleep, FileStream
<1>8. ASSUME NEW f \in Files, TakeResult(f)
      PROVE  FileStream(g)'
  <2>1. CASE g # f
    BY <1>a, <1>b, <1>8, <2>1 DEF TakeResult, FileStream
  <2>2. CASE g = f
    <3>1. /\ pc[g] = "result" /\ got'[g] = Append(got[g], result[g])
          /\ pc'[g] = IF result[g].status = "fatal" THEN "dead" ELSE "read"
          /\ UNCHANGED <<content, visible, next>>
      BY <1>a, <1>8, <2>2 DEF TakeResult
    <3>2. /\ Len(got'[g]) = Len(got[g]) + 1
          /\ \A i \in 1 .. Len(got[g]) : got'[g][i] = got[g][i]
          /\ got'[g][Len(got[g]) + 1] = result[g]
      BY <1>a, <3>1, AppendProperties
    <3>3. \A i \in 1 .. Len(got'[g]) : i \in 1 .. Len(got[g]) \/ i = Len(got[g]) + 1
      BY <1>a, <3>2
    <3>4. /\ next[g] = Len(got'[g]) + 1 \/ pc'[g] = "dead"
          /\ result[g].rec = Len(got[g]) + 1 \/ (result[g].rec = 0 /\ pc'[g] = "dead")
          /\ result[g].rec \in 0 .. Len(content[g])
          /\ result[g].rec = 0 => result[g].status = "fatal"
          /\ result[g].status = "fatal" => pc'[g] = "dead"
      BY <1>a, <1>b, <3>1, <3>2, SMTT(30) DEF FileStream
    <3>5. \A i \in 1 .. Len(got[g]) : got[g][i].rec = i
      BY <1>b, <3>1 DEF FileStream
    <3>6. pc'[g] \in {"dead", "read"}
      BY <3>1
    <3>7. /\ visible'[g] <= Len(content'[g])
          /\ next'[g] \in 1 .. Len(content'[g]) + 1
          /\ pc'[g] # "dead" => next'[g] = Len(got'[g]) + 1
      BY <1>b, <3>1, <3>4 DEF FileStream
    <3>8. \A i \in 1 .. Len(got'[g]) :
            got'[g][i].rec = i \/ (got'[g][i].rec = 0 /\ pc'[g] = "dead")
      BY <3>2, <3>3, <3>4, <3>5
    <3>9. \A i \in 1 .. Len(got'[g]) :
            /\ got'[g][i].rec \in 0 .. Len(content'[g])
            /\ got'[g][i].rec = 0 => got'[g][i].status = "fatal"
            /\ got'[g][i].status = "fatal" => pc'[g] = "dead"
      BY <1>b, <3>1, <3>2, <3>3, <3>4 DEF FileStream
    <3> QED
      BY <3>6, <3>7, <3>8, <3>9 DEF FileStream
  <2> QED
    BY <2>1, <2>2
<1>9. CASE SelectResult
  BY <1>8, <1>9 DEF SelectResult, Control, CallerState
<1>10. CASE SelectAsleep
  BY <1>7, <1>10 DEF SelectAsleep, Control, CallerState
<1>11. CASE ReadFrom
  BY <1>6, <1>11, NextFileIsFirst DEF ReadFrom
<1>12. ASSUME ListFiles \/ MkLoader \/ MkLoadersDone \/ Send \/ ReloadReturn \/ Receive
              \/ Consumed \/ Reload \/ Close \/ (\E f \in Files : CreateFile(f))
              \/ UNCHANGED vars
       PROVE  UNCHANGED streamVars
  BY <1>12, Zenon DEF ListFiles, MkLoader, MkLoadersDone, Send, ReloadReturn, Receive,
     Consumed, Reload, Close, CreateFile, vars
<1> QED
  BY <1>1, <1>2, <1>3, <1>4, <1>5, <1>6, <1>7, <1>9, <1>10, <1>11, <1>12, Zenon
     DEF Next, Writer, Loading, Consumer, Append1, ReadFile, Abort

-----------------------------------------------------------------------------
(***************************************************************************)
(* Results pass from the goroutine to the channel and to the consumer in   *)
(* their order; a step only adds new ones, when the old ones have all been *)
(* sent.                                                                   *)
(***************************************************************************)
LEMMA SentGrows ==
  ASSUME Types, Control, [Next]_vars
  PROVE  /\ Sent \in Seq(ValueResult)
         /\ Sent' = Sent \/ ListFiles \/ MkLoader \/ SelectResult
         /\ ListFiles \/ MkLoader \/ SelectResult => Sent' = Sent \o toSend'
<1> DEFINE Q == Seq(ValueResult)
<1>a. taken \in Q /\ out \in Q /\ toSend \in Q
  BY DEF Types
<1>b. taken \o out \in Q /\ Sent \in Q
  BY <1>a, ConcatProperties DEF Sent
<1>1. ASSUME UNCHANGED <<taken, out, toSend>>
      PROVE  Sent' = Sent
  BY <1>1 DEF Sent
<1>2. ASSUME UNCHANGED <<taken, out>>, toSend = <<>>
      PROVE  Sent' = Sent \o toSend'
  <2>1. Sent = taken \o out
    BY <1>b, <1>2, ConcatEmptySeq DEF Sent
  <2> QED
    BY <1>2, <2>1 DEF Sent
<1>3. ASSUME Send
      PROVE  Sent' = Sent
  <2>1. toSend # <<>> /\ toSend' = Tail(toSend) /\ Head(toSend) \in ValueResult
    BY <1>a, <1>3, HeadTailProperties DEF Send
  <2>2. CASE taken' = taken /\ out' = Append(out, Head(toSend))
    <3>1. Append(out, Head(toSend)) \o Tail(toSend) = out \o toSend
      BY <1>a, <2>1, PassOn
    <3>2. Append(out, Head(toSend)) \in Q /\ Tail(toSend) \in Q
      BY <1>a, <2>1, AppendProperties, HeadTailProperties
    <3>3. Sent' = taken \o (Append(out, Head(toSend)) \o Tail(toSend))
      <4>1. Sent' = (taken \o Append(out, Head(toSend))) \o Tail(toSend)
        BY <2>1, <2>2 DEF Sent
      <4>2. \A a, b, c \in Q : (a \o b) \o c = a \o (b \o c)
        BY ConcatAssociative
      <4> HIDE DEF Q
      <4> QED
        BY <1>a, <3>2, <4>1, <4>2
    <3>4. Sent = taken \o (out \o toSend)
      BY <1>a, ConcatAssociative DEF Sent
    <3> QED
      BY <3>1, <3>3, <3>4
  <2>3. CASE out = <<>> /\ out' = <<>> /\ taken' = Append(taken, Head(toSend))
    <3>1. Append(taken, Head(toSend)) \o Tail(toSend) = taken \o toSend
      BY <1>a, <2>1, PassOn
    <3>2. Append(taken, Head(toSend)) \in Q
      BY <1>a, <2>1, AppendProperties
    <3>3. taken' \o out' = Append(taken, Head(toSend)) /\ taken \o out = taken
      BY <1>a, <2>3, <3>2, ConcatEmptySeq
    <3> QED
      BY <2>1, <3>1, <3>3 DEF Sent
  <2> QED
    BY <1>3, <2>2, <2>3 DEF Send
<1>4. ASSUME Receive
      PROVE  Sent' = Sent
  <2>1. out # <<>> /\ taken' = Append(taken, Head(out)) /\ out' = Tail(out)
        /\ toSend' = toSend
    BY <1>4 DEF Receive, readerVars
  <2>2. Append(taken, Head(out)) \o Tail(out) = taken \o out
    BY <1>a, <2>1, PassOn
  <2> QED
    BY <2>1, <2>2 DEF Sent
<1>5. ASSUME ListFiles
      PROVE  Sent' = Sent \o toSend'
  BY <1>2, <1>5 DEF ListFiles, envVars, Control, CallerState
<1>6. ASSUME MkLoader
      PROVE  Sent' = Sent \o toSend'
  BY <1>2, <1>6 DEF MkLoader, envVars
<1>7. ASSUME SelectResult
      PROVE  Sent' = Sent \o toSend'
  BY <1>2, <1>7 DEF SelectResult, envVars
<1>8. \/ Send \/ Receive \/ ListFiles \/ MkLoader \/ SelectResult
      \/ UNCHANGED <<taken, out, toSend>>
  BY Zenon DEF Next, Writer, Loading, Consumer, CreateFile, Append1, ReadFile, Abort,
     MkLoadersDone, ReadFrom, SelectAsleep, ReloadReturn, Consumed, Reload, Close, vars,
     readerVars, envVars
<1> QED
  BY <1>b, <1>1, <1>3, <1>4, <1>5, <1>6, <1>7, <1>8, Zenon

(***************************************************************************)
(* What has been sent stays so, and what was added has been sent.          *)
(***************************************************************************)
LEMMA SentElements ==
  ASSUME Types, Control, [Next]_vars, Types'
  PROVE  /\ ToSet(Sent) \subseteq ToSet(Sent')
         /\ ListFiles \/ MkLoader \/ SelectResult => ToSet(toSend') \subseteq ToSet(Sent')
<1>1. Sent \in Seq(ValueResult) /\ toSend' \in Seq(ValueResult)
  BY SentGrows DEF Types
<1>2. ToSet(Sent \o toSend') = ToSet(Sent) \cup ToSet(toSend')
  BY <1>1, ElementsOfConcat
<1>3. CASE Sent' = Sent \o toSend'
  BY <1>2, <1>3
<1>4. CASE Sent' = Sent /\ ~ (ListFiles \/ MkLoader \/ SelectResult)
  BY <1>4, Zenon
<1> QED
  BY <1>3, <1>4, SentGrows, Zenon

(***************************************************************************)
(* So an error that has been sent stays so, ...                            *)
(***************************************************************************)
LEMMA ErrorStaysSent ==
  ASSUME Types, Control, [Next]_vars, Types', NEW f, ErrorSent(f)
  PROVE  ErrorSent(f)'
BY SentElements DEF ErrorSent

(***************************************************************************)
(* ... and one of f or of the directory that is about to be sent is.       *)
(***************************************************************************)
LEMMA ErrorIsSent ==
  ASSUME Types, Control, [Next]_vars, Types', ListFiles \/ MkLoader,
         NEW f, NEW h \in {0, f}, toSend' = <<Err(h, 0)>>
  PROVE  ErrorSent(f)'
<1>1. Err(h, 0) \in ToSet(toSend')
  BY DEF ToSet
<1>2. Err(h, 0).file = h /\ Err(h, 0).rec = 0
  BY DEF Err
<1> QED
  BY <1>1, <1>2, SentElements DEF ErrorSent

-----------------------------------------------------------------------------
(***************************************************************************)
(* No reload has begun at first.                                           *)
(***************************************************************************)
LEMMA ProgressInit == RunInit => Progress
<1> SUFFICES ASSUME RunInit, NEW g \in Files
             PROVE  FileProgress(g)
  BY DEF Progress
<1>1. /\ visible[g] = 0 /\ atReload[g] = 0 /\ pc[g] = "wait" /\ rrpc = "idle"
      /\ reloads = 0
  BY DEF RunInit, StreamInit
<1> QED
  BY <1>1 DEF FileProgress

(***************************************************************************)
(* Each step of a reload goes on from what the steps before have done.     *)
(***************************************************************************)
LEMMA ProgressStep ==
  ASSUME Types, Control, Stream, Progress, [Next]_vars, Types'
  PROVE  Progress'
<1> SUFFICES ASSUME NEW g \in Files
             PROVE  FileProgress(g)'
  BY DEF Progress
<1> DEFINE Place == <<visible, dir, atReload, pc, next, rrpc, todo, loaders, cur, got,
                      caller, reloads>>
<1>a. /\ FileProgress(g) /\ FileState(g) /\ CallerState
      /\ pc \in [Files -> PCs]
      /\ loaders \in [Files -> {"absent", "live", "dead"}]
      /\ visible \in [Files -> Nat] /\ atReload \in [Files -> Nat]
      /\ next \in [Files -> Nat] /\ got \in [Files -> Seq(Result)]
      /\ Len(got[g]) \in Nat /\ todo \subseteq Files
      /\ pc[g] = "sleep" => next[g] = Len(got[g]) + 1
  <2>1. got[g] \in Seq(Result)
    BY DEF Types
  <2>2. Len(got[g]) \in Nat
    BY <2>1, LenProperties
  <2> QED
    BY <2>2 DEF Progress, Control, Types, TypeOK, Stream, FileStream
<1>e. ErrorSent(g) => ErrorSent(g)'
  BY ErrorStaysSent
<1>1. CASE UNCHANGED Place
  BY <1>a, <1>e, <1>1 DEF FileProgress
<1>2. ASSUME NEW f \in Files, Append1(f)
      PROVE  FileProgress(g)'
  BY <1>a, <1>e, <1>2 DEF FileProgress, Append1, Write, readerVars, envVars
<1>3. ASSUME NEW f \in Files, CreateFile(f)
      PROVE  FileProgress(g)'
  BY <1>a, <1>e, <1>3 DEF FileProgress, CreateFile, streamVars, readerVars
<1>4. ASSUME NEW f \in Files, ReadFile(f)
      PROVE  FileProgress(g)'
  BY <1>a, <1>e, <1>4 DEF FileProgress, ReadFile, ReadRecord, ReadEOF, ReadError,
     SetResult, readerVars, envVars
<1>5. ASSUME NEW f \in Files, Abort(f)
      PROVE  FileProgress(g)'
  BY <1>a, <1>e, <1>5 DEF FileProgress, Abort, WakeUp, readerVars
<1>6. CASE Reload
  BY <1>a, <1>e, <1>6 DEF FileProgress, Reload, streamVars, FileState, Reading
<1>7. CASE Close
  BY <1>a, <1>e, <1>7 DEF FileProgress, Close, streamVars, CallerState
<1>8. CASE ListFiles
  <2>1. CASE rrpc' = "open" /\ todo' = dir
    BY <1>a, <1>e, <1>8, <2>1 DEF FileProgress, ListFiles, streamVars, envVars,
       CallerState
  <2>2. CASE toSend' = <<Err(0, 0)>> /\ StartReading(loaders)
    <3>1. ErrorSent(g)'
      BY <1>8, <2>2, ErrorIsSent
    <3> QED
      BY <1>a, <1>8, <2>2, <3>1 DEF FileProgress, ListFiles, StartReading, streamVars,
         envVars, CallerState
  <2> QED
    BY <1>8, <2>1, <2>2 DEF ListFiles
<1>9. CASE MkLoader
  <2> DEFINE f == Min(todo \ Known)
  <2> HIDE DEF f
  <2>1. f \in todo /\ loaders[f] = "absent"
    <3>1. todo \ Known \in SUBSET Nat /\ todo \ Known # {} /\ todo \subseteq Files
      BY <1>9, RunAssumption DEF MkLoader, Types, TypeOK
    <3>2. f \in Files /\ f \notin Known /\ f \in todo
      BY <3>1, LeastNatural DEF f
    <3> QED
      BY <3>2 DEF Known
  <2>2. /\ rrpc = "open" /\ todo' = todo \ {f}
        /\ UNCHANGED <<visible, dir, atReload, pc, next, rrpc, cur, got, caller, reloads>>
        /\ \/ loaders' = [loaders EXCEPT ![f] = "live"]
           \/ toSend' = <<Err(f, 0)>> /\ UNCHANGED loaders
    BY <1>9 DEF MkLoader, streamVars, envVars, f
  <2>3. (toSend' = <<Err(f, 0)>> /\ f = g) => ErrorSent(g)'
    BY <1>9, ErrorIsSent
  <2> QED
    BY <1>a, <1>e, <2>1, <2>2, <2>3 DEF FileProgress, CallerState
<1>10. CASE MkLoadersDone
  BY <1>a, <1>e, <1>10 DEF FileProgress, MkLoadersDone, StartReading, Known, streamVars,
     envVars, CallerState
<1>11. CASE ReadFrom
  <2>1. /\ NextFile \in Files
        /\ pc[NextFile] = "wait" /\ pc' = [pc EXCEPT ![NextFile] = "read"]
        /\ cur' = NextFile /\ todo' = todo \ {NextFile}
        /\ rrpc = "next" /\ rrpc' = "select"
        /\ UNCHANGED <<visible, dir, atReload, next, loaders, got, caller, reloads>>
    BY <1>11, NextFileIsFirst DEF ReadFrom, WakeUp, envVars
  <2> QED
    BY <1>a, <1>e, <2>1 DEF FileProgress, CallerState
<1>12. CASE SelectAsleep
  BY <1>a, <1>e, <1>12 DEF FileProgress, FileState, Reading, CallerState, SelectAsleep,
     TakeAsleep, envVars
<1>13. CASE SelectResult
  <2>1. /\ cur \in Files /\ rrpc = "select" /\ pc[cur] = "result"
        /\ got' = [got EXCEPT ![cur] = Append(@, result[cur])]
        /\ pc' = [pc EXCEPT ![cur] =
                    IF result[cur].status = "fatal" THEN "dead" ELSE "read"]
        /\ loaders' = loaders \/ loaders' = [loaders EXCEPT ![cur] = "dead"]
        /\ UNCHANGED <<visible, dir, atReload, next, rrpc, todo, cur, caller, reloads>>
    BY <1>a, <1>13 DEF SelectResult, TakeResult, CallerState, envVars
  <2>2. Len(got[g]) <= Len(got'[g])
    <3>1. result[cur] \in Result /\ got[g] \in Seq(Result)
      BY <2>1 DEF Types
    <3>2. Len(Append(got[g], result[cur])) = Len(got[g]) + 1
      BY <3>1, AppendProperties
    <3> QED
      BY <1>a, <2>1, <3>2
  <2>3. Len(got'[g]) \in Nat
    <3>1. got'[g] \in Seq(Result)
      BY DEF Types
    <3> QED
      BY <3>1, LenProperties
  <2> QED
    BY <1>a, <1>e, <2>1, <2>2, <2>3 DEF FileProgress, CallerState
<1>14. CASE ReloadReturn
  <2>1. /\ rrpc = "next" /\ rrpc' = "idle" /\ caller = "waiting" /\ caller' = "idle"
        /\ g \in todo => loaders[g] # "live"
        /\ UNCHANGED <<visible, dir, atReload, pc, next, loaders, got, reloads>>
    BY <1>14 DEF ReloadReturn, Live, streamVars
  <2> QED
    BY <1>a, <1>e, <2>1 DEF FileProgress, FileState
<1>15. ASSUME Send \/ Receive \/ Consumed \/ UNCHANGED vars
       PROVE  UNCHANGED Place
  BY <1>15, Zenon DEF Receive, Consumed, Send, vars, readerVars, envVars, streamVars
<1> HIDE DEF Place
<1> QED
  BY <1>1, <1>2, <1>3, <1>4, <1>5, <1>6, <1>7, <1>8, <1>9, <1>10, <1>11, <1>12,
     <1>13, <1>14, <1>15, Zenon
     DEF Next, Writer, Loading, Consumer

-----------------------------------------------------------------------------
\* SentFrom and Expected go over a sequence with these functions: what a result
\* says of f, and what a result from a file that holds c stands for.
Item == Nat \X (Tags \cup {""})
Letter(f) == [r \in ValueResult |-> FromFile(f, r)]
Kept(c) == {r \in Result : r.status = "event" => r.rec \in 1 .. Len(c)}
Stands(c) == [r \in Kept(c) |-> ValueTags(c, r)]

(***************************************************************************)
(* Both make sequences of items.                                           *)
(***************************************************************************)
LEMMA LetterType ==
  ASSUME NEW f
  PROVE  Maps(Letter(f), ValueResult, Item)
<1>1. ASSUME NEW r \in ValueResult
      PROVE  FromFile(f, r) \in Seq(Item)
  <2>1. <<r.rec, r.tag>> \in Item
    BY DEF ValueResult, Item
  <2>2. <<<<r.rec, r.tag>>>> \in Seq(Item) /\ <<>> \in Seq(Item)
    BY <2>1
  <2> QED
    BY <2>2, Zenon DEF FromFile
<1> QED
  BY <1>1 DEF Maps, Letter

(***************************************************************************)
(* A result stands for items, too.                                         *)
(***************************************************************************)
LEMMA StandsType ==
  ASSUME NEW c \in Contents, NEW f \in Files
  PROVE  Maps(Stands(c[f]), Kept(c[f]), Item)
<1>1. ASSUME NEW r \in Kept(c[f])
      PROVE  ValueTags(c[f], r) \in Seq(Item)
  <2> DEFINE vs == c[f][r.rec].values
             ts == [i \in DOMAIN vs |-> <<r.rec, vs[i].tag>>]
  <2>1. r.rec \in Nat
    BY DEF Kept, Result
  <2>2. <<<<r.rec, "">>>> \in Seq(Item) /\ <<>> \in Seq(Item)
    <3> DEFINE e == <<r.rec, "">>
    <3>1. e \in Item
      BY <2>1 DEF Item
    <3> HIDE DEF e
    <3>2. <<e>> \in Seq(Item) /\ <<>> \in Seq(Item)
      BY <3>1
    <3> QED
      BY <3>2 DEF e
  <2>3. CASE r.status = "event"
    <3>1. vs \in Seq(FileValues)
      BY <2>3, DatumsType DEF Kept
    <3> HIDE DEF vs
    <3>2. DOMAIN vs = 1 .. Len(vs) /\ Len(vs) \in Nat /\ \A i \in 1 .. Len(vs) : vs[i] \in FileValues
      BY <3>1, LenProperties, ElementOfSeq
    <3>3. \A i \in 1 .. Len(vs) : <<r.rec, vs[i].tag>> \in Item
      BY <2>1, <3>2 DEF Item, Tags, TagsOf
    <3>4. ts \in [1 .. Len(vs) -> Item]
      BY <3>2, <3>3
    <3> HIDE DEF ts
    <3>5. ts \in Seq(Item)
      BY <3>2, <3>4, SeqOfFunction
    <3> QED
      BY <2>3, <3>5 DEF ValueTags, ts, vs
  <2>4. CASE r.status # "event"
    BY <2>2, <2>4, Zenon DEF ValueTags
  <2> QED
    BY <2>3, <2>4
<1> QED
  BY <1>1 DEF Maps, Stands

(***************************************************************************)
(* And SentFrom and Expected are what they make of the whole sequences.    *)
(***************************************************************************)
LEMMA FlatLetters ==
  ASSUME NEW f, NEW s \in Seq(ValueResult)
  PROVE  FlattenSeq([i \in DOMAIN s |-> FromFile(f, s[i])]) = FlatMap(Letter(f), s)
<1>1. DOMAIN s = 1 .. Len(s) /\ \A i \in 1 .. Len(s) : s[i] \in ValueResult
  BY LenProperties, ElementOfSeq
<1>2. \A i \in DOMAIN s : Letter(f)[s[i]] = FromFile(f, s[i])
  BY <1>1 DEF Letter
<1>3. [i \in DOMAIN s |-> FromFile(f, s[i])] = [i \in DOMAIN s |-> Letter(f)[s[i]]]
  BY <1>2
<1> QED
  BY <1>3, Zenon DEF FlatMap

(***************************************************************************)
(* What a file's results stand for is the flattening of what each does.    *)
(***************************************************************************)
LEMMA FlatStands ==
  ASSUME NEW c, NEW s \in Seq(Kept(c))
  PROVE  FlattenSeq([i \in DOMAIN s |-> ValueTags(c, s[i])]) = FlatMap(Stands(c), s)
<1>1. DOMAIN s = 1 .. Len(s) /\ \A i \in 1 .. Len(s) : s[i] \in Kept(c)
  BY LenProperties, ElementOfSeq
<1>2. \A i \in DOMAIN s : Stands(c)[s[i]] = ValueTags(c, s[i])
  BY <1>1 DEF Stands
<1>3. [i \in DOMAIN s |-> ValueTags(c, s[i])] = [i \in DOMAIN s |-> Stands(c)[s[i]]]
  BY <1>2
<1> QED
  BY <1>3, Zenon DEF FlatMap

(***************************************************************************)
(* What is received is kept.                                               *)
(***************************************************************************)
LEMMA ReceivedIsKept ==
  ASSUME Types, Stream, NEW f \in Files
  PROVE  got[f] \in Seq(Kept(content[f]))
<1>1. got[f] \in Seq(Result)
  BY DEF Types
<1>2. Len(content[f]) \in Nat /\ Len(got[f]) \in Nat
  <2>1. content[f] \in Seq(ToSet(content[f]))
    BY ContentsAssumption DEF Types
  <2> QED
    BY <1>1, <2>1, LenProperties, Zenon
<1>3. \A i \in 1 .. Len(got[f]) :
        /\ got[f][i] \in Result
        /\ got[f][i].rec \in 0 .. Len(content[f])
        /\ got[f][i].rec = 0 => got[f][i].status = "fatal"
  BY <1>1, ElementOfSeq DEF Stream, FileStream
<1>4. \A i \in 1 .. Len(got[f]) : got[f][i] \in Kept(content[f])
  BY <1>2, <1>3 DEF Kept
<1>5. got[f] \in [1 .. Len(got[f]) -> Kept(content[f])]
  BY <1>1, <1>4, LenProperties
<1> QED
  BY <1>2, <1>5, SeqOfFunction

(***************************************************************************)
(* The results made of one EventResult say of its file what that stands    *)
(* for, and nothing of other files.                                        *)
(***************************************************************************)
LEMMA NewLetters ==
  ASSUME Types, Control, Stream, Types', SelectResult, NEW f \in Files
  PROVE  /\ result[cur] \in Kept(content[cur])
         /\ FlatMap(Letter(f), toSend') =
              IF f = cur THEN Stands(content[f])[result[f]] ELSE <<>>
<1> DEFINE res == result[cur]
           vs  == content[cur][res.rec].values
           ds  == Datums(content, cur, res.rec, mds)
<1>1. /\ cur \in Files /\ pc[cur] = "result" /\ res \in Result
      /\ content \in Contents /\ toSend' \in Seq(ValueResult)
  BY DEF SelectResult, Control, CallerState, TakeResult, Types
<1>2. res.status = "event" => res.rec \in 1 .. Len(content[cur])
  BY <1>1, HeldRecord DEF Stream
<1>3. res \in Kept(content[cur])
  BY <1>1, <1>2 DEF Kept
<1>4. \/ res.status # "event" /\ toSend' = <<Err(cur, res.rec)>>
      \/ res.status = "event" /\ toSend' = ds
  BY Zenon DEF SelectResult, Datums
<1>5. res.status = "event" =>
        /\ Len(ds) = Len(vs) /\ vs \in Seq(FileValues)
        /\ \A j \in 1 .. Len(vs) :
             ds[j].file = cur /\ ds[j].rec = res.rec /\ ds[j].tag = vs[j].tag
  <2> SUFFICES ASSUME res.status = "event"
               PROVE  /\ Len(ds) = Len(vs) /\ vs \in Seq(FileValues)
                      /\ \A j \in 1 .. Len(vs) : /\ ds[j].file = cur /\ ds[j].rec = res.rec
                                               /\ ds[j].tag = vs[j].tag
    OBVIOUS
  <2>1. res.rec \in 1 .. Len(content[cur])
    BY <1>2
  <2>2. \A i \in 1 .. Len(content[cur]) :
          /\ content[cur][i].values \in Seq(FileValues)
          /\ Len(Datums(content, cur, i, mds)) = Len(content[cur][i].values)
          /\ \A j \in 1 .. Len(content[cur][i].values) :
               /\ Datums(content, cur, i, mds)[j].file = cur
               /\ Datums(content, cur, i, mds)[j].rec = i
               /\ Datums(content, cur, i, mds)[j].tag = content[cur][i].values[j].tag
    <3>1. content \in Contents /\ cur \in Files
      BY <1>1
    <3> SUFFICES ASSUME NEW i \in 1 .. Len(content[cur])
                 PROVE  /\ content[cur][i].values \in Seq(FileValues)
                        /\ Len(Datums(content, cur, i, mds)) = Len(content[cur][i].values)
                        /\ \A j \in 1 .. Len(content[cur][i].values) :
                             /\ Datums(content, cur, i, mds)[j].file = cur
                             /\ Datums(content, cur, i, mds)[j].rec = i
                             /\ Datums(content, cur, i, mds)[j].tag
                                  = content[cur][i].values[j].tag
      OBVIOUS
    <3>2. content[cur][i].values \in Seq(FileValues)
      BY <3>1, DatumsType
    <3>3. Len(Datums(content, cur, i, mds)) = Len(content[cur][i].values)
      BY <3>1, DatumsTags
    <3>4. ASSUME NEW j \in 1 .. Len(content[cur][i].values)
          PROVE  /\ Datums(content, cur, i, mds)[j].file = cur
                 /\ Datums(content, cur, i, mds)[j].rec = i
                 /\ Datums(content, cur, i, mds)[j].tag = content[cur][i].values[j].tag
      BY <3>1, DatumsTags
    <3> QED
      BY <3>2, <3>3, <3>4, Zenon
  <2> QED
    BY <2>1, <2>2, Zenon
<1>6. Maps(Letter(f), ValueResult, Item)
  BY LetterType
<1> HIDE DEF ds, vs, res
<1>7. \A r \in ValueResult : Letter(f)[r] = FromFile(f, r)
  BY DEF Letter
<1>8. DOMAIN toSend' = 1 .. Len(toSend') /\ Len(toSend') \in Nat
      /\ \A j \in 1 .. Len(toSend') : toSend'[j] \in ValueResult
  BY <1>1, LenProperties, ElementOfSeq
<1>9. CASE f # cur
  <2> DEFINE A == {r \in ValueResult : r.file # f}
  <2>1. \A j \in 1 .. Len(toSend') : toSend'[j].file = cur
    <3>1. CASE toSend' = <<Err(cur, res.rec)>>
      <4> DEFINE e == Err(cur, res.rec)
      <4>1. e.file = cur
        BY DEF Err
      <4> HIDE DEF e
      <4>2. toSend' = <<e>>
        BY <3>1 DEF e
      <4> QED
        BY <4>1, <4>2
    <3>2. CASE res.status = "event" /\ toSend' = ds
      BY <1>5, <3>2
    <3> QED
      BY <1>4, <3>1, <3>2
  <2>2. \A j \in 1 .. Len(toSend') : toSend'[j] \in A
    BY <1>8, <1>9, <2>1
  <2>3. A \in SUBSET ValueResult /\ \A r \in A : Letter(f)[r] = <<>>
    BY <1>7 DEF FromFile
  <2>4. toSend' \in [1 .. Len(toSend') -> A]
    BY <1>1, <1>8, <2>2, LenProperties
  <2> HIDE DEF A
  <2>5. toSend' \in Seq(A)
    BY <1>8, <2>4, SeqOfFunction
  <2>6. FlatMap(Letter(f), toSend') = <<>>
    BY <1>6, <2>3, <2>5, FlatMapNothing
  <2> QED
    BY <1>3, <1>9, <2>6 DEF res
<1>10. CASE f = cur /\ res.status # "event"
  <2> DEFINE e == Err(f, res.rec)
  <2>1. toSend' = <<e>> /\ e \in ValueResult /\ res.rec \in Nat
    BY <1>1, <1>4, <1>10, ErrType DEF Result
  <2>2. FlatMap(Letter(f), <<e>>) = Letter(f)[e]
    <3> HIDE DEF e
    <3> QED
      BY <1>6, <2>1, FlatMapOne
  <2>3. Letter(f)[e] = ValueTags(content[f], res)
    <3>1. Letter(f)[e] = FromFile(f, e)
      BY <1>7, <2>1
    <3>2. e.file = f /\ e.rec = res.rec /\ e.tag = ""
      BY DEF Err
    <3> HIDE DEF e
    <3> QED
      BY <1>10, <3>1, <3>2, Zenon DEF FromFile, ValueTags
  <2>4. Stands(content[f])[res] = ValueTags(content[f], res)
    BY <1>3, <1>10 DEF Stands
  <2> QED
    BY <1>3, <1>10, <2>1, <2>2, <2>3, <2>4 DEF res
<1>11. CASE f = cur /\ res.status = "event"
  <2> DEFINE A == {r \in ValueResult : r.file = f /\ r.rec > 0}
             H == [r \in ValueResult |-> <<r.rec, r.tag>>]
             w == FlatMap(Letter(f), toSend')
             u == ValueTags(content[f], res)
  <2>1. Len(vs) \in Nat /\ res.rec \in Nat /\ res.rec > 0 /\ DOMAIN vs = 1 .. Len(vs)
    <3>1. content[cur] \in Seq(ToSet(content[cur]))
      BY <1>1, ContentsAssumption
    <3>2. Len(content[cur]) \in Nat
      BY <3>1, LenProperties
    <3> QED
      BY <1>2, <1>5, <1>11, <3>2, LenProperties
  <2>2. /\ Len(toSend') = Len(vs)
        /\ \A j \in 1 .. Len(vs) :
             toSend'[j].file = f /\ toSend'[j].rec = res.rec /\ toSend'[j].tag = vs[j].tag
    BY <1>4, <1>5, <1>11
  <2>3. \A j \in 1 .. Len(toSend') : toSend'[j] \in A
    BY <1>8, <2>1, <2>2
  <2>4. toSend' \in [1 .. Len(toSend') -> A]
    BY <1>1, <1>8, <2>3, LenProperties
  <2>5. /\ A \in SUBSET ValueResult /\ H \in [ValueResult -> Item]
        /\ \A r \in A : Letter(f)[r] = <<H[r]>>
    BY <1>7 DEF FromFile, ValueResult, Item
  <2>6. \A j \in 1 .. Len(vs) : H[toSend'[j]] = <<res.rec, vs[j].tag>>
    BY <1>8, <2>2
  <2> HIDE DEF A, H
  <2>7. toSend' \in Seq(A)
    BY <1>8, <2>4, SeqOfFunction
  <2>8. /\ Len(w) = Len(vs) /\ w \in Seq(Item)
        /\ \A j \in 1 .. Len(vs) : w[j] = H[toSend'[j]]
    BY <1>6, <2>2, <2>5, <2>7, FlatMapSingletons
  <2>9. u = [j \in DOMAIN vs |-> <<res.rec, vs[j].tag>>]
    BY <1>11, Zenon DEF ValueTags, vs
  <2>10. u \in Seq(Item) /\ u = Stands(content[f])[res]
    BY <1>1, <1>3, <1>11, StandsType DEF Stands, Maps
  <2>11. /\ Len(u) = Len(vs)
         /\ \A j \in 1 .. Len(vs) : u[j] = <<res.rec, vs[j].tag>>
    BY <2>1, <2>9
  <2> HIDE DEF u, w
  <2>12. Len(w) = Len(u) /\ \A j \in 1 .. Len(w) : w[j] = u[j]
    BY <2>6, <2>8, <2>11
  <2>13. w = u
    BY <2>8, <2>10, <2>12, SeqEqual
  <2> QED
    BY <1>3, <1>11, <2>10, <2>13 DEF w, res
<1> QED
  BY <1>9, <1>10, <1>11

(***************************************************************************)
(* At first nothing is received, and nothing sent.                         *)
(***************************************************************************)
LEMMA RelayInit == RunInit => Relay
<1> SUFFICES ASSUME RunInit, NEW f \in Files
             PROVE  SentFrom(f) = Expected(f)
  BY DEF Relay
<1>1. taken = <<>> /\ out = <<>> /\ toSend = <<>> /\ got[f] = <<>>
  BY DEF RunInit, StreamInit
<1>2. Sent = <<>>
  BY <1>1 DEF Sent
<1>3. /\ [i \in DOMAIN Sent |-> FromFile(f, Sent[i])] = <<>>
      /\ [i \in DOMAIN got[f] |-> ValueTags(content[f], got[f][i])] = <<>>
  BY <1>1, <1>2
<1> QED
  BY <1>3, Zenon DEF SentFrom, Expected

(***************************************************************************)
(* What comes out for a file stays what its results stand for: both grow   *)
(* by the same when a result is taken, and else neither does.              *)
(***************************************************************************)
LEMMA RelayStep ==
  ASSUME Types, Control, Stream, Relay, [Next]_vars, Types', Stream'
  PROVE  Relay'
<1> SUFFICES ASSUME NEW f \in Files
             PROVE  (SentFrom(f) = Expected(f))'
  BY DEF Relay
<1> DEFINE L == Letter(f)
           K == Stands(content[f])
<1>a. /\ Sent \in Seq(ValueResult) /\ toSend' \in Seq(ValueResult)
      /\ Sent' \in Seq(ValueResult)
  <2>1. Sent \in Seq(ValueResult) /\ toSend' \in Seq(ValueResult)
    BY SentGrows DEF Types
  <2>2. Sent \o toSend' \in Seq(ValueResult)
    BY <2>1, ConcatProperties
  <2>3. Sent' = Sent \/ Sent' = Sent \o toSend'
    BY SentGrows
  <2> QED
    BY <2>1, <2>2, <2>3, Zenon
<1>b. Maps(L, ValueResult, Item) /\ Maps(K, Kept(content[f]), Item)
  BY LetterType, StandsType DEF Types
<1>c. content' = content
  BY Zenon DEF Next, Writer, Loading, Consumer, CreateFile, Append1, Write, ReadFile,
     ReadRecord, ReadEOF, ReadError, Abort, WakeUp, ListFiles, MkLoader, MkLoadersDone,
     ReadFrom, SelectAsleep, TakeAsleep, SelectResult, TakeResult, Send, ReloadReturn,
     Receive, Consumed, Reload, Close, vars, streamVars
<1>d. SentFrom(f) = FlatMap(L, Sent) /\ SentFrom(f)' = FlatMap(L, Sent')
  BY <1>a, FlatLetters DEF SentFrom
<1>e. got[f] \in Seq(Kept(content[f])) /\ Expected(f) = FlatMap(K, got[f])
  BY ReceivedIsKept, FlatStands DEF Expected
<1>f. SentFrom(f) = Expected(f)
  BY DEF Relay
<1>1. ASSUME ListFiles \/ MkLoader
      PROVE  FlatMap(L, toSend') = <<>>
  <2> DEFINE A == {r \in ValueResult : r.rec = 0}
  <2>1. toSend' = <<>> \/ \E h : toSend' = <<Err(h, 0)>>
    BY <1>1, Zenon DEF ListFiles, MkLoader, Control, CallerState
  <2>2. \A i \in 1 .. Len(toSend') : toSend'[i].rec = 0
    <3>1. CASE toSend' = <<>>
      BY <3>1, EmptySeq
    <3>2. ASSUME NEW h, toSend' = <<Err(h, 0)>>
          PROVE  \A i \in 1 .. Len(toSend') : toSend'[i].rec = 0
      <4> DEFINE e == Err(h, 0)
      <4>1. e.rec = 0
        BY DEF Err
      <4> HIDE DEF e
      <4>2. toSend' = <<e>>
        BY <3>2 DEF e
      <4> QED
        BY <4>1, <4>2
    <3> QED
      BY <2>1, <3>1, <3>2
  <2>3. Len(toSend') \in Nat /\ \A i \in 1 .. Len(toSend') : toSend'[i] \in A
    BY <1>a, <2>2, LenProperties, ElementOfSeq
  <2>4. toSend' \in [1 .. Len(toSend') -> A]
    BY <1>a, <2>3, LenProperties
  <2>5. A \in SUBSET ValueResult /\ \A r \in A : L[r] = <<>>
    BY DEF Letter, FromFile
  <2> HIDE DEF A
  <2>6. toSend' \in Seq(A)
    BY <2>3, <2>4, SeqOfFunction
  <2> HIDE DEF L
  <2> QED
    BY <1>b, <2>5, <2>6, FlatMapNothing
<1>2. SelectResult =>
        /\ result[cur] \in Kept(content[cur])
        /\ FlatMap(L, toSend') = IF f = cur THEN K[result[f]] ELSE <<>>
        /\ got'[f] = IF f = cur THEN Append(got[f], result[f]) ELSE got[f]
  <2> SUFFICES ASSUME SelectResult
               PROVE  /\ result[cur] \in Kept(content[cur])
                      /\ FlatMap(L, toSend') = IF f = cur THEN K[result[f]] ELSE <<>>
                      /\ got'[f] = IF f = cur THEN Append(got[f], result[f]) ELSE got[f]
    OBVIOUS
  <2>1. got' = [got EXCEPT ![cur] = Append(@, result[cur])] /\ got \in [Files -> Seq(Result)]
    BY DEF SelectResult, TakeResult, Types
  <2> QED
    BY <2>1, NewLetters, Zenon
<1>3. SelectResult \/ got' = got
  BY Zenon DEF Next, Writer, Loading, Consumer, CreateFile, Append1, Write, ReadFile,
     ReadRecord, ReadEOF, ReadError, Abort, WakeUp, ListFiles, MkLoader, MkLoadersDone,
     ReadFrom, SelectAsleep, TakeAsleep, Send, ReloadReturn,
     Receive, Consumed, Reload, Close, vars, streamVars
<1>4. Expected(f)' = FlatMap(K, got'[f])
  <2>1. got'[f] \in Seq(Kept(content[f]))
    <3>1. CASE SelectResult /\ f = cur
      BY <1>2, <1>e, <3>1, AppendProperties, SMTT(30)
    <3>2. CASE got'[f] = got[f]
      BY <1>e, <3>2
    <3> QED
      BY <1>2, <1>3, <3>1, <3>2
  <2> QED
    BY <1>c, <2>1, FlatStands DEF Expected
<1> HIDE DEF L, K
<1>g. /\ \A s \in Seq(ValueResult), t \in Seq(ValueResult) :
           FlatMap(L, s \o t) = FlatMap(L, s) \o FlatMap(L, t)
      /\ \A s \in Seq(Kept(content[f])), r \in Kept(content[f]) :
           FlatMap(K, Append(s, r)) = FlatMap(K, s) \o K[r]
  BY <1>b, FlatMapConcat, FlatMapAppend
<1>5. CASE SelectResult /\ f = cur
  <2>1. FlatMap(K, got'[f]) = FlatMap(K, got[f]) \o K[result[f]]
    BY <1>e, <1>g, <1>2, <1>5, Zenon
  <2>2. FlatMap(L, Sent') = FlatMap(L, Sent) \o K[result[f]]
    <3>1. FlatMap(L, Sent') = FlatMap(L, Sent) \o FlatMap(L, toSend')
      BY <1>a, <1>g, <1>5, SentGrows, Zenon
    <3> QED
      BY <1>2, <1>5, <3>1, Zenon
  <2> QED
    BY <1>4, <1>d, <1>e, <1>f, <2>1, <2>2
<1>6. CASE ~ (SelectResult /\ f = cur)
  <2>1. Expected(f)' = Expected(f)
    BY <1>2, <1>3, <1>4, <1>e, <1>6
  <2>2. CASE Sent' = Sent
    BY <1>d, <1>f, <2>1, <2>2
  <2>3. CASE ListFiles \/ MkLoader \/ SelectResult
    <3>1. FlatMap(L, toSend') = <<>>
      BY <1>1, <1>2, <1>6, <2>3
    <3>2. FlatMap(L, Sent') = FlatMap(L, Sent) \o FlatMap(L, toSend')
      BY <1>a, <1>g, <2>3, SentGrows, Zenon
    <3>3. FlatMap(L, Sent) \o <<>> = FlatMap(L, Sent)
      <4>1. FlatMap(L, Sent) \in Seq(Item)
        BY <1>a, <1>b, FlatMapType
      <4> QED
        BY <4>1, ConcatEmptySeq
    <3> QED
      BY <1>d, <1>f, <2>1, <3>1, <3>2, <3>3
  <2> QED
    BY <2>2, <2>3, SentGrows
<1> QED
  BY <1>5, <1>6

-----------------------------------------------------------------------------
\* The first metadata that the results s hold for each tag.
Places(s, t) == {i \in DOMAIN s : s[i].tag = t}
Named(s) == {r.tag : r \in ToSet(s)} \ {""}
FirstMeta(s) == [t \in Named(s) |-> s[Min(Places(s, t))].meta]

(***************************************************************************)
(* One result more adds a tag when it has one that is new.                 *)
(***************************************************************************)
LEMMA FirstMetaAppend ==
  ASSUME NEW s \in Seq(ValueResult), NEW r \in ValueResult
  PROVE  FirstMeta(Append(s, r)) =
           IF r.tag = "" THEN FirstMeta(s) ELSE PutNew(FirstMeta(s), r.tag, r.meta)
<1> DEFINE u == Append(s, r)
           n == Len(s)
<1>1. /\ n \in Nat /\ DOMAIN s = 1 .. n /\ u \in Seq(ValueResult) /\ Len(u) = n + 1
      /\ \A i \in 1 .. n : u[i] = s[i]
      /\ u[n + 1] = r
  BY LenProperties, AppendProperties
<1>2. DOMAIN u = 1 .. n + 1
  BY <1>1, LenProperties
<1> HIDE DEF u, n
<1>3. ToSet(u) = ToSet(s) \cup {r}
  <2>1. \A i \in 1 .. n + 1 : i \in 1 .. n \/ i = n + 1
    BY <1>1
  <2>2. n + 1 \in 1 .. n + 1 /\ 1 .. n \subseteq 1 .. n + 1
    BY <1>1
  <2> QED
    BY <1>1, <1>2, <2>1, <2>2 DEF ToSet
<1>4. Named(u) = IF r.tag = "" THEN Named(s) ELSE Named(s) \cup {r.tag}
  BY <1>3 DEF Named
<1>5. ASSUME NEW t \in Named(s)
      PROVE  u[Min(Places(u, t))] = s[Min(Places(s, t))]
  <2>1. Places(s, t) \in SUBSET Nat /\ Places(s, t) # {}
    <3>1. PICK r1 \in ToSet(s) : t = r1.tag
      BY DEF Named
    <3>2. PICK i \in DOMAIN s : r1 = s[i]
      BY DEF ToSet
    <3>3. i \in Places(s, t)
      BY <3>1, <3>2 DEF Places
    <3> QED
      BY <1>1, <3>3 DEF Places
  <2>2. Places(u, t) \in SUBSET Nat /\ Places(s, t) \subseteq Places(u, t)
    BY <1>1, <1>2 DEF Places
  <2>3. /\ Min(Places(s, t)) \in Places(s, t)
        /\ \A i \in Places(s, t) : Min(Places(s, t)) <= i
    BY <2>1, LeastNatural
  <2>4. /\ Min(Places(u, t)) \in Places(u, t)
        /\ \A i \in Places(u, t) : Min(Places(u, t)) <= i
    BY <2>1, <2>2, LeastNatural
  <2> DEFINE a == Min(Places(s, t))
             b == Min(Places(u, t))
  <2> HIDE DEF a, b
  <2>5. a \in 1 .. n /\ b \in 1 .. n + 1 /\ b <= a
    BY <1>1, <1>2, <2>2, <2>3, <2>4 DEF a, b, Places
  <2>6. b \in 1 .. n
    BY <1>1, <2>5
  <2>7. b \in Places(s, t)
    BY <1>1, <1>2, <2>4, <2>6 DEF b, Places
  <2>8. a <= b
    BY <2>3, <2>7 DEF a
  <2>9. a = b
    BY <1>1, <2>5, <2>8
  <2> QED
    BY <1>1, <2>5, <2>9 DEF a, b
<1>6. ASSUME r.tag \notin Named(s), r.tag # ""
      PROVE  u[Min(Places(u, r.tag))] = r
  <2>1. \A i \in 1 .. n : s[i].tag # r.tag
    BY <1>1, <1>6 DEF Named, ToSet
  <2>2. Places(u, r.tag) \in SUBSET Nat /\ n + 1 \in Places(u, r.tag)
    BY <1>1, <1>2 DEF Places
  <2>3. Min(Places(u, r.tag)) \in Places(u, r.tag)
    BY <2>2, LeastNatural
  <2>4. \A i \in Places(u, r.tag) : i = n + 1
    BY <1>1, <1>2, <2>1 DEF Places
  <2> QED
    BY <1>1, <2>3, <2>4
<1>7. CASE r.tag = ""
  BY <1>4, <1>5, <1>7 DEF FirstMeta, u
<1>8. CASE r.tag # ""
  <2> DEFINE g == PutNew(FirstMeta(s), r.tag, r.meta)
  <2>1. g = [t \in Named(s) \cup {r.tag} |->
               IF t \in Named(s) THEN s[Min(Places(s, t))].meta ELSE r.meta]
    <3> DEFINE a == FirstMeta(s)
    <3>1. DOMAIN a = Named(s) /\ a = [t \in Named(s) |-> s[Min(Places(s, t))].meta]
      BY DEF FirstMeta
    <3> HIDE DEF a
    <3>2. CASE r.tag \in Named(s)
      <4>1. g = a /\ Named(s) \cup {r.tag} = Named(s)
        BY <3>1, <3>2 DEF PutNew, a
      <4> QED
        BY <3>1, <4>1
    <3>3. CASE r.tag \notin Named(s)
      <4>1. g = Put(a, r.tag, r.meta)
        BY <3>1, <3>3 DEF PutNew, a
      <4>2. Put(a, r.tag, r.meta) =
              [t \in Named(s) \cup {r.tag} |-> IF t = r.tag THEN r.meta ELSE a[t]]
        BY <3>1 DEF Put
      <4>3. \A t \in Named(s) \cup {r.tag} :
              (IF t = r.tag THEN r.meta ELSE a[t]) =
                IF t \in Named(s) THEN s[Min(Places(s, t))].meta ELSE r.meta
        BY <3>1, <3>3
      <4> QED
        BY <4>1, <4>2, <4>3
    <3> QED
      BY <3>2, <3>3
  <2>2. FirstMeta(u) = [t \in Named(s) \cup {r.tag} |-> u[Min(Places(u, t))].meta]
    BY <1>4, <1>8 DEF FirstMeta
  <2>3. \A t \in Named(s) \cup {r.tag} :
          u[Min(Places(u, t))].meta =
            IF t \in Named(s) THEN s[Min(Places(s, t))].meta ELSE r.meta
    BY <1>5, <1>6, <1>8
  <2> HIDE DEF g
  <2>4. FirstMeta(u) = g
    BY <2>1, <2>2, <2>3
  <2> QED
    BY <1>8, <2>4 DEF u, g
<1> QED
  BY <1>7, <1>8

\* What a file can hold has a tag.
TaggedValues == {v \in FileValues : v.tag # ""}

(***************************************************************************)
(* The store after an event is what the results made of it add to the      *)
(* results before.                                                         *)
(***************************************************************************)
LEMMA FirstMetaEvent ==
  ASSUME NEW s \in Seq(ValueResult), NEW c \in Contents, NEW f \in Files,
         NEW i \in 1 .. Len(c[f])
  PROVE  EventValues(c[f][i].values, FirstMeta(s)).mds =
           FirstMeta(s \o Datums(c, f, i, FirstMeta(s)))
<1> DEFINE V == TaggedValues
           m == FirstMeta(s)
           D(vs) == [j \in 1 .. Len(EventValues(vs, m).values) |->
                       Datum(f, i, EventValues(vs, m).values[j])]
           G == {vs \in Seq(V) : /\ D(vs) \in Seq(ValueResult)
                                 /\ EventValues(vs, m).mds = FirstMeta(s \o D(vs))}
<1> HIDE DEF m
<1>i. i \in Nat
  <2>1. c[f] \in Seq(ToSet(c[f]))
    BY ContentsAssumption
  <2>2. Len(c[f]) \in Nat
    BY <2>1, LenProperties
  <2> QED
    BY <2>2
<1>1. <<>> \in G
  <2>1. EventValues(<<>>, m) = [mds |-> m, values |-> <<>>]
    BY EventValuesAppend
  <2>2. D(<<>>) = <<>>
    BY <2>1
  <2>3. s \o <<>> = s /\ <<>> \in Seq(V) /\ <<>> \in Seq(ValueResult)
    BY ConcatEmptySeq, EmptySeq
  <2>4. EventValues(<<>>, m).mds = m
    BY <2>1
  <2>5. EventValues(<<>>, m).mds = FirstMeta(s \o D(<<>>))
    BY <2>2, <2>3, <2>4 DEF m
  <2> HIDE DEF D
  <2> QED
    BY <2>2, <2>3, <2>5, Zenon
<1>2. ASSUME NEW vs \in Seq(V), NEW v \in V, vs \in G
      PROVE  Append(vs, v) \in G
  <2> DEFINE st  == EventValues(vs, m)
             st1 == EventValues(Append(vs, v), m)
  <2>1. vs \in Seq(FileValues) /\ v \in FileValues /\ v.tag # ""
    <3>1. TaggedValues \subseteq FileValues
      BY DEF TaggedValues
    <3> QED
      BY <3>1, SeqMonotonic DEF TaggedValues
  <2>2. st1 = Migrate(st, v)
    BY <2>1, EventValuesAppend
  <2>3. st.values \in Seq(MigratedValue)
    BY <2>1, EventValuesType DEF MigratedValue
  <2>4. D(vs) \in Seq(ValueResult) /\ st.mds = FirstMeta(s \o D(vs))
    BY <1>2
  <2> HIDE DEF st, st1
  <2>5. PICK meta \in Metas : st1 = [mds    |-> PutNew(st.mds, v.tag, meta),
                                     values |-> Append(st.values, Migrated(v, meta))]
    BY <2>1, <2>2, MigrateStep DEF Metas
  <2> DEFINE x == Migrated(v, meta)
             d == Datum(f, i, x)
             o == st.values
  <2>6. x \in MigratedValue /\ x.tag = v.tag /\ x.meta = meta
    BY <2>1 DEF Migrated, MigratedValue, MigratedOf, TagsOf, Metas
  <2> HIDE DEF x
  <2>7. d \in ValueResult /\ d.tag = v.tag /\ d.meta = meta
    BY <1>i, <2>6 DEF Datum, ValueResult, MigratedValue, MigratedOf, Tags, Metas
  <2> HIDE DEF d
  <2>8. D(Append(vs, v)) = Append(D(vs), d)
    <3>1. /\ Len(Append(o, x)) = Len(o) + 1 /\ Len(o) \in Nat
          /\ \A j \in 1 .. Len(o) : Append(o, x)[j] = o[j]
          /\ Append(o, x)[Len(o) + 1] = x
      <4>1. o \in Seq(MigratedValue)
        BY <2>3
      <4> HIDE DEF o
      <4>2. Len(o) \in Nat
        BY <4>1, LenProperties
      <4> QED
        BY <2>6, <4>1, <4>2, AppendProperties
    <3>2. D(Append(vs, v)) = [j \in 1 .. Len(Append(o, x)) |-> Datum(f, i, Append(o, x)[j])]
      <4>1. st1.values = Append(o, x)
        BY <2>5 DEF x
      <4>2. D(Append(vs, v)) = [j \in 1 .. Len(st1.values) |-> Datum(f, i, st1.values[j])]
        BY DEF st1
      <4> QED
        BY <4>1, <4>2
    <3>3. D(vs) = [j \in 1 .. Len(o) |-> Datum(f, i, o[j])]
      BY DEF st
    <3> DEFINE p == D(vs)
               q == D(Append(vs, v))
               a == Append(o, x)
               b == Append(p, d)
    <3>4. p \in Seq(ValueResult) /\ Len(p) = Len(o) /\ DOMAIN p = 1 .. Len(o)
      <4>1. DOMAIN p = 1 .. Len(o) /\ p \in Seq(ValueResult)
        BY <2>4, <3>3
      <4> HIDE DEF p, o
      <4> QED
        BY <3>1, <4>1, LenOfDomain
    <3> HIDE DEF o, a, D, p, q
    <3>5. \A j \in 1 .. Len(o) : p[j] = Datum(f, i, o[j])
      BY <3>3 DEF p
    <3>6. /\ b \in Seq(ValueResult) /\ Len(b) = Len(o) + 1
          /\ \A j \in 1 .. Len(o) : b[j] = p[j]
          /\ b[Len(o) + 1] = d
      BY <2>7, <3>4, AppendProperties
    <3> HIDE DEF b
    <3>7. q = [j \in 1 .. Len(o) + 1 |-> Datum(f, i, a[j])]
      BY <3>1, <3>2 DEF a, q
    <3>8. \A j \in 1 .. Len(o) + 1 : j \in 1 .. Len(o) \/ j = Len(o) + 1
      BY <3>1
    <3>9. \A j \in 1 .. Len(o) + 1 : q[j] = b[j]
      BY <3>1, <3>5, <3>6, <3>7, <3>8 DEF a, d
    <3>10. DOMAIN b = 1 .. Len(o) + 1 /\ b = [j \in DOMAIN b |-> b[j]]
      BY <3>6, LenProperties
    <3>11. q = b
      BY <3>7, <3>9, <3>10
    <3> QED
      BY <3>11 DEF p, q, b
  <2> HIDE DEF D, o
  <2>9. Append(D(vs), d) \in Seq(ValueResult)
    BY <2>4, <2>7, AppendProperties
  <2>10. s \o Append(D(vs), d) = Append(s \o D(vs), d) /\ s \o D(vs) \in Seq(ValueResult)
    BY <2>4, <2>7, ConcatAppend
  <2>11. FirstMeta(Append(s \o D(vs), d)) = PutNew(FirstMeta(s \o D(vs)), v.tag, meta)
    BY <2>1, <2>7, <2>10, FirstMetaAppend
  <2>12. st1.mds = PutNew(st.mds, v.tag, meta)
    BY <2>5
  <2>13. Append(vs, v) \in Seq(V)
    BY AppendProperties
  <2>14. EventValues(Append(vs, v), m).mds = FirstMeta(s \o D(Append(vs, v)))
    BY <2>4, <2>8, <2>10, <2>11, <2>12 DEF st1
  <2> QED
    BY <2>8, <2>9, <2>13, <2>14
<1>3. c[f][i].values \in Seq(V)
  <2>1. c[f] \in Seq(ToSet(c[f]))
    BY ContentsAssumption
  <2>2. c[f][i] \in ToSet(c[f])
    BY <2>1, LenProperties, ElementOfSeq
  <2>3. /\ c[f][i].values \in Seq(ToSet(c[f][i].values))
        /\ \A v \in ToSet(c[f][i].values) : v.tag # ""
    BY <2>2, ContentsAssumption
  <2>4. ToSet(c[f][i].values) \subseteq FileValues
    <3>1. c[f][i] \in Records
      BY <2>2 DEF Records
    <3> QED
      BY <3>1 DEF FileValues
  <2>5. ToSet(c[f][i].values) \subseteq V
    BY <2>3, <2>4 DEF TaggedValues
  <2> QED
    BY <2>3, <2>5, SeqMonotonic, Zenon
<1>4. Seq(V) \subseteq G
  <2> HIDE DEF G
  <2> QED
    BY <1>1, <1>2, InductionOnSeq
<1>5. EventValues(c[f][i].values, m).mds = FirstMeta(s \o D(c[f][i].values))
  BY <1>3, <1>4
<1> QED
  BY <1>5, Zenon DEF m, Datums

(***************************************************************************)
(* At first the store is empty, and nothing has been sent.                 *)
(***************************************************************************)
LEMMA FirstMetadataInit == RunInit => FirstMetadata
<1> SUFFICES ASSUME RunInit
             PROVE  mds = FirstMeta(Sent)
  BY Zenon DEF FirstMetadata, FirstMeta, Named, Places
<1>1. taken = <<>> /\ out = <<>> /\ toSend = <<>> /\ mds = <<>>
  BY DEF RunInit
<1>2. Sent = <<>>
  BY <1>1 DEF Sent
<1>3. Named(<<>>) = {}
  BY DEF Named, ToSet
<1>4. FirstMeta(<<>>) = <<>>
  BY <1>3 DEF FirstMeta
<1> QED
  BY <1>1, <1>2, <1>4

(***************************************************************************)
(* The store goes with the results: those of an event bring it forward,    *)
(* and errors have no tag.                                                 *)
(***************************************************************************)
LEMMA FirstMetadataStep ==
  ASSUME Types, Control, Stream, FirstMetadata, [Next]_vars, Types'
  PROVE  FirstMetadata'
<1>a. /\ FirstMetadata <=> mds = FirstMeta(Sent)
      /\ FirstMetadata' <=> mds' = FirstMeta(Sent')
  BY Zenon DEF FirstMetadata, FirstMeta, Named, Places
<1>b. mds = FirstMeta(Sent)
  BY <1>a
<1>c. Sent \in Seq(ValueResult)
  BY SentGrows
<1>1. ASSUME NEW e \in ValueResult, e.tag = "",
             ListFiles \/ MkLoader \/ SelectResult, toSend' = <<e>>
      PROVE  FirstMeta(Sent') = FirstMeta(Sent)
  <2>1. Sent' = Append(Sent, e)
    <3>1. Sent' = Sent \o toSend'
      BY <1>1, SentGrows
    <3>2. Append(Sent, e) = Sent \o <<e>>
      BY <1>c, AppendIsConcat
    <3> QED
      BY <1>1, <3>1, <3>2
  <2> QED
    BY <1>1, <1>c, <2>1, FirstMetaAppend
<1>2. ASSUME toSend' = <<>>, ListFiles \/ MkLoader \/ SelectResult
      PROVE  FirstMeta(Sent') = FirstMeta(Sent)
  <2>1. Sent' = Sent \o <<>>
    BY <1>2, SentGrows
  <2> QED
    BY <1>c, <2>1, ConcatEmptySeq
<1>3. \A f \in Files \cup {0}, i \in Nat : Err(f, i) \in ValueResult /\ Err(f, i).tag = ""
  BY ErrType DEF Err
<1>4. CASE ListFiles
  <2>1. mds' = mds /\ (toSend' = <<>> \/ toSend' = <<Err(0, 0)>>)
    BY <1>4, Zenon DEF ListFiles, Control, CallerState
  <2> HIDE DEF Err
  <2>2. FirstMeta(Sent') = FirstMeta(Sent)
    <3>1. Err(0, 0) \in ValueResult /\ Err(0, 0).tag = ""
      BY <1>3
    <3> QED
      BY <1>1, <1>2, <1>4, <2>1, <3>1, Zenon
  <2> QED
    BY <1>a, <1>b, <2>1, <2>2
<1>5. CASE MkLoader
  <2> DEFINE f == Min(todo \ Known)
  <2> HIDE DEF f
  <2>1. f \in Files
    <3>1. todo \ Known \in SUBSET Nat /\ todo \ Known # {} /\ todo \subseteq Files
      BY <1>5, RunAssumption DEF MkLoader, Types, TypeOK
    <3> QED
      BY <3>1, LeastNatural DEF f
  <2>2. mds' = mds /\ (toSend' = <<>> \/ toSend' = <<Err(f, 0)>>)
    BY <1>5, Zenon DEF MkLoader, f
  <2>3. Err(f, 0) \in ValueResult /\ Err(f, 0).tag = ""
    BY <1>3, <2>1
  <2>4. FirstMeta(Sent') = FirstMeta(Sent)
    BY <1>1, <1>2, <1>5, <2>2, <2>3, Zenon
  <2> QED
    BY <1>a, <1>b, <2>2, <2>4
<1>6. CASE SelectResult
  <2> DEFINE res == result[cur]
             ds  == Datums(content, cur, res.rec, mds)
  <2>1. /\ cur \in Files /\ pc[cur] = "result" /\ res \in Result
        /\ content \in Contents
    BY <1>6 DEF SelectResult, Control, CallerState, TakeResult, Types
  <2>2. res.status = "event" => res.rec \in 1 .. Len(content[cur])
    BY <2>1, HeldRecord DEF Stream
  <2>3. \/ toSend' = <<Err(cur, res.rec)>> /\ mds' = mds
        \/ /\ res.status = "event" /\ toSend' = ds
           /\ mds' = EventValues(content[cur][res.rec].values, mds).mds
    BY <1>6, Zenon DEF SelectResult, Datums
  <2> HIDE DEF res, ds
  <2>4. CASE toSend' = <<Err(cur, res.rec)>> /\ mds' = mds
    <3>1. Err(cur, res.rec) \in ValueResult /\ Err(cur, res.rec).tag = ""
      BY <1>3, <2>1 DEF Result
    <3>2. FirstMeta(Sent') = FirstMeta(Sent)
      BY <1>1, <1>6, <2>4, <3>1, Zenon
    <3> QED
      BY <1>a, <1>b, <2>4, <3>2
  <2>5. CASE /\ res.status = "event" /\ toSend' = ds
             /\ mds' = EventValues(content[cur][res.rec].values, mds).mds
    <3>1. Sent' = Sent \o ds
      BY <1>6, <2>5, SentGrows
    <3>2. res.rec \in 1 .. Len(content[cur])
      BY <2>2, <2>5
    <3>3. EventValues(content[cur][res.rec].values, FirstMeta(Sent)).mds =
            FirstMeta(Sent \o Datums(content, cur, res.rec, FirstMeta(Sent)))
      BY <1>c, <2>1, <3>2, FirstMetaEvent, Zenon
    <3> QED
      BY <1>a, <1>b, <2>5, <3>1, <3>3 DEF ds
  <2> QED
    BY <2>3, <2>4, <2>5
<1>7. CASE ~ (ListFiles \/ MkLoader \/ SelectResult)
  <2>1. Sent' = Sent
    BY <1>7, SentGrows
  <2>2. mds' = mds
    BY <1>7, Zenon DEF Next, Writer, Loading, Consumer, CreateFile, Append1, ReadFile,
       Abort, MkLoadersDone, ReadFrom, SelectAsleep, Send, ReloadReturn, Receive,
       Consumed, Reload, Close, vars, readerVars
  <2> QED
    BY <1>a, <1>b, <2>1, <2>2
<1> QED
  BY <1>4, <1>5, <1>6, <1>7

-----------------------------------------------------------------------------
\* The inductive invariant.
IInv == Types /\ Control /\ Stream /\ Progress /\ Relay /\ FirstMetadata

(***************************************************************************)
(* It holds in every state of the reader, whatever the files, their        *)
(* contents, the order of the steps and the errors.                        *)
(***************************************************************************)
THEOREM Inductive == Spec => []IInv
<1>1. RunInit => IInv
  BY TypesInit, ControlInit, StreamHolds, ProgressInit, RelayInit, FirstMetadataInit
     DEF IInv
<1>2. IInv /\ [Next]_vars => IInv'
  <2> SUFFICES ASSUME IInv, [Next]_vars
               PROVE  IInv'
    OBVIOUS
  <2>1. Types /\ Control /\ Stream /\ Progress /\ Relay /\ FirstMetadata
    BY DEF IInv
  <2>2. Types'
    BY <2>1, TypesStep
  <2>3. Control'
    BY <2>1, ControlStep
  <2>4. Stream'
    BY <2>1, StreamStep
  <2>5. Progress'
    BY <2>1, <2>2, ProgressStep
  <2>6. Relay'
    BY <2>1, <2>2, <2>4, RelayStep
  <2>7. FirstMetadata'
    BY <2>1, <2>2, FirstMetadataStep
  <2> QED
    BY <2>2, <2>3, <2>4, <2>5, <2>6, <2>7 DEF IInv
<1> QED
  BY <1>1, <1>2, PTL DEF Spec

(***************************************************************************)
(* The variables keep their types.                                         *)
(***************************************************************************)
THEOREM TypeCorrect == Spec => []TypeOK
<1>1. IInv => TypeOK
  BY DEF IInv, Types
<1> QED
  BY <1>1, Inductive, PTL

(***************************************************************************)
(* No goroutine reads a file that is not open, and none is left behind     *)
(* that Close does not stop.                                               *)
(***************************************************************************)
THEOREM FilesOpen == Spec => []FileOpenWhileRead
<1>1. IInv => FileOpenWhileRead
  <2> SUFFICES ASSUME IInv, NEW f \in Files
               PROVE  /\ pc[f] \in {"read", "result", "sleep"} => f \in fds
                      /\ loaders[f] = "live" => f \in fds /\ pc[f] # "dead"
                      /\ (pc[f] = "wait" /\ (next[f] > 1 \/ got[f] # <<>>)) =>
                           loaders[f] = "live" \/ f \in aborting
    BY DEF FileOpenWhileRead
  <2>1. FileState(f) /\ loaders[f] \in {"absent", "live", "dead"}
    BY DEF IInv, Control, Types, TypeOK
  <2> QED
    BY <2>1 DEF FileState, Reading
<1> QED
  BY <1>1, Inductive, PTL

(***************************************************************************)
(* When Reload has returned, what was visible at the call has been read,   *)
(* or an error has been sent that says why not.                            *)
(***************************************************************************)
THEOREM ReloadReads == Spec => []ReadToEOF
<1>1. IInv => ReadToEOF
  <2> SUFFICES ASSUME IInv, caller = "idle", reloads > 0
               PROVE  /\ toSend = <<>>
                      /\ \A f \in Files : atReload[f] > 0 =>
                           \/ loaders[f] = "live" /\ Len(got[f]) >= atReload[f]
                           \/ loaders[f] = "absent" /\ ErrorSent(f)
    BY DEF ReadToEOF, ErrorSent
  <2>1. toSend = <<>>
    BY DEF IInv, Control, CallerState
  <2> QED
    BY <2>1 DEF IInv, Progress, FileProgress
<1> QED
  BY <1>1, Inductive, PTL

(***************************************************************************)
(* The values and the record errors of a file come out once each and in    *)
(* file order, over all reloads.                                           *)
(***************************************************************************)
THEOREM EachValueOnce == Spec => []Relayed
<1>1. IInv => Relayed
  <2> SUFFICES ASSUME IInv, NEW f \in Files
               PROVE  /\ \A i \in DOMAIN got[f] : got[f][i].rec \in {i, 0}
                      /\ SentFrom(f) = Expected(f)
    BY DEF Relayed
  <2>1. got[f] \in Seq(Result) /\ FileStream(f)
    BY DEF IInv, Types, Stream
  <2>2. DOMAIN got[f] = 1 .. Len(got[f])
    BY <2>1, LenProperties
  <2> QED
    BY <2>1, <2>2 DEF IInv, Relay, FileStream
<1> QED
  BY <1>1, Inductive, PTL

(***************************************************************************)
(* The store holds the metadata of the first value sent for each tag.      *)
(***************************************************************************)
THEOREM StoreHoldsTheFirst == Spec => []FirstMetadata
<1>1. IInv => FirstMetadata
  BY DEF IInv
<1> QED
  BY <1>1, Inductive, PTL

(***************************************************************************)
(* The files of a reload are read one at a time, in the order of their     *)
(* names.                                                                  *)
(***************************************************************************)
THEOREM InNameOrder == Spec => OneFileInOrder
<1> DEFINE Step == /\ cur' \in Nat => cur' = 0 \/ cur' >= cur
                   /\ \A f \in Files : pc'[f] \in {"read", "result", "sleep"} => f = cur'
<1>1. IInv /\ IInv' /\ [Next]_vars => [Step]_vars
  <2> SUFFICES ASSUME IInv, IInv', [Next]_vars
               PROVE  Step
    OBVIOUS
  <2>1. ASSUME NEW f \in Files, pc'[f] \in {"read", "result", "sleep"}
        PROVE  f = cur'
    BY <2>1 DEF IInv, Control, FileState, Reading
  <2>2. cur' = cur \/ cur' = 0 \/ ReadFrom
    BY Zenon DEF Next, Writer, Loading, Consumer, CreateFile, Append1, ReadFile, Abort,
       ListFiles, StartReading, MkLoader, MkLoadersDone, SelectAsleep, SelectResult,
       Send, ReloadReturn, Receive, Consumed, Reload, Close, vars, readerVars
  <2>3. ASSUME ReadFrom
        PROVE  cur' >= cur
    <3>1. /\ NextFile \in Files /\ NextFile \in todo /\ loaders[NextFile] = "live"
          /\ cur' = NextFile /\ rrpc = "next"
      BY <2>3, NextFileIsFirst DEF ReadFrom, IInv
    <3>2. NextFile > cur
      BY <3>1 DEF IInv, Control, FileState
    <3>3. NextFile \in Nat /\ cur \in Nat
      BY <3>1, RunAssumption DEF IInv, Types, TypeOK
    <3> QED
      BY <3>1, <3>2, <3>3
  <2>4. cur \in Nat
    BY RunAssumption DEF IInv, Types, TypeOK
  <2> QED
    BY <2>1, <2>2, <2>3, <2>4
<1> HIDE DEF Step
<1>2. [][Step]_vars => OneFileInOrder
  BY PTL DEF OneFileInOrder, Step
<1> QED
  BY <1>1, <1>2, Inductive, PTL DEF Spec

-----------------------------------------------------------------------------
\* How many of the results of a file are about a record of it; whether one of
\* them has ended it.
Given(s) == Cardinality({i \in DOMAIN s : s[i].rec > 0})
Fatal(s) == \E r \in ToSet(s) : r.status = "fatal"

\* What RunSource sees of the files' goroutines.
Place == [f \in Files |-> Given(got[f])]
Ended == {f \in Files : Fatal(got[f])}

(***************************************************************************)
(* A result that is about no record does not count; as long as all are     *)
(* about records, they all do.                                             *)
(***************************************************************************)
LEMMA GivenAppend ==
  ASSUME NEW s \in Seq(Result), NEW r \in Result,
         \A i \in 1 .. Len(s) : s[i].rec > 0
  PROVE  /\ Given(s) = Len(s)
         /\ Given(Append(s, r)) = IF r.rec > 0 THEN Len(s) + 1 ELSE Len(s)
<1>1. DOMAIN s = 1 .. Len(s) /\ Len(s) \in Nat
  BY LenProperties
<1>a. 1 \in Int /\ Len(s) \in Int /\ Len(s) + 1 \in Int
  BY <1>1
<1>2. Given(s) = Len(s)
  <2>1. {i \in DOMAIN s : s[i].rec > 0} = 1 .. Len(s)
    BY <1>1
  <2>2. Cardinality(1 .. Len(s)) = Len(s)
    BY <1>1, <1>a, FS_Interval
  <2> QED
    BY <2>1, <2>2 DEF Given
<1> DEFINE t == Append(s, r)
<1>3. /\ Len(t) = Len(s) + 1 /\ t[Len(s) + 1] = r
      /\ \A i \in 1 .. Len(s) : t[i] = s[i]
      /\ t \in Seq(Result)
  BY AppendProperties
<1> HIDE DEF t
<1>4. DOMAIN t = 1 .. Len(s) + 1
  BY <1>3, LenProperties
<1>5. CASE r.rec > 0
  <2>1. {i \in DOMAIN t : t[i].rec > 0} = 1 .. Len(s) + 1
    BY <1>1, <1>3, <1>4, <1>5
  <2>2. Cardinality(1 .. Len(s) + 1) = Len(s) + 1
    BY <1>1, <1>a, FS_Interval
  <2> QED
    BY <1>2, <1>5, <2>1, <2>2 DEF Given, t
<1>6. CASE ~(r.rec > 0)
  <2>1. {i \in DOMAIN t : t[i].rec > 0} = {i \in DOMAIN s : s[i].rec > 0}
    BY <1>1, <1>3, <1>4, <1>6
  <2> QED
    BY <1>2, <1>6, <2>1 DEF Given, t
<1> QED
  BY <1>5, <1>6

(***************************************************************************)
(* A file whose goroutine goes on has given one record per result, and is  *)
(* not ended.                                                              *)
(***************************************************************************)
LEMMA PlaceOfGoing ==
  ASSUME Types, Stream, NEW f \in Files, pc[f] # "dead"
  PROVE  /\ Place[f] = Len(got[f]) /\ f \notin Ended
         /\ \A i \in 1 .. Len(got[f]) : got[f][i].rec > 0
<1>1. got[f] \in Seq(Result) /\ FileStream(f)
  BY DEF Types, Stream
<1>2. \A i \in 1 .. Len(got[f]) : got[f][i].rec > 0 /\ got[f][i].status # "fatal"
  BY <1>1 DEF FileStream
<1>3. DOMAIN got[f] = 1 .. Len(got[f])
  BY <1>1, LenProperties
<1>4. Given(got[f]) = Len(got[f])
  <2>1. [rec |-> 0, status |-> "none"] \in Result
    BY DEF Result
  <2> QED
    BY <1>1, <1>2, <2>1, GivenAppend
<1> QED
  BY <1>2, <1>3, <1>4 DEF Place, Ended, Fatal, ToSet

(***************************************************************************)
(* A result more ends the file if it is fatal, or one before it was.       *)
(***************************************************************************)
LEMMA FatalAppend ==
  ASSUME NEW s \in Seq(Result), NEW r \in Result
  PROVE  Fatal(Append(s, r)) <=> Fatal(s) \/ r.status = "fatal"
<1>1. <<r>> \in Seq(Result) /\ Append(s, r) = s \o <<r>>
  BY AppendIsConcat
<1>2. ToSet(<<r>>) = {r}
  BY DEF ToSet
<1>a. \A a \in Seq(Result), b \in Seq(Result) : ToSet(a \o b) = ToSet(a) \cup ToSet(b)
  BY ElementsOfConcat
<1>3. ToSet(s \o <<r>>) = ToSet(s) \cup {r}
  BY <1>1, <1>2, <1>a, Zenon
<1> QED
  BY <1>1, <1>3 DEF Fatal

(***************************************************************************)
(* RunSource turns an event into the same values, ...                      *)
(***************************************************************************)
LEMMA SameValues ==
  \A vs, m : Source!EventValues(vs, m) = EventValues(vs, m)
BY DEF EventValues, FoldLeft, MapThenFoldSet, Max, Min, Migrate, MigrateGraphDef, MigrateValue,
       Migrated, Put, PutNew, TensorOf, HistogramTensor, Lefts, Rights, Buckets, GraphTensor,
       Decimal, NoTensor, NoMeta, GraphMeta, LegacyMeta, TensorClass, FlattenSeq,
       Source!EventValues, Source!FoldLeft, Source!MapThenFoldSet, Source!Max, Source!Min,
       Source!Migrate, Source!MigrateGraphDef, Source!MigrateValue, Source!Migrated,
       Source!Put, Source!PutNew, Source!TensorOf, Source!HistogramTensor, Source!Lefts,
       Source!Rights, Source!Buckets, Source!GraphTensor, Source!Decimal, Source!NoTensor,
       Source!NoMeta, Source!GraphMeta, Source!LegacyMeta, Source!TensorClass, Source!FlattenSeq

(***************************************************************************)
(* ... and values and errors into the same results.                        *)
(***************************************************************************)
LEMMA SameResults ==
  /\ \A f, i, v : Source!Value(f, i, v) = Datum(f, i, v)
  /\ \A f, i : Source!Error(f, i) = Err(f, i)
BY DEF Source!Value, Source!Error, Source!NoMeta, Datum, Err, NoMeta

(***************************************************************************)
(* Files and the directory that cannot be read.                            *)
(***************************************************************************)
LEMMA TroubleRefines ==
  ASSUME IInv, ListFiles \/ MkLoader
  PROVE  Source!Trouble \/ UNCHANGED <<content, got, mds, cur, caller, Sent>>
<1>0. Types /\ Control /\ [Next]_vars
  BY Zenon DEF IInv, Next, Loading
<1>1. Sent \in Seq(ValueResult) /\ Sent' = Sent \o toSend' /\ caller = "waiting" /\ cur = 0
  BY <1>0, SentGrows DEF Control, CallerState, ListFiles, MkLoader
<1>2. /\ UNCHANGED <<content, got, mds, cur, caller>>
      /\ toSend' = <<>> \/ \E f \in Files \cup {0} : toSend' = <<Err(f, 0)>>
  <2>1. CASE ListFiles
    BY <1>0, <1>1, <2>1 DEF ListFiles, StartReading, Control, CallerState, envVars, streamVars
  <2>2. CASE MkLoader
    <3>1. Min(todo \ Known) \in Files
      <4>1. todo \ Known \in SUBSET Nat /\ todo \ Known # {}
        BY <1>0, <2>2, RunAssumption DEF MkLoader, Types, TypeOK
      <4> QED
        BY <1>0, <4>1, LeastNatural DEF Types, TypeOK
    <3> QED
      BY <2>2, <3>1 DEF MkLoader, envVars, streamVars
  <2> QED
    BY <2>1, <2>2
<1>3. CASE toSend' = <<>>
  <2>1. Sent' = Sent
    BY <1>1, <1>3, ConcatEmptySeq
  <2> QED
    BY <1>2, <2>1
<1>4. ASSUME NEW f \in Files \cup {0}, toSend' = <<Err(f, 0)>>
      PROVE  Source!Trouble
  <2>1. Err(f, 0) \in ValueResult
    BY ErrType
  <2>2. Sent' = Append(Sent, Source!Error(f, 0))
    BY <1>1, <1>4, <2>1, AppendIsConcat, SameResults
  <2> QED
    BY <1>1, <1>2, <2>2 DEF Source!Trouble
<1> QED
  BY <1>2, <1>3, <1>4, Zenon

(***************************************************************************)
(* A result that is received is handed over.                               *)
(***************************************************************************)
LEMMA ResultRefines ==
  ASSUME IInv, SelectResult
  PROVE  Source!HandOver \/ Source!ReadError
<1> DEFINE res == result[cur]
           n == Len(got[cur])
           e == content[cur][n + 1]
           ev == EventValues(e.values, mds)
<1>0. Types /\ Control /\ Stream /\ [Next]_vars
  BY Zenon DEF IInv, Next, Loading
<1>1. /\ Sent \in Seq(ValueResult) /\ Sent' = Sent \o toSend'
      /\ caller = "waiting" /\ cur \in Files /\ pc[cur] = "result"
      /\ res \in Result /\ got[cur] \in Seq(Result) /\ n \in Nat
      /\ got' = [got EXCEPT ![cur] = Append(@, res)]
      /\ UNCHANGED <<content, cur, caller>>
  <2>1. cur \in Files /\ caller = "waiting"
    BY <1>0 DEF Control, CallerState, SelectResult
  <2>2. got[cur] \in Seq(Result)
    BY <1>0, <2>1 DEF Types
  <2>3. n \in Nat
    BY <2>2, LenProperties
  <2> QED
    BY <1>0, <2>1, <2>2, <2>3, SentGrows DEF SelectResult, TakeResult, Types, envVars
<1>2. /\ Place[cur] = n /\ cur \notin Ended
      /\ \A i \in 1 .. n : got[cur][i].rec > 0
  BY <1>0, <1>1, PlaceOfGoing
<1>3. /\ Given(Append(got[cur], res)) = IF res.rec > 0 THEN n + 1 ELSE n
      /\ Fatal(Append(got[cur], res)) <=> res.status = "fatal"
  <2>2. ~Fatal(got[cur])
    BY <1>1, <1>2 DEF Ended
  <2> QED
    BY <1>1, <1>2, <2>2, GivenAppend, FatalAppend
<1>4. /\ Place' = [Place EXCEPT ![cur] = IF res.rec > 0 THEN n + 1 ELSE n]
      /\ Ended' = IF res.status = "fatal" THEN Ended \cup {cur} ELSE Ended
  <2>1. \A f \in Files : got'[f] = IF f = cur THEN Append(got[cur], res) ELSE got[f]
    BY <1>0, <1>1 DEF Types
  <2>2. Place' = [Place EXCEPT ![cur] = IF res.rec > 0 THEN n + 1 ELSE n]
    <3>1. \A f \in Files : Given(got'[f]) = IF f = cur THEN (IF res.rec > 0 THEN n + 1 ELSE n)
                                         ELSE Given(got[f])
      BY <1>1, <1>3, <2>1
    <3> HIDE DEF n
    <3> QED
      BY <1>1, <3>1 DEF Place
  <2>3. Ended' = IF res.status = "fatal" THEN Ended \cup {cur} ELSE Ended
    BY <1>1, <1>3, <2>1, <1>2, Zenon DEF Ended
  <2> QED
    BY <2>2, <2>3
<1>5. /\ res.rec = 0 /\ res.status = "fatal"
      \/ /\ res.rec = n + 1 /\ n < Len(content[cur])
         /\ res.status = Status(e)
  BY <1>0, <1>1 DEF Stream, FileStream
<1>6. ~(0 > 0) /\ (n + 1 > 0)
  BY <1>1
<1>a. res.status # "none" => res.status \in {"event", "error", "fatal"}
  BY <1>1 DEF Result
<1>7. CASE res.rec = 0 /\ res.status = "fatal"
  <2>1. /\ toSend' = <<Err(cur, 0)>> /\ mds' = mds
    BY <1>7, Zenon DEF SelectResult
  <2>2. Sent' = Append(Sent, Source!Error(cur, 0))
    <3>1. Err(cur, 0) \in ValueResult
      BY <1>1, ErrType
    <3> QED
      BY <1>1, <2>1, <3>1, AppendIsConcat, SameResults
  <2>3. Place' = Place /\ Ended' = Ended \cup {cur}
    BY <1>1, <1>2, <1>4, <1>7, <1>6 DEF Place
  <2> QED
    BY <1>1, <1>2, <2>1, <2>2, <2>3 DEF Source!ReadError, Place, Ended, Given, Fatal
<1>8. CASE res.rec = n + 1 /\ n < Len(content[cur]) /\ res.status = Status(e)
  <2>1. Place' = [Place EXCEPT ![cur] = n + 1]
    BY <1>4, <1>6, <1>8
  <2>2. CASE e.kind = "event"
    <3>1. res.status = "event"
      BY <1>8, <2>2 DEF Status
    <3>2. toSend' = [i \in 1 .. Len(ev.values) |-> Datum(cur, n + 1, ev.values[i])] /\ mds' = ev.mds
      BY <1>8, <3>1 DEF SelectResult
    <3>3. DOMAIN ev.values = 1 .. Len(ev.values)
      <4>1. ev.values \in Seq(MigratedValue)
        <5>1. n + 1 \in 1 .. Len(content[cur])
          <6>1. content[cur] \in Seq(ToSet(content[cur]))
            BY <1>0, <1>1, ContentsAssumption DEF Types
          <6>2. Len(content[cur]) \in Nat
            BY <6>1, LenProperties
          <6> QED
            BY <1>1, <1>8, <6>2
        <5>2. content \in Contents
          BY <1>0 DEF Types
        <5>3. e.values \in Seq(FileValues)
          BY <1>1, <5>1, <5>2, DatumsType
        <5> QED
          BY <5>3, EventValuesType DEF MigratedValue
      <4> QED
        BY <4>1, LenProperties
    <3>4. Source!HandOver
      <4>1. /\ Source!EventValues(e.values, mds) = ev
            /\ [j \in DOMAIN ev.values |-> Source!Value(cur, n + 1, ev.values[j])] = toSend'
        BY <3>2, <3>3, SameValues, SameResults
      <4>2. Ended' = Ended
        BY <1>4, <3>1
      <4>3. Sent' = Sent \o [j \in DOMAIN ev.values |-> Source!Value(cur, n + 1, ev.values[j])]
        BY <1>1, <4>1, Zenon
      <4> HIDE DEF n, e
      <4> QED
        BY <1>1, <1>2, <1>8, <2>1, <2>2, <3>2, <4>1, <4>2, <4>3, ZenonT(40)
           DEF Source!HandOver, Place, Ended, Given, Fatal, n, e
    <3> QED
      BY <3>4
  <2>3. CASE e.kind # "event"
    <3>1. res.status = IF e.kind = "badLength" THEN "fatal" ELSE "error"
      BY <1>8, <2>3 DEF Status
    <3>2. toSend' = <<Err(cur, n + 1)>> /\ mds' = mds
      BY <1>8, <3>1 DEF SelectResult
    <3>3. Sent' = Append(Sent, Source!Error(cur, n + 1))
      <4>1. Err(cur, n + 1) \in ValueResult
        BY <1>1, ErrType
      <4> QED
        BY <1>1, <3>2, <4>1, AppendIsConcat, SameResults
    <3>4. Ended' = IF e.kind = "badLength" THEN Ended \cup {cur} ELSE Ended
      BY <1>4, <3>1
    <3> QED
      BY <1>1, <1>2, <1>8, <2>1, <2>3, <3>2, <3>3, <3>4
         DEF Source!HandOver, Place, Ended, Given, Fatal
  <2> QED
    BY <2>2, <2>3
<1> QED
  BY <1>5, <1>7, <1>8

(***************************************************************************)
(* The next file gets its turn.                                            *)
(***************************************************************************)
LEMMA TurnRefines ==
  ASSUME IInv, ReadFrom
  PROVE  Source!Turn
<1>1. Types /\ Control /\ Stream /\ [Next]_vars
  BY Zenon DEF IInv, Next, Loading
<1>2. /\ NextFile \in Files /\ NextFile \in todo /\ loaders[NextFile] = "live"
      /\ rrpc = "next" /\ cur' = NextFile
      /\ UNCHANGED <<content, got, mds, caller, toSend, out, taken>>
  BY <1>1, NextFileIsFirst DEF ReadFrom, WakeUp, envVars
<1>3. NextFile > cur /\ caller = "waiting" /\ pc[NextFile] # "dead"
  BY <1>1, <1>2 DEF Control, CallerState, FileState
<1>4. NextFile \notin Ended
  BY <1>1, <1>2, <1>3, PlaceOfGoing
<1>5. Sent' = Sent
  BY <1>2 DEF Sent
<1> QED
  BY <1>2, <1>3, <1>4, <1>5 DEF Source!Turn, Ended, Fatal

(***************************************************************************)
(* What the caller does; the rest cannot be seen from outside.             *)
(***************************************************************************)
LEMMA CallerRefines ==
  ASSUME IInv, [Next]_vars
  PROVE  /\ Reload => Source!Call
         /\ ReloadReturn => Source!Return
         /\ \/ ListFiles \/ MkLoader \/ SelectResult \/ ReadFrom \/ Reload \/ ReloadReturn
            \/ UNCHANGED <<content, got, mds, cur, caller = "waiting", Sent>>
<1>0. Types /\ Control
  BY DEF IInv
<1>1. Sent' = Sent \/ ListFiles \/ MkLoader \/ SelectResult
  BY <1>0, SentGrows
<1>2. ASSUME Reload
      PROVE  Source!Call
  <2>1. /\ caller = "idle" /\ caller' = "waiting"
        /\ UNCHANGED <<content, got, mds, cur, toSend, out, taken>>
    BY <1>2, Zenon DEF Reload, streamVars
  <2> QED
    BY <2>1 DEF Source!Call, Sent
<1>3. ASSUME ReloadReturn
      PROVE  Source!Return
  <2>1. /\ caller = "waiting" /\ caller' = "idle" /\ cur' = 0
        /\ UNCHANGED <<content, got, mds, toSend, out, taken>>
    BY <1>3, Zenon DEF ReloadReturn, streamVars
  <2> QED
    BY <2>1 DEF Source!Return, Sent
<1>4. ASSUME MkLoadersDone
      PROVE  UNCHANGED <<content, got, mds, cur, caller = "waiting", toSend, out, taken>>
  <2>1. cur = 0
    BY <1>0, <1>4 DEF MkLoadersDone, Control, CallerState
  <2>2. UNCHANGED <<content, got, mds, cur, caller, toSend, out, taken>>
    BY <1>4, <2>1 DEF MkLoadersDone, StartReading, streamVars, envVars
  <2> QED
    BY <2>2
<1>5. ASSUME Close
      PROVE  UNCHANGED <<content, got, mds, cur, caller = "waiting", toSend, out, taken>>
  <2>1. /\ caller = "idle" /\ caller' = "closed"
        /\ UNCHANGED <<content, got, mds, cur, toSend, out, taken>>
    BY <1>5, Zenon DEF Close, streamVars
  <2> QED
    BY <2>1
<1>6. \/ ListFiles \/ MkLoader \/ SelectResult \/ ReadFrom \/ Reload \/ ReloadReturn
      \/ MkLoadersDone \/ Close \/ UNCHANGED <<content, got, mds, cur, caller>>
  BY Zenon DEF Next, Writer, Loading, Consumer, CreateFile, Append1, Write, ReadFile,
     ReadRecord, ReadEOF, ReadError, SetResult, WakeUp, TakeAsleep, Abort, SelectAsleep, Send,
     Receive, Consumed, vars, streamVars, readerVars, envVars
<1>7. /\ UNCHANGED <<content, got, mds, cur, caller = "waiting", toSend, out, taken>> =>
           UNCHANGED <<content, got, mds, cur, caller = "waiting", Sent>>
      /\ (UNCHANGED <<content, got, mds, cur, caller>> /\ Sent' = Sent) =>
           UNCHANGED <<content, got, mds, cur, caller = "waiting", Sent>>
  BY DEF Sent
<1> QED
  BY <1>1, <1>2, <1>3, <1>4, <1>5, <1>6, <1>7, Zenon

(***************************************************************************)
(* The reader of a run keeps the promise of RunSource to the consumer of   *)
(* its channel: what has been handed over is what the files hold, each     *)
(* once, in the order of their names, with the metadata the values before  *)
(* it leave for it.                                                        *)
(***************************************************************************)
THEOREM Refinement == Spec => ImplementsRunSource
<1>1. RunInit => Source!Init
  <2> SUFFICES ASSUME RunInit
               PROVE  Source!Init
    OBVIOUS
  <2>1. \A f \in Files : got[f] = <<>>
    BY DEF RunInit, StreamInit
  <2>2. Given(<<>>) = 0 /\ ~Fatal(<<>>)
    BY FS_EmptySet DEF Given, Fatal, ToSet
  <2>3. Place = [f \in Files |-> 0] /\ Ended = {}
    BY <2>1, <2>2 DEF Place, Ended
  <2>4. Sent = <<>> /\ mds = <<>> /\ cur = 0 /\ caller = "idle"
    BY EmptySeq DEF RunInit, Sent
  <2> QED
    BY <2>3, <2>4 DEF Source!Init, Place, Ended, Given, Fatal
<1>2. IInv /\ [Next]_vars => [Source!Next]_(Source!vars)
  <2> SUFFICES ASSUME IInv, [Next]_vars
               PROVE  Source!Next \/ UNCHANGED Source!vars
    OBVIOUS
  <2>1. UNCHANGED <<content, got, mds, cur, caller = "waiting", Sent>> => UNCHANGED Source!vars
    BY DEF Source!vars
  <2>2. ListFiles \/ MkLoader =>
          Source!Next \/ UNCHANGED <<content, got, mds, cur, caller = "waiting", Sent>>
    BY TroubleRefines DEF Source!Next
  <2>3. SelectResult => Source!Next
    BY ResultRefines, Zenon DEF Source!Next
  <2>4. ReadFrom => Source!Next
    BY TurnRefines, Zenon DEF Source!Next
  <2>5. Reload \/ ReloadReturn => Source!Next
    BY CallerRefines, Zenon DEF Source!Next
  <2> QED
    BY <2>1, <2>2, <2>3, <2>4, <2>5, CallerRefines, Zenon
<1> QED
  BY <1>1, <1>2, Inductive, PTL DEF Spec, ImplementsRunSource, Source!Spec
===============================================================================
