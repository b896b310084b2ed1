------------------------------ MODULE LogdirLoader ------------------------------
(***************************************************************************)
(* The loader of a log directory (io/logdir/loader.go), polled by main.go, *)
(* while runs come and go on disk.                                         *)
(*                                                                         *)
(* A run's reader and accumulator are made together; "reader" n is the nth *)
(* such pair.  ll.mu is held for whole critical sections that wait for     *)
(* nothing else, so each is one step; reload and asleep are unbuffered.    *)
(* What a run's Reload does is in RunReader; here it starts and it ends.   *)
(***************************************************************************)
EXTENDS RunDirs, Integers, FiniteSets

CONSTANTS Logdir,     \* the path given to the loader
          Dirs,       \* the paths of the directories that may hold event files
          MaxChanges  \* bound: how often a directory appears or disappears

ASSUME LoaderAssumption ==
  /\ MaxChanges \in Nat
  /\ Logdir \in Seq(STRING) /\ IsFiniteSet(Dirs)
  /\ \A d \in Dirs : d \in Seq(STRING) /\ IsPrefix(Logdir, d)

VARIABLES disk,       \* the directories that hold event files now
          changes,    \* how often that has changed
          poller,     \* the caller: "idle", "waiting" in Reload, or "closed"
          llpc,       \* where the loader's goroutine is
          toVisit,    \* the entries that FindFiles has still to visit
          files,      \* the directories of the event files it has found
          rundirs,    \* what has been discovered: names to paths
          readers,    \* ll.readers: names to readers
          data,       \* ll.data: names to readers, for their accumulators
          state,      \* of each reader: [path, doing]
          wg,         \* the readers that doreload waits for
          stayed,     \* history: the directories that held event files all
          appeared,   \*   through the last discovery, and at some time in it
          reloaded    \* history: the readers reloaded since then

diskVars == <<disk, changes>>
walkVars == <<toVisit, files, stayed, appeared>>
vars == <<diskVars, walkVars, poller, llpc, rundirs, readers, data, state, wg,
          reloaded>>

Init ==
  /\ disk \in SUBSET Dirs /\ changes = 0
  /\ poller = "idle" /\ llpc = "idle"
  /\ toVisit = <<>> /\ files = <<>>
  /\ rundirs = <<>> /\ readers = <<>> /\ data = <<>> /\ state = <<>>
  /\ wg = {}
  /\ stayed = {} /\ appeared = {} /\ reloaded = {}

-----------------------------------------------------------------------------
\* A run directory gets its first event file, or is removed.
Change(d) ==
  /\ changes < MaxChanges
  /\ changes' = changes + 1
  /\ disk' = IF d \in disk THEN disk \ {d} ELSE disk \cup {d}
  /\ IF llpc = "walk"
     THEN stayed' = stayed \ {d} /\ appeared' = appeared \cup {d}
     ELSE UNCHANGED <<stayed, appeared>>
  /\ UNCHANGED <<toVisit, files, poller, llpc, rundirs, readers, data, state,
                 wg, reloaded>>

\* An entry of a directory: a subdirectory, or the event file in it.
Dir(d) == [path |-> d, what |-> "dir"]
EventFile(d) == [path |-> d, what |-> "file"]

\* ll.reload <- struct{}{} of main's polling goroutine; ll.rundirs() starts.
Reload ==
  /\ poller = "idle" /\ llpc = "idle"
  /\ poller' = "waiting" /\ llpc' = "walk"
  /\ toVisit' = <<Dir(Logdir)>> /\ files' = <<>>
  /\ stayed' = disk /\ appeared' = disk
  /\ UNCHANGED <<diskVars, rundirs, readers, data, state, wg, reloaded>>

Below(d) == {e \in disk : IsStrictPrefix(d, e)}
Entries(d) ==
  {Dir(SubSeq(e, 1, Len(d) + 1)) : e \in Below(d)} \cup {EventFile(e) : e \in disk \cap {d}}

\* Mutant of WalkDir: the walk does not come back from a subdirectory.
WalkDirOnce ==
  /\ llpc = "walk" /\ toVisit # <<>> /\ Head(toVisit).what = "dir"
  /\ \E listing \in SetToSeqs(Entries(Head(toVisit).path)) : toVisit' = listing
  /\ UNCHANGED <<diskVars, files, stayed, appeared, poller, llpc, rundirs,
                 readers, data, state, wg, reloaded>>

(***************************************************************************)
(* fs.FindFiles is filepath.Walk: a directory is listed when the walk      *)
(* comes to it, in the order of the names of what it holds, and so the     *)
(* event file comes before, between or after the subdirectories.  A        *)
(* directory whose event files are gone may still be there, and be empty.  *)
(***************************************************************************)
WalkDir ==
  /\ llpc = "walk" /\ toVisit # <<>> /\ Head(toVisit).what = "dir"
  /\ \E listing \in SetToSeqs(Entries(Head(toVisit).path)) :
       toVisit' = listing \o Tail(toVisit)
  /\ UNCHANGED <<diskVars, files, stayed, appeared, poller, llpc, rundirs,
                 readers, data, state, wg, reloaded>>

WalkFile ==
  /\ llpc = "walk" /\ toVisit # <<>> /\ Head(toVisit).what = "file"
  /\ Head(toVisit).path \in disk
  /\ files' = Append(files, Head(toVisit).path)
  /\ toVisit' = Tail(toVisit)
  /\ UNCHANGED <<diskVars, stayed, appeared, poller, llpc, rundirs, readers,
                 data, state, wg, reloaded>>

(***************************************************************************)
(* An entry that has been listed, or the log directory itself, is gone     *)
(* when Walk gets to it: the callback returns the error, which ends the    *)
(* walk and the discovery.  It is logged, and the loop goes on to wait for *)
(* the next reload.                                                        *)
(***************************************************************************)
WalkError ==
  /\ llpc = "walk" /\ toVisit # <<>>
  /\ Head(toVisit).path \notin disk
  /\ Head(toVisit).what = "dir" => Below(Head(toVisit).path) = {}
  /\ llpc' = "idle"
  /\ toVisit' = <<>> /\ files' = <<>>
  /\ UNCHANGED <<diskVars, stayed, appeared, poller, rundirs, readers, data,
                 state, wg, reloaded>>

\* The loop of rundirs over the files found, and the return to start.
Discovered ==
  /\ llpc = "walk" /\ toVisit = <<>>
  /\ rundirs' = RunDirsOf(Logdir, files)
  /\ llpc' = "mkloaders"
  /\ files' = <<>> /\ reloaded' = {}
  /\ UNCHANGED <<diskVars, toVisit, stayed, appeared, poller, readers, data,
                 state, wg>>

Names(m) == DOMAIN m

\* Mutant of Closed: a reader is removed but not closed.
ClosedNone(rs) == state

\* rr.Close() for these readers
Closed(rs) ==
  [r \in DOMAIN state |->
     IF r \in rs THEN [state[r] EXCEPT !.doing = "closed"] ELSE state[r]]

\* Mutant of Gone: a run stays when its directory goes.
GoneNever == {}

Gone == Names(readers) \ Names(rundirs)

\* mkloaders, under ll.mu: close what is gone, start what is new.
MkLoaders ==
  /\ llpc = "mkloaders"
  /\ LET new  == SetToSeq(Names(rundirs) \ Names(readers))
         pair == [name \in ToSet(new) |->
                    Len(state) + CHOOSE i \in DOMAIN new : new[i] = name]
         kept(m) == [name \in Names(m) \ Gone |-> m[name]]
     IN  /\ readers' = PutAll(kept(readers), pair)
         /\ data' = PutAll(kept(data), pair)
         /\ state' = Closed({readers[name] : name \in Gone})
                     \o [i \in DOMAIN new |->
                           [path |-> rundirs[new[i]], doing |-> "asleep"]]
  /\ llpc' = "doreload"
  /\ UNCHANGED <<diskVars, walkVars, poller, rundirs, wg, reloaded>>

\* doreload up to wg.Wait: a goroutine for every reader.
DoReload ==
  /\ llpc = "doreload"
  /\ wg' = {readers[name] : name \in Names(readers)}
  /\ llpc' = "wait"
  /\ UNCHANGED <<diskVars, walkVars, poller, rundirs, readers, data, state, reloaded>>

RunReload(r) ==
  /\ r \in wg /\ state[r].doing = "asleep"
  /\ state' = [state EXCEPT ![r].doing = "reloading"]
  /\ UNCHANGED <<diskVars, walkVars, poller, llpc, rundirs, readers, data, wg, reloaded>>

\* Mutant of RunReloadReturn: wg.Done() is missing.
RunReloadReturnNotDone(r) ==
  /\ r \in wg /\ state[r].doing = "reloading"
  /\ state' = [state EXCEPT ![r].doing = "asleep"]
  /\ reloaded' = reloaded \cup {r}
  /\ UNCHANGED <<diskVars, walkVars, poller, llpc, rundirs, readers, data, wg>>

\* rr.Reload returns; wg.Done()
RunReloadReturn(r) ==
  /\ r \in wg /\ state[r].doing = "reloading"
  /\ state' = [state EXCEPT ![r].doing = "asleep"]
  /\ wg' = wg \ {r}
  /\ reloaded' = reloaded \cup {r}
  /\ UNCHANGED <<diskVars, walkVars, poller, llpc, rundirs, readers, data>>

\* Mutant of ReloadReturn: it does not wait for the runs.
ReloadReturnEarly ==
  /\ llpc = "wait" /\ poller = "waiting"
  /\ llpc' = "idle" /\ poller' = "idle"
  /\ UNCHANGED <<diskVars, walkVars, rundirs, readers, data, state, wg, reloaded>>

\* wg.Wait returns, and ll.asleep <- struct{}{} ends the Reload.
ReloadReturn ==
  /\ llpc = "wait" /\ wg = {}
  /\ poller = "waiting"
  /\ llpc' = "idle" /\ poller' = "idle"
  /\ UNCHANGED <<diskVars, walkVars, rundirs, readers, data, state, wg, reloaded>>

\* Close, by the goroutine that polls; ll.readers keeps its entries.
Close ==
  /\ poller = "idle"
  /\ poller' = "closed"
  /\ data' = <<>>
  /\ state' = Closed({readers[name] : name \in Names(readers)})
  /\ UNCHANGED <<diskVars, walkVars, llpc, rundirs, readers, wg, reloaded>>

-----------------------------------------------------------------------------
Loader ==
  \/ WalkDir \/ WalkFile \/ WalkError \/ Discovered
  \/ MkLoaders \/ DoReload \/ ReloadReturn
Run(r) == RunReload(r) \/ RunReloadReturn(r)
Polling ==
  \/ \E d \in Dirs : Change(d)
  \/ Reload \/ Loader
  \/ \E r \in DOMAIN state : Run(r)
Next == Polling \/ Close

(***************************************************************************)
(* main polls for ever.  The scheduler runs every goroutine that can go    *)
(* on, and the Reload of a run returns (RunReader).                        *)
(***************************************************************************)
Spec ==
  /\ Init /\ [][Next]_vars
  /\ WF_vars(Reload) /\ WF_vars(Loader)
  /\ \A r \in 1 .. Cardinality(Dirs) + MaxChanges :
       WF_vars(r \in DOMAIN state /\ Run(r))

-----------------------------------------------------------------------------
\* The types of the variables.
TypeOK ==
  /\ disk \subseteq Dirs /\ changes \in 0 .. MaxChanges
  /\ poller \in {"idle", "waiting", "closed"}
  /\ llpc \in {"idle", "walk", "mkloaders", "doreload", "wait"}
  /\ \A r \in DOMAIN state : /\ state[r].path \in Dirs
                             /\ state[r].doing \in {"asleep", "reloading", "closed"}
  /\ wg \subseteq DOMAIN state /\ reloaded \subseteq DOMAIN state

(***************************************************************************)
(* "data maps a run name to its event accumulator. Same domain as          *)
(* readers."  More than that: a name stands for one run, whose accumulator *)
(* is fed by the reader of the same run, and no reader in the maps has     *)
(* been closed, nor is one that is not in the maps left open.              *)
(***************************************************************************)
MapsAgree ==
  poller # "closed" =>
    /\ data = readers
    /\ \A m, n \in Names(readers) : readers[m] = readers[n] => m = n
    /\ \A name \in Names(readers) : Rel(Logdir, state[readers[name]].path) = name
    /\ {readers[name] : name \in Names(readers)}
         = {r \in DOMAIN state : state[r].doing # "closed"}

(***************************************************************************)
(* A run reader's methods "must not be called concurrently", and a closed  *)
(* one has no maps left to work with: Close meets no Reload that is going  *)
(* on, and no closed reader is or will be reloaded, even when its run      *)
(* comes back.                                                             *)
(***************************************************************************)
ReadersUsedInTurn ==
  [][\A r \in DOMAIN state :
       /\ state'[r].doing = "closed" => state[r].doing # "reloading" /\ r \notin wg
       /\ state[r].doing = "closed" => state'[r] = state[r]]_vars

(***************************************************************************)
(* "It blocks until the reload finishes": from the return of a Reload to   *)
(* the next, the runs that can be read are the ones that were discovered,  *)
(* and every one of them has been reloaded since, the new ones included.   *)
(***************************************************************************)
ReloadComplete ==
  poller = "idle" =>
    /\ Names(data) = Names(rundirs)
    /\ {data[name] : name \in Names(data)} = reloaded

(***************************************************************************)
(* "rundirs finds all run directories under the logdir" (io/logdir/        *)
(* loader.go:98), while they come and go under it: every directory that    *)
(* had event files all through the walk has become a run, and no other     *)
(* than those that had some at a time during it.                           *)
(***************************************************************************)
AllRunsFound ==
  llpc \in {"mkloaders", "doreload", "wait"} =>
    LET found == {rundirs[name] : name \in Names(rundirs)}
    IN  stayed \subseteq found /\ found \subseteq appeared

\* A failed discovery has left the caller of Reload waiting.
Forsaken == poller = "waiting" /\ llpc = "idle"

(***************************************************************************)
(* A Reload ends, however many runs it starts, closes and waits for; only  *)
(* a discovery that fails can keep it from returning.                      *)
(***************************************************************************)
ReloadEnds == (poller = "waiting") ~> (poller = "idle" \/ Forsaken)

(***************************************************************************)
(* Once the disk stays as it is, what is served comes to be the runs that  *)
(* are on it, and remains so, as long as somebody polls.                   *)
(***************************************************************************)
ServesTheDisk ==
  \/ <>[](Names(data) = {Rel(Logdir, d) : d \in disk})
  \/ <>(poller = "closed" \/ Forsaken)

(***************************************************************************)
(* "Reload polls the log directory and reloads runs. It blocks until the   *)
(* reload finishes" (io/logdir/loader.go:172): it finishes, and returns,   *)
(* at least if the log directory itself holds event files all through the  *)
(* discovery, so that only what is below it may vanish under the walk.     *)
(***************************************************************************)
ReloadReturns == (poller = "waiting") ~> (poller = "idle" \/ Logdir \notin stayed)

(***************************************************************************)
(* Whatever walks, maps, locks and goroutines it takes, those who read     *)
(* the runs see a map that changes in one step, and never one entry of it  *)
(* under a reload.                                                         *)
(***************************************************************************)
Map == INSTANCE RunMap
ImplementsRunMap == Map!MapSpec
=============================================================================
