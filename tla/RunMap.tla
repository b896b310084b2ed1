-------------------------------- MODULE RunMap --------------------------------
(***************************************************************************)
(* What the loader of a log directory promises those who read its runs     *)
(* (io/logdir/loader.go): a map from run names to accumulators that is     *)
(* brought up to date with the disk in one step, while no run is being     *)
(* read.  A run that stays keeps its reader and its accumulator; one that  *)
(* goes loses both for good, and gets new ones if it comes back.           *)
(*                                                                         *)
(* LogdirLoader implements this module; DataServer is built upon it.       *)
(***************************************************************************)
EXTENDS RunDirs, Integers, FiniteSets, Functions

CONSTANTS Logdir,  \* the path given to the loader
          Dirs     \* the paths of the directories that may hold event files

VARIABLES data,   \* ll.data: names to readers, for their accumulators
          state   \* of each reader: [path, doing]; numbered as they are made

mapVars == <<data, state>>

Names(m) == DOMAIN m
MapInit == data = <<>> /\ state = <<>>

Readers == {data[name] : name \in Names(data)}
Doing(r, what) == r \in DOMAIN state /\ state[r].doing = what

\* Mutants of Kept: a run stays when its directory goes; none stays.
KeptAll(names) == data
KeptNone(names) == <<>>

Kept(names) == [name \in Names(data) \cap names |-> data[name]]

\* The map is brought in line with the run directories that were discovered.
Sync(dirs) ==
  LET names == {Rel(Logdir, d) : d \in dirs}
      new   == SetToSeq(names \ Names(data))
  IN  /\ \A r \in DOMAIN state : state[r].doing # "reloading"
      /\ data' = PutAll(Kept(names),
                        [name \in names \ Names(data) |->
                           Len(state) + CHOOSE i \in DOMAIN new : new[i] = name])
      /\ state' = [r \in DOMAIN state |->
                     IF r \in Readers /\ state[r].path \notin dirs
                     THEN [state[r] EXCEPT !.doing = "closed"] ELSE state[r]]
                  \o [i \in DOMAIN new |-> [path |-> Logdir \o new[i],
                                            doing |-> "asleep"]]

RunReload(r) ==
  /\ r \in Readers /\ Doing(r, "asleep")
  /\ state' = [state EXCEPT ![r].doing = "reloading"]
  /\ UNCHANGED data

RunReloadReturn(r) ==
  /\ Doing(r, "reloading")
  /\ state' = [state EXCEPT ![r].doing = "asleep"]
  /\ UNCHANGED data

MapClose ==
  /\ \A r \in DOMAIN state : state[r].doing # "reloading"
  /\ data' = <<>>
  /\ state' = [r \in DOMAIN state |-> [state[r] EXCEPT !.doing = "closed"]]

MapNext ==
  \/ \E dirs \in SUBSET Dirs : Sync(dirs)
  \/ \E r \in DOMAIN state : RunReload(r) \/ RunReloadReturn(r)
  \/ MapClose

MapSpec == MapInit /\ [][MapNext]_mapVars
=============================================================================
