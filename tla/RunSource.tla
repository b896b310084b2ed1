------------------------------ MODULE RunSource ------------------------------
(***************************************************************************)
(* What the reader of a run promises whoever takes its results (the types  *)
(* and comments of io/run/reader.go): a Reload hands over what the event   *)
(* files hold, file after file in the order of their names and record      *)
(* after record, each once in all reloads together.  Values come with the  *)
(* metadata that the values before them leave for them.                    *)
(*                                                                         *)
(* RunReader implements this module; the readers of DataServer are of this *)
(* kind.                                                                   *)
(***************************************************************************)
EXTENDS DataCompat

CONSTANT Files

VARIABLES content,  \* of each file, a sequence of records
          place,    \* how many records of it have been handed over
          ended,    \* the files that will not be read any further
          mds,      \* the metadata store
          turn,     \* the file being read; 0 before the first
          calling,  \* whether a Reload is going on
          results   \* what has been handed over

vars == <<content, place, ended, mds, turn, calling, results>>

Init ==
  /\ place = [f \in Files |-> 0] /\ ended = {}
  /\ mds = <<>> /\ turn = 0 /\ ~calling /\ results = <<>>

Call ==
  /\ ~calling /\ calling'
  /\ UNCHANGED <<content, place, ended, mds, turn, results>>

Return ==
  /\ calling /\ ~calling'
  /\ turn' = 0
  /\ UNCHANGED <<content, place, ended, mds, results>>

Turn ==
  /\ calling
  /\ \E f \in Files \ ended : f > turn /\ turn' = f
  /\ UNCHANGED <<content, place, ended, mds, calling, results>>

\* A ValueResult of the ith record of f: a value, or an error; i is 0 for one
\* that is not about a record, and f for one that is not about a file.
Value(f, i, v) == [file |-> f, rec |-> i, tag |-> v.tag, meta |-> v.meta]
Error(f, i) == [file |-> f, rec |-> i, tag |-> "", meta |-> NoMeta]

\* Some file, or the directory, cannot be read: nothing else is lost by that.
Trouble ==
  /\ calling /\ turn = 0
  /\ \E f \in Files \cup {0} : results' = Append(results, Error(f, 0))
  /\ UNCHANGED <<content, place, ended, mds, turn, calling>>

HandOver ==
  /\ calling /\ turn \in Files \ ended
  /\ place[turn] < Len(content[turn])
  /\ LET i == place[turn] + 1
         e == content[turn][i]
     IN  /\ place' = [place EXCEPT ![turn] = i]
         /\ \/ /\ e.kind = "event"
               /\ LET ev == EventValues(e.values, mds)
                  IN  /\ mds' = ev.mds
                      /\ results' = results \o [j \in DOMAIN ev.values |->
                                                  Value(turn, i, ev.values[j])]
               /\ UNCHANGED ended
            \/ /\ e.kind # "event"
               /\ results' = Append(results, Error(turn, i))
               /\ ended' = IF e.kind = "badLength" THEN ended \cup {turn} ELSE ended
               /\ UNCHANGED mds
  /\ UNCHANGED <<content, turn, calling>>

\* A read error ends a file at any place.
ReadError ==
  /\ calling /\ turn \in Files \ ended
  /\ ended' = ended \cup {turn}
  /\ results' = Append(results, Error(turn, 0))
  /\ UNCHANGED <<content, place, mds, turn, calling>>

Next == Call \/ Return \/ Turn \/ Trouble \/ HandOver \/ ReadError
Spec == Init /\ [][Next]_vars
=============================================================================
