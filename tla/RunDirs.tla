------------------------------- MODULE RunDirs -------------------------------
(***************************************************************************)
(* How the loader names the runs of a log directory: rundirs of            *)
(* io/logdir/loader.go.  A path is the sequence of its elements; "." is    *)
(* the empty one, and an absolute path begins with the element "/".        *)
(***************************************************************************)
EXTENDS Sequences, SequencesExt, GoMap

\* filepath.Rel, for a path d below logdir.
Rel(logdir, d) == SubSeq(d, Len(logdir) + 1, Len(d))

\* Mutants of AddRunDir: the name for the path; the last element for the name.
AddRunDirName(logdir, result, d) ==
  IF d \in DOMAIN result THEN result ELSE Put(result, Rel(logdir, d), Rel(logdir, d))

AddRunDirBase(logdir, result, d) ==
  IF d \in DOMAIN result THEN result ELSE Put(result, <<Last(d)>>, d)

\* The loop's body for one file: "result" maps run names to paths.
AddRunDir(logdir, result, d) ==
  IF d \in DOMAIN result THEN result ELSE Put(result, Rel(logdir, d), d)

\* rundirs, dirs being the directories of the files found, in their order.
RunDirsOf(logdir, dirs) ==
  FoldLeft(LAMBDA result, d : AddRunDir(logdir, result, d), <<>>, dirs)
=============================================================================
