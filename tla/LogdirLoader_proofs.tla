-------------------------- MODULE LogdirLoader_proofs --------------------------
(***************************************************************************)
(* Proofs about the loader of a log directory (io/logdir/loader.go), for   *)
(* any directories and any number of changes on disk.                      *)
(***************************************************************************)
EXTENDS LogdirLoader, CommonLemmas

(***************************************************************************)
(* The name of a run directory says which one it is.                       *)
(***************************************************************************)
LEMMA RelSays ==
  ASSUME NEW d \in Dirs
  PROVE  /\ Rel(Logdir, d) \in Seq(STRING) /\ d \in Seq(STRING)
         /\ d = Logdir \o Rel(Logdir, d)
<1>1. Logdir \in Seq(STRING) /\ d \in Seq(STRING) /\ IsPrefix(Logdir, d)
  BY LoaderAssumption
<1> QED
  BY <1>1, PrefixAndRest DEF Rel

\* No run has a name that is the path of another.
NoNameIsAPath == \A d, e \in Dirs : Rel(Logdir, d) # e

\* What rundirs makes of the directories ds.
Found(m, ds) ==
  /\ \A name \in DOMAIN m : m[name] \in ds /\ Rel(Logdir, m[name]) = name
  /\ NoNameIsAPath => \A d \in ds : Rel(Logdir, d) \in DOMAIN m

\* RunDirsOf folds AddRunDir over the directories of the files.
Adds(result, d) == AddRunDir(Logdir, result, d)
Naming == INSTANCE LeftFold WITH Op <- Adds

(***************************************************************************)
(* The runs are named for directories that have event files, and none is   *)
(* left out unless one has the name of another's path.                     *)
(***************************************************************************)
LEMMA RunDirsFound ==
  ASSUME NEW ds \in Seq(Dirs)
  PROVE  Found(RunDirsOf(Logdir, ds), ToSet(ds))
<1>1. \A seq : RunDirsOf(Logdir, seq) = Naming!Fold(<<>>, seq)
  BY DEF RunDirsOf, FoldLeft, MapThenFoldSet, Max, Naming!Fold, Naming!Folding,
         Naming!Greatest, Adds
<1>2. RunDirsOf(Logdir, <<>>) = <<>>
  BY <1>1, Naming!FoldEmpty
<1>3. \A seq \in Seq(Dirs), d \in Dirs :
        RunDirsOf(Logdir, Append(seq, d)) = AddRunDir(Logdir, RunDirsOf(Logdir, seq), d)
  <2>1. \A seq \in Seq(Dirs), d \in Dirs :
          Naming!Fold(<<>>, Append(seq, d)) = Adds(Naming!Fold(<<>>, seq), d)
    BY Naming!FoldAppend
  <2> QED
    BY <1>1, <2>1, Zenon DEF Adds
<1> DEFINE G == {seq \in Seq(Dirs) : Found(RunDirsOf(Logdir, seq), ToSet(seq))}
<1>4. <<>> \in G
  <2>1. ToSet(<<>>) = {} /\ DOMAIN <<>> = {} /\ <<>> \in Seq(Dirs)
    BY EmptySeq DEF ToSet
  <2> QED
    BY <1>2, <2>1 DEF Found
<1>5. ASSUME NEW seq \in Seq(Dirs), NEW d \in Dirs, seq \in G
      PROVE  Append(seq, d) \in G
  <2> DEFINE m == RunDirsOf(Logdir, seq)
             k == RunDirsOf(Logdir, Append(seq, d))
  <2>1. Append(seq, d) \in Seq(Dirs) /\ ToSet(Append(seq, d)) = ToSet(seq) \cup {d}
    <3>1. Append(seq, d) = seq \o <<d>> /\ <<d>> \in Seq(Dirs)
      BY AppendIsConcat
    <3>2. ToSet(<<d>>) = {d}
      BY DEF ToSet
    <3>3. ToSet(seq \o <<d>>) = ToSet(seq) \cup ToSet(<<d>>)
      BY <3>1, ElementsOfConcat, ZenonT(40)
    <3>4. Append(seq, d) \in Seq(Dirs)
      BY AppendProperties
    <3> QED
      BY <3>1, <3>2, <3>3, <3>4, Zenon
  <2>2. k = AddRunDir(Logdir, m, d) /\ Found(m, ToSet(seq))
    BY <1>3, <1>5
  <2>3. \A e \in ToSet(seq) : e \in Dirs
    BY LenProperties, ElementOfSeq DEF ToSet
  <2> HIDE DEF m, k
  <2>4. CASE d \in DOMAIN m
    <3>1. k = m /\ m[d] \in Dirs /\ Rel(Logdir, m[d]) = d
      BY <2>2, <2>3, <2>4 DEF AddRunDir, Found
    <3>2. ~NoNameIsAPath
      BY <3>1 DEF NoNameIsAPath
    <3> QED
      BY <2>1, <2>2, <3>1, <3>2 DEF Found, k
  <2>5. CASE d \notin DOMAIN m
    <3> DEFINE name == Rel(Logdir, d)
    <3>1. k = Put(m, name, d)
      BY <2>2, <2>5 DEF AddRunDir
    <3> HIDE DEF name
    <3>2. /\ DOMAIN k = DOMAIN m \cup {name} /\ k[name] = d
          /\ \A x \in DOMAIN m : x # name => k[x] = m[x]
      BY <3>1 DEF Put
    <3>3. Found(k, ToSet(seq) \cup {d})
      BY <2>2, <3>2 DEF Found, name
    <3> QED
      BY <2>1, <3>3 DEF k
  <2> QED
    BY <2>4, <2>5
<1>6. Seq(Dirs) \subseteq G
  <2> HIDE DEF G
  <2> QED
    BY <1>4, <1>5, InductionOnSeq
<1> QED
  BY <1>6

-----------------------------------------------------------------------------
\* The types of the variables; the caller waits while the loader works.
ReaderState == [path : Dirs, doing : {"asleep", "reloading", "closed"}]
Entry == [path : Seq(STRING), what : {"dir", "file"}]
Types ==
  /\ disk \subseteq Dirs /\ changes \in 0 .. MaxChanges
  /\ poller \in {"idle", "waiting", "closed"}
  /\ llpc \in {"idle", "walk", "mkloaders", "doreload", "wait"}
  /\ llpc # "idle" => poller = "waiting"
  /\ toVisit \in Seq(Entry) /\ files \in Seq(Dirs)
  /\ state \in Seq(ReaderState)
  /\ wg \subseteq 1 .. Len(state) /\ reloaded \subseteq 1 .. Len(state)

\* The names of the runs say where they are, and their readers are numbered.
Named ==
  /\ \A name \in DOMAIN rundirs :
       rundirs[name] \in Dirs /\ Rel(Logdir, rundirs[name]) = name
  /\ readers = [name \in DOMAIN readers |-> readers[name]]
  /\ \A name \in DOMAIN readers : readers[name] \in 1 .. Len(state)

\* Only readers that are still in use are reloaded.
InUse == {readers[name] : name \in DOMAIN readers}
Working ==
  /\ llpc # "wait" => wg = {}
  /\ wg \subseteq InUse
  /\ \A r \in 1 .. Len(state) : state[r].doing = "reloading" => r \in wg

\* How far a reload has come.
Progress ==
  /\ llpc \in {"doreload", "wait"} \/ poller = "idle" => DOMAIN readers = DOMAIN rundirs
  /\ llpc \in {"mkloaders", "doreload"} => reloaded = {}
  /\ llpc = "wait" => InUse = wg \cup reloaded
  /\ poller = "idle" => InUse = reloaded

(***************************************************************************)
(* The walk: the directories that have had event files ever since it began *)
(* have been found, or lie under an entry that it has still to visit.      *)
(***************************************************************************)
Leads(e, d) == IF e.what = "file" THEN e.path = d ELSE IsPrefix(e.path, d)
Walk ==
  /\ llpc = "walk" =>
       /\ stayed \subseteq disk /\ disk \subseteq appeared
       /\ ToSet(files) \subseteq appeared
       /\ \A d \in stayed : d \in ToSet(files) \/ \E e \in ToSet(toVisit) : Leads(e, d)
  /\ NoNameIsAPath => AllRunsFound

IInv == Types /\ Named /\ MapsAgree /\ Working /\ Progress /\ Walk

-----------------------------------------------------------------------------
(***************************************************************************)
(* Runs have finitely many names.                                          *)
(***************************************************************************)
LEMMA NamesFinite ==
  ASSUME NEW N, \A name \in N : \E d \in Dirs : name = Rel(Logdir, d)
  PROVE  IsFiniteSet(N)
<1> DEFINE f == [d \in Dirs |-> Rel(Logdir, d)]
           T == {f[d] : d \in Dirs}
<1>1. f \in Surjection(Dirs, T)
  BY DEF Surjection
<1>2. IsFiniteSet(Dirs)
  BY LoaderAssumption
<1>3. IsFiniteSet(T)
  <2> HIDE DEF f, T
  <2> QED
    BY <1>1, <1>2, FS_Surjection
<1>4. N \in SUBSET T
  OBVIOUS
<1> QED
  <2> HIDE DEF T
  <2> QED
    BY <1>3, <1>4, FS_Subset

\* Reader r of state s becomes what it is in t: only what it does changes.
Does(s, t, r, what) == t[r].doing = what /\ t[r].path = s[r].path

(***************************************************************************)
(* One reader begins or ends a reload.                                     *)
(***************************************************************************)
LEMMA OneReader ==
  ASSUME NEW what \in {"asleep", "reloading", "closed"}, state \in Seq(ReaderState),
         NEW r \in 1 .. Len(state)
  PROVE  LET t == [state EXCEPT ![r].doing = what]
         IN  /\ t \in Seq(ReaderState) /\ Len(t) = Len(state)
             /\ Does(state, t, r, what)
             /\ \A q \in 1 .. Len(state) : q # r => t[q] = state[q]
<1> DEFINE e == [state[r] EXCEPT !.doing = what]
           t == [state EXCEPT ![r] = e]
<1>1. state[r] \in ReaderState
  BY ElementOfSeq
<1>2. e \in ReaderState /\ e.doing = what /\ e.path = state[r].path
  BY <1>1 DEF ReaderState
<1> HIDE DEF e
<1>3. /\ t \in Seq(ReaderState) /\ Len(t) = Len(state) /\ t[r] = e
      /\ \A q \in 1 .. Len(state) : q # r => t[q] = state[q]
  <2>1. /\ t \in Seq(ReaderState) /\ Len(t) = Len(state)
        /\ \A q \in 1 .. Len(t) : t[q] = IF q = r THEN e ELSE state[q]
    BY <1>2, ExceptSeq
  <2> HIDE DEF t
  <2> QED
    BY <2>1
<1> QED
  BY <1>2, <1>3, Zenon DEF Does, e

(***************************************************************************)
(* Several readers are closed.                                             *)
(***************************************************************************)
LEMMA Closing ==
  ASSUME state \in Seq(ReaderState), NEW rs
  PROVE  /\ Closed(rs) \in Seq(ReaderState) /\ Len(Closed(rs)) = Len(state)
         /\ \A r \in 1 .. Len(state) :
              IF r \in rs THEN Does(state, Closed(rs), r, "closed")
                          ELSE Closed(rs)[r] = state[r]
<1>1. DOMAIN state = 1 .. Len(state) /\ Len(state) \in Nat
  BY LenProperties
<1>2. \A r \in 1 .. Len(state) : state[r] \in ReaderState
  BY ElementOfSeq
<1>3. \A r \in 1 .. Len(state) :
        Closed(rs)[r] = IF r \in rs THEN [state[r] EXCEPT !.doing = "closed"] ELSE state[r]
  BY <1>1 DEF Closed
<1>4. \A e \in ReaderState : LET c == [e EXCEPT !.doing = "closed"]
                             IN  c \in ReaderState /\ c.doing = "closed" /\ c.path = e.path
  BY DEF ReaderState
<1>5. \A r \in 1 .. Len(state) :
        /\ Closed(rs)[r] \in ReaderState
        /\ IF r \in rs THEN Does(state, Closed(rs), r, "closed")
                       ELSE Closed(rs)[r] = state[r]
  BY <1>2, <1>3, <1>4, Zenon DEF Does
<1>6. Closed(rs) \in [1 .. Len(state) -> ReaderState]
  <2>1. Closed(rs) = [r \in 1 .. Len(state) |-> Closed(rs)[r]]
    BY <1>1 DEF Closed
  <2> QED
    BY <1>5, <2>1
<1> QED
  BY <1>1, <1>5, <1>6, SeqOfFunction

\* What mkloaders starts, and what it makes of the maps and the readers.
Fresh == Names(rundirs) \ Names(readers)
New == SetToSeq(Fresh)
Number(name) == Len(state) + CHOOSE i \in DOMAIN New : New[i] = name
Leaving == {readers[name] : name \in Gone}
Started(s) ==
  /\ s \in Seq(ReaderState) /\ Len(s) = Len(state) + Len(New)
  /\ \A r \in 1 .. Len(state) :
       IF r \in Leaving THEN Does(state, s, r, "closed") ELSE s[r] = state[r]
  /\ \A i \in 1 .. Len(New) :
       s[Len(state) + i] = [path |-> rundirs[New[i]], doing |-> "asleep"]

(***************************************************************************)
(* The new runs, in some order, each once.                                 *)
(***************************************************************************)
LEMMA NewRuns ==
  ASSUME Named
  PROVE  /\ New \in Seq(Fresh) /\ ToSet(New) = Fresh
         /\ DOMAIN New = 1 .. Len(New) /\ Len(New) \in Nat
         /\ \A i, j \in 1 .. Len(New) : New[i] = New[j] => i = j
<1>1. IsFiniteSet(Fresh)
  <2>1. \A name \in Fresh : \E d \in Dirs : name = Rel(Logdir, d)
    BY DEF Named, Fresh, Names
  <2> QED
    BY <2>1, NamesFinite
<1>2. New \in SetToSeqs(Fresh)
  BY <1>1, ElementsInOrder DEF New
<1>3. New \in Seq(Fresh) /\ ToSet(New) = Fresh
      /\ \A i, j \in DOMAIN New : New[i] = New[j] => i = j
  <2> HIDE DEF New
  <2> QED
    BY <1>1, <1>2, ElementsInSomeOrder
<1>4. DOMAIN New = 1 .. Len(New) /\ Len(New) \in Nat
  <2> HIDE DEF New
  <2> QED
    BY <1>3, LenProperties
<1> QED
  BY <1>3, <1>4

(***************************************************************************)
(* Each of them gets the number of its reader.                             *)
(***************************************************************************)
LEMMA NewNumbers ==
  ASSUME Named, NEW name \in Fresh
  PROVE  \E i \in 1 .. Len(New) : New[i] = name /\ Number(name) = Len(state) + i
<1>1. /\ New \in Seq(Fresh) /\ ToSet(New) = Fresh /\ DOMAIN New = 1 .. Len(New)
  BY NewRuns
<1> DEFINE i == CHOOSE k \in DOMAIN New : New[k] = name
<1>2. \E k \in DOMAIN New : New[k] = name
  BY <1>1 DEF ToSet
<1>3. i \in DOMAIN New /\ New[i] = name
  BY <1>2
<1>4. Number(name) = Len(state) + i
  BY DEF Number
<1> QED
  BY <1>1, <1>3, <1>4

(***************************************************************************)
(* mkloaders: the maps have the discovered runs, those that stay keep      *)
(* their readers, and the new ones get readers that are new.               *)
(***************************************************************************)
LEMMA MkLoadersEffect ==
  ASSUME Types, Named, MapsAgree, MkLoaders
  PROVE  /\ data' = readers'
         /\ readers' = [name \in DOMAIN rundirs |->
                          IF name \in Fresh THEN Number(name) ELSE readers[name]]
         /\ Started(state')
<1>1. /\ llpc = "mkloaders" /\ poller = "waiting"
      /\ data = readers
  BY DEF MkLoaders, Types, MapsAgree
<1>2. /\ New \in Seq(Fresh) /\ ToSet(New) = Fresh
      /\ DOMAIN New = 1 .. Len(New) /\ Len(New) \in Nat
  BY NewRuns
<1> DEFINE kept == [name \in Names(readers) \ Gone |-> readers[name]]
           pair == [name \in Fresh |-> Number(name)]
           started == [i \in DOMAIN New |-> [path |-> rundirs[New[i]], doing |-> "asleep"]]
<1>3. /\ readers' = PutAll(kept, pair)
      /\ data' = PutAll(kept, pair)
      /\ state' = Closed(Leaving) \o started
  BY <1>1, <1>2 DEF MkLoaders, New, Number, Fresh, Leaving
<1>4. PutAll(kept, pair) = [name \in DOMAIN rundirs |->
                              IF name \in Fresh THEN Number(name) ELSE readers[name]]
  <2>1. (Names(readers) \ Gone) \cup Fresh = DOMAIN rundirs
    BY DEF Fresh, Gone, Names
  <2>2. \A name \in DOMAIN rundirs : name \notin Fresh => name \in Names(readers) \ Gone
    BY DEF Fresh, Gone, Names
  <2>3. DOMAIN kept = Names(readers) \ Gone /\ DOMAIN pair = Fresh
        /\ (\A name \in Fresh : pair[name] = Number(name))
        /\ \A name \in Names(readers) \ Gone : kept[name] = readers[name]
    OBVIOUS
  <2> HIDE DEF kept, pair
  <2>4. PutAll(kept, pair) = [name \in DOMAIN rundirs |->
                                IF name \in Fresh THEN pair[name] ELSE kept[name]]
    BY <2>1, <2>3 DEF PutAll
  <2> QED
    BY <2>2, <2>3, <2>4
<1>5. Started(state')
  <2>1. started \in Seq(ReaderState) /\ Len(started) = Len(New)
    <3>1. \A i \in 1 .. Len(New) : New[i] \in DOMAIN rundirs
      <4>1. \A i \in 1 .. Len(New) : New[i] \in Fresh
        BY <1>2, ElementOfSeq
      <4> QED
        BY <4>1 DEF Fresh, Names
    <3>2. \A i \in 1 .. Len(New) :
            [path |-> rundirs[New[i]], doing |-> "asleep"] \in ReaderState
      BY <3>1 DEF Named, ReaderState
    <3>3. started \in [1 .. Len(New) -> ReaderState]
      BY <1>2, <3>2
    <3> HIDE DEF started
    <3> QED
      BY <1>2, <3>3, SeqOfFunction
  <2>2. \A i \in 1 .. Len(New) :
          started[i] = [path |-> rundirs[New[i]], doing |-> "asleep"]
    BY <1>2
  <2> DEFINE closed == Closed(Leaving)
  <2>3. /\ closed \in Seq(ReaderState) /\ Len(closed) = Len(state)
        /\ \A r \in 1 .. Len(state) :
             IF r \in Leaving THEN Does(state, closed, r, "closed")
                              ELSE closed[r] = state[r]
    BY Closing DEF Types
  <2>4. Len(state) \in Nat
    BY LenProperties DEF Types
  <2>5. state' = closed \o started
    BY <1>3
  <2> HIDE DEF closed, started
  <2>6. /\ state' \in Seq(ReaderState) /\ Len(state') = Len(state) + Len(New)
        /\ \A i \in 1 .. Len(state) + Len(New) :
             state'[i] = IF i <= Len(state) THEN closed[i] ELSE started[i - Len(state)]
    <3> DEFINE u == closed \o started
    <3>1. /\ u \in Seq(ReaderState) /\ Len(u) = Len(closed) + Len(started)
          /\ \A i \in 1 .. Len(closed) + Len(started) :
               u[i] = IF i <= Len(closed) THEN closed[i] ELSE started[i - Len(closed)]
      BY <2>1, <2>3, ConcatProperties, ZenonT(40)
    <3>2. state' = u
      BY <2>5
    <3> HIDE DEF u
    <3> QED
      BY <2>1, <2>3, <3>1, <3>2
  <2>7. \A r \in 1 .. Len(state) : state'[r] = closed[r]
    BY <1>2, <2>4, <2>6
  <2>8. \A i \in 1 .. Len(New) : state'[Len(state) + i] = started[i]
    <3>1. \A i \in 1 .. Len(New) : /\ Len(state) + i \in 1 .. Len(state) + Len(New)
                                   /\ ~(Len(state) + i <= Len(state))
                                   /\ Len(state) + i - Len(state) = i
      BY <1>2, <2>4
    <3> QED
      BY <2>6, <3>1
  <2> QED
    BY <2>2, <2>3, <2>6, <2>7, <2>8, Zenon DEF Started, Does
<1> QED
  BY <1>3, <1>4, <1>5

-----------------------------------------------------------------------------
(***************************************************************************)
(* A path that begins another, and is not it, is one element longer at a   *)
(* time.                                                                   *)
(***************************************************************************)
LEMMA OneLevelDown ==
  ASSUME NEW S, NEW s \in Seq(S), NEW t \in Seq(S), IsStrictPrefix(s, t)
  PROVE  LET u == SubSeq(t, 1, Len(s) + 1)
         IN  u \in Seq(S) /\ IsPrefix(u, t)
<1> DEFINE n == Len(s) + 1
           u == SubSeq(t, 1, n)
<1>1. Len(s) \in Nat /\ Len(t) \in Nat /\ Len(s) <= Len(t)
      /\ SubSeq(s, 1, Len(s)) = SubSeq(t, 1, Len(s)) /\ s # t
  BY LenProperties DEF IsStrictPrefix, IsPrefix
<1>2. Len(s) # Len(t)
  BY <1>1, SubSeqFull
<1>3. n \in Nat /\ n <= Len(t) /\ 1 <= n
  BY <1>1, <1>2
<1> HIDE DEF n
<1>4. \A i \in 1 .. n : t[i] \in S
  <2>1. \A i \in 1 .. n : i \in 1 .. Len(t)
    BY <1>1, <1>3
  <2> QED
    BY <2>1, ElementOfSeq
<1>5. u \in Seq(S) /\ Len(u) = n
  <2>1. 1 \in Int /\ n \in Int /\ n - 1 + 1 = n /\ ~(n < 1)
    BY <1>3
  <2>2. u \in Seq(S) /\ Len(u) = IF n < 1 THEN 0 ELSE n - 1 + 1
    BY <1>3, <1>4, SubSeqProperties
  <2> QED
    BY <2>1, <2>2
<1>6. IsPrefix(u, t)
  <2>1. SubSeq(u, 1, Len(u)) = u
    BY <1>5, SubSeqFull
  <2> QED
    BY <1>3, <1>5, <2>1 DEF IsPrefix
<1> QED
  BY <1>5, <1>6 DEF n

\* d is listed in the directory at path p, or under it.
Lists(p, s) ==
  /\ s \in Seq(Entry)
  /\ \A d \in disk : IsPrefix(p, d) => \E e \in ToSet(s) : Leads(e, d)

(***************************************************************************)
(* However a directory is listed, what is in it or under it is in the list *)
(* or under one of its entries.                                            *)
(***************************************************************************)
LEMMA Listed ==
  ASSUME Types, NEW p \in Seq(STRING), NEW s \in SetToSeqs(Entries(p))
  PROVE  Lists(p, s)
<1> DEFINE Down(e) == SubSeq(e, 1, Len(p) + 1)
<1>1. \A e \in disk : e \in Seq(STRING)
  BY LoaderAssumption DEF Types
<1>2. \A e \in Below(p) : /\ Down(e) \in Seq(STRING) /\ IsPrefix(Down(e), e)
                          /\ Dir(Down(e)) \in Entry /\ Leads(Dir(Down(e)), e)
  <2>1. \A e \in Below(p) : Down(e) \in Seq(STRING) /\ IsPrefix(Down(e), e)
    BY <1>1, OneLevelDown DEF Below
  <2> HIDE DEF Down
  <2> QED
    BY <2>1 DEF Dir, Entry, Leads
<1>3. \A e \in disk : EventFile(e) \in Entry /\ Leads(EventFile(e), e)
  BY <1>1 DEF EventFile, Entry, Leads
<1>4. IsFiniteSet(Entries(p))
  <2> DEFINE f == [e \in Below(p) |-> Dir(Down(e))]
             A == {f[e] : e \in Below(p)}
             B == {EventFile(e) : e \in disk \cap {p}}
  <2>1. IsFiniteSet(Below(p))
    <3>1. Below(p) \in SUBSET Dirs
      BY DEF Below, Types
    <3> QED
      BY <3>1, LoaderAssumption, FS_Subset
  <2>2. f \in Surjection(Below(p), A)
    BY DEF Surjection
  <2>3. IsFiniteSet(A)
    <3> HIDE DEF f, A
    <3> QED
      BY <2>1, <2>2, FS_Surjection
  <2>4. IsFiniteSet(B)
    <3>1. B \in SUBSET {EventFile(p)}
      OBVIOUS
    <3>2. IsFiniteSet({EventFile(p)})
      BY FS_Singleton
    <3> HIDE DEF B
    <3> QED
      BY <3>1, <3>2, FS_Subset
  <2>5. Entries(p) = A \cup B
    BY DEF Entries
  <2> HIDE DEF A, B
  <2> QED
    BY <2>3, <2>4, <2>5, FS_Union
<1>5. s \in Seq(Entries(p)) /\ ToSet(s) = Entries(p)
  BY <1>4, ElementsInSomeOrder
<1>6. Entries(p) \subseteq Entry
  BY <1>2, <1>3 DEF Entries
<1>7. s \in Seq(Entry)
  <2>1. \A i \in 1 .. Len(s) : s[i] \in Entry
    BY <1>5, <1>6, ElementOfSeq
  <2> QED
    BY <1>5, <2>1, SeqMonotonic
<1>8. ASSUME NEW d \in disk, IsPrefix(p, d)
      PROVE  \E e \in Entries(p) : Leads(e, d)
  <2>1. CASE p = d
    BY <2>1, <1>3, <1>8 DEF Entries
  <2>2. CASE p # d
    <3>1. d \in Below(p)
      BY <1>8, <2>2 DEF Below, IsStrictPrefix
    <3> QED
      BY <1>2, <3>1 DEF Entries
  <2> QED
    BY <2>1, <2>2
<1> QED
  BY <1>5, <1>7, <1>8 DEF Lists

(***************************************************************************)
(* The invariant holds at the start.                                       *)
(***************************************************************************)
LEMMA InitHolds == Init => IInv
<1> SUFFICES ASSUME Init
             PROVE  IInv
  OBVIOUS
<1>1. /\ toVisit = <<>> /\ files = <<>> /\ state = <<>>
      /\ rundirs = <<>> /\ readers = <<>> /\ data = <<>>
      /\ poller = "idle" /\ llpc = "idle" /\ wg = {} /\ reloaded = {}
      /\ disk \subseteq Dirs /\ changes = 0
  BY DEF Init
<1>2. DOMAIN <<>> = {} /\ 1 .. Len(<<>>) = {} /\ \A S : <<>> \in Seq(S)
  BY EmptySeq
<1>3. Types
  <2>1. 0 \in 0 .. MaxChanges
    BY LoaderAssumption
  <2> QED
    BY <1>1, <1>2, <2>1 DEF Types
<1>4. Named /\ MapsAgree /\ Working /\ Progress
  BY <1>1, <1>2 DEF Named, MapsAgree, Working, Progress, InUse, Names
<1>5. Walk
  BY <1>1 DEF Walk, AllRunsFound
<1> QED
  BY <1>3, <1>4, <1>5 DEF IInv

(***************************************************************************)
(* The actions, one by one.                                                *)
(***************************************************************************)
LEMMA Steps ==
  Next <=> \/ \E d \in Dirs : Change(d)
           \/ Reload \/ WalkDir \/ WalkFile \/ WalkError \/ Discovered
           \/ MkLoaders \/ DoReload \/ ReloadReturn \/ Close
           \/ \E r \in DOMAIN state : RunReload(r) \/ RunReloadReturn(r)
BY DEF Next, Polling, Loader, Run

(***************************************************************************)
(* A step changes the types of nothing.                                    *)
(***************************************************************************)
LEMMA TypesStep == IInv /\ Next => Types'
<1> SUFFICES ASSUME IInv, Next
             PROVE  Types'
  OBVIOUS
<1> USE DEF IInv
<1>0. Types
  OBVIOUS
<1>1. ASSUME NEW d \in Dirs, Change(d)
      PROVE  Types'
  <2>1. changes' \in 0 .. MaxChanges
    BY <1>1, LoaderAssumption DEF Change, Types
  <2>2. disk' \subseteq Dirs
    BY <1>1 DEF Change, Types
  <2> QED
    BY <1>0, <1>1, <2>1, <2>2 DEF Change, Types
<1>2. CASE Reload
  <2>1. <<Dir(Logdir)>> \in Seq(Entry) /\ <<>> \in Seq(Dirs)
    <3>1. Dir(Logdir) \in Entry
      BY LoaderAssumption DEF Dir, Entry
    <3> QED
      BY <3>1, EmptySeq
  <2> QED
    BY <1>0, <1>2, <2>1 DEF Reload, diskVars, Types
<1>3. CASE WalkDir
  <2>1. toVisit' \in Seq(Entry)
    <3>1. Head(toVisit) \in Entry /\ Tail(toVisit) \in Seq(Entry)
      BY <1>3, HeadTailProperties DEF WalkDir, Types
    <3>2. PICK s \in SetToSeqs(Entries(Head(toVisit).path)) : toVisit' = s \o Tail(toVisit)
      BY <1>3 DEF WalkDir
    <3>3. s \in Seq(Entry)
      BY <1>0, <3>1, Listed DEF Lists, Entry
    <3> QED
      BY <3>1, <3>2, <3>3, ConcatProperties
  <2> QED
    BY <1>0, <1>3, <2>1 DEF WalkDir, diskVars, Types
<1>4. CASE WalkFile
  <2>1. toVisit' \in Seq(Entry)
    BY <1>4, HeadTailProperties DEF WalkFile, Types
  <2>2. files' \in Seq(Dirs)
    <3>1. Head(toVisit).path \in Dirs
      BY <1>4 DEF WalkFile, Types
    <3> QED
      BY <1>4, <3>1, AppendProperties DEF WalkFile, Types
  <2> QED
    BY <1>0, <1>4, <2>1, <2>2 DEF WalkFile, diskVars, Types
<1>5. CASE WalkError
  BY <1>0, <1>5, EmptySeq DEF WalkError, diskVars, Types
<1>6. CASE Discovered
  BY <1>0, <1>6, EmptySeq DEF Discovered, diskVars, Types
<1>7. CASE MkLoaders
  <2>1. Started(state')
    BY <1>7, MkLoadersEffect
  <2>2. Len(New) \in Nat /\ Len(state) \in Nat
    BY NewRuns, LenProperties DEF Types
  <2>3. 1 .. Len(state) \subseteq 1 .. Len(state')
    BY <2>1, <2>2 DEF Started
  <2> QED
    BY <1>0, <1>7, <2>1, <2>3 DEF MkLoaders, diskVars, walkVars, Types, Started
<1>8. CASE DoReload
  BY <1>0, <1>8 DEF DoReload, diskVars, walkVars, Types, Named, Names
<1>9. CASE ReloadReturn
  BY <1>0, <1>9 DEF ReloadReturn, diskVars, walkVars, Types
<1>10. CASE Close
  <2>1. state' \in Seq(ReaderState) /\ Len(state') = Len(state)
    BY <1>10, Closing DEF Close, Types
  <2> QED
    BY <1>0, <1>10, <2>1 DEF Close, diskVars, walkVars, Types
<1>11. ASSUME NEW r \in DOMAIN state, RunReload(r) \/ RunReloadReturn(r)
       PROVE  Types'
  <2>1. r \in 1 .. Len(state) /\ state \in Seq(ReaderState)
    BY LenProperties DEF Types
  <2>2. state' \in Seq(ReaderState) /\ Len(state') = Len(state)
    BY <1>11, <2>1, OneReader DEF RunReload, RunReloadReturn
  <2>3. CASE RunReload(r)
    BY <1>0, <2>2, <2>3 DEF RunReload, diskVars, walkVars, Types
  <2>4. CASE RunReloadReturn(r)
    BY <1>0, <2>1, <2>2, <2>4 DEF RunReloadReturn, diskVars, walkVars, Types
  <2> QED
    BY <1>11, <2>3, <2>4
<1> QED
  BY <1>1, <1>2, <1>3, <1>4, <1>5, <1>6, <1>7, <1>8, <1>9, <1>10, <1>11, Steps, Zenon

(***************************************************************************)
(* What is discovered are directories, each under its own name.            *)
(***************************************************************************)
LEMMA DiscoveredRuns ==
  ASSUME Types, NEW name \in DOMAIN RunDirsOf(Logdir, files)
  PROVE  LET m == RunDirsOf(Logdir, files)
         IN  m[name] \in ToSet(files) /\ m[name] \in Dirs /\ Rel(Logdir, m[name]) = name
<1> DEFINE m == RunDirsOf(Logdir, files)
<1>1. Found(m, ToSet(files))
  BY RunDirsFound DEF Types
<1>2. ToSet(files) \subseteq Dirs
  BY LenProperties, ElementOfSeq DEF Types, ToSet
<1> HIDE DEF m
<1>3. name \in DOMAIN m
  BY DEF m
<1> QED
  BY <1>1, <1>2, <1>3, Zenon DEF Found, m

(***************************************************************************)
(* The names say where the runs are, after a step as before.               *)
(***************************************************************************)
LEMMA NamedStep == IInv /\ Next => Named'
<1> SUFFICES ASSUME IInv, Next
             PROVE  Named'
  OBVIOUS
<1> USE DEF IInv
<1>0. Named /\ Len(state) \in Nat
  BY LenProperties DEF Types
<1>1. CASE /\ UNCHANGED <<rundirs, readers>>
           /\ Len(state') = Len(state)
  BY <1>0, <1>1 DEF Named
<1>2. CASE Discovered
  <2>1. /\ rundirs' = RunDirsOf(Logdir, files) /\ UNCHANGED <<readers, state>>
    BY <1>2 DEF Discovered
  <2>2. \A name \in DOMAIN rundirs' :
          rundirs'[name] \in Dirs /\ Rel(Logdir, rundirs'[name]) = name
    BY <2>1, DiscoveredRuns, Zenon
  <2> QED
    BY <1>0, <2>1, <2>2 DEF Named
<1>3. CASE MkLoaders
  <2>1. /\ readers' = [name \in DOMAIN rundirs |->
                         IF name \in Fresh THEN Number(name) ELSE readers[name]]
        /\ Len(state') = Len(state) + Len(New) /\ Len(New) \in Nat
    BY <1>3, MkLoadersEffect, NewRuns DEF Started
  <2>2. rundirs' = rundirs
    BY <1>3 DEF MkLoaders
  <2>3. \A name \in Fresh : Number(name) \in 1 .. Len(state')
    BY <1>0, <2>1, NewNumbers
  <2>4. \A name \in DOMAIN rundirs \ Fresh : readers[name] \in 1 .. Len(state')
    BY <1>0, <2>1 DEF Named, Fresh, Names
  <2> QED
    BY <1>0, <2>1, <2>2, <2>3, <2>4 DEF Named
<1>4. CASE Close
  <2>1. Len(state') = Len(state)
    BY <1>4, Closing DEF Close, Types
  <2> QED
    BY <1>1, <1>4, <2>1 DEF Close
<1>5. ASSUME NEW r \in DOMAIN state, RunReload(r) \/ RunReloadReturn(r)
      PROVE  Named'
  <2>1. r \in 1 .. Len(state) /\ state \in Seq(ReaderState)
    BY LenProperties DEF Types
  <2>2. Len(state') = Len(state)
    BY <1>5, <2>1, OneReader DEF RunReload, RunReloadReturn
  <2> QED
    BY <1>1, <1>5, <2>2 DEF RunReload, RunReloadReturn
<1>6. (\E d \in Dirs : Change(d)) \/ Reload \/ WalkDir \/ WalkFile \/ WalkError
        \/ DoReload \/ ReloadReturn => UNCHANGED <<rundirs, readers, state>>
  BY Zenon DEF Change, Reload, WalkDir, WalkFile, WalkError, DoReload, ReloadReturn
<1> QED
  BY <1>1, <1>2, <1>3, <1>4, <1>5, <1>6, Steps

(***************************************************************************)
(* The maps after mkloaders.                                               *)
(***************************************************************************)
LEMMA MkLoadersAgree ==
  ASSUME Types, Named, MapsAgree, MkLoaders
  PROVE  MapsAgree'
<1> DEFINE n == Len(state)
<1>1. /\ readers' = [name \in DOMAIN rundirs |->
                       IF name \in Fresh THEN Number(name) ELSE readers[name]]
      /\ data' = readers' /\ Started(state') /\ Len(New) \in Nat
      /\ n \in Nat /\ DOMAIN state = 1 .. n
  BY MkLoadersEffect, NewRuns, LenProperties DEF Types
<1>2. /\ \A a, b \in DOMAIN readers : readers[a] = readers[b] => a = b
      /\ \A name \in DOMAIN readers : Rel(Logdir, state[readers[name]].path) = name
      /\ InUse = {r \in 1 .. n : state[r].doing # "closed"}
  BY <1>1 DEF MkLoaders, Types, MapsAgree, Names, InUse
<1>3. ASSUME NEW name \in DOMAIN rundirs, name \notin Fresh
      PROVE  /\ name \in DOMAIN readers /\ readers[name] \in 1 .. n
             /\ readers'[name] = readers[name]
             /\ readers[name] \notin Leaving
  <2>1. name \in DOMAIN readers /\ readers[name] \in 1 .. n /\ readers'[name] = readers[name]
    BY <1>1, <1>3 DEF Fresh, Names, Named
  <2>2. readers[name] \notin Leaving
    BY <1>2, <1>3, <2>1 DEF Leaving, Gone, Names
  <2> QED
    BY <2>1, <2>2
<1>4. ASSUME NEW name \in Fresh
      PROVE  /\ name \in DOMAIN rundirs /\ readers'[name] = Number(name)
             /\ \E i \in 1 .. Len(New) : New[i] = name /\ Number(name) = n + i
  BY <1>1, NewNumbers DEF Fresh, Names
<1> HIDE DEF n
<1>a. \A name \in Fresh : /\ readers'[name] \in 1 .. n + Len(New)
                          /\ readers'[name] \notin 1 .. n
  <2>1. \A i \in 1 .. Len(New) : /\ n + i \in 1 .. n + Len(New) /\ n + i \notin 1 .. n
    BY <1>1
  <2> QED
    BY <1>4, <2>1
<1>b. \A name \in DOMAIN rundirs \ Fresh : /\ readers'[name] \in 1 .. n
                                           /\ readers'[name] \in 1 .. n + Len(New)
  <2>1. \A r \in 1 .. n : r \in 1 .. n + Len(New)
    BY <1>1
  <2> QED
    BY <1>3, <2>1
<1>5. ASSUME NEW a \in DOMAIN rundirs, NEW b \in DOMAIN rundirs, readers'[a] = readers'[b]
      PROVE  a = b
  <2>1. CASE a \notin Fresh /\ b \notin Fresh
    BY <1>2, <1>3, <1>5, <2>1
  <2>2. CASE a \in Fresh /\ b \notin Fresh
    BY <1>5, <1>a, <1>b, <2>2
  <2>3. CASE a \notin Fresh /\ b \in Fresh
    BY <1>5, <1>a, <1>b, <2>3
  <2>4. CASE a \in Fresh /\ b \in Fresh
    <3>1. PICK i \in 1 .. Len(New) : New[i] = a /\ readers'[a] = n + i
      BY <1>4, <2>4
    <3>2. PICK j \in 1 .. Len(New) : New[j] = b /\ readers'[b] = n + j
      BY <1>4, <2>4
    <3>3. i = j
      BY <1>1, <1>5, <3>1, <3>2
    <3> QED
      BY <3>1, <3>2, <3>3
  <2> QED
    BY <2>1, <2>2, <2>3, <2>4
<1>6. ASSUME NEW name \in DOMAIN rundirs
      PROVE  Rel(Logdir, state'[readers'[name]].path) = name
  <2>1. CASE name \notin Fresh
    <3>1. state'[readers[name]].path = state[readers[name]].path
      BY <1>1, <1>3, <2>1 DEF Started, Does, n
    <3> QED
      BY <1>2, <1>3, <2>1, <3>1
  <2>2. CASE name \in Fresh
    <3>1. PICK i \in 1 .. Len(New) : New[i] = name /\ Number(name) = n + i
      BY <1>4, <2>2
    <3>2. state'[n + i] = [path |-> rundirs[name], doing |-> "asleep"]
      BY <1>1, <3>1 DEF Started, n
    <3> QED
      BY <1>4, <2>2, <3>1, <3>2 DEF Named
  <2> QED
    BY <2>1, <2>2
<1>7. DOMAIN state' = 1 .. n + Len(New)
  BY <1>1, LenProperties DEF Started, n
<1> DEFINE Used == {readers'[name] : name \in DOMAIN rundirs}
<1>8. ASSUME NEW r \in 1 .. n
      PROVE  r \in Used <=> state'[r].doing # "closed"
  <2>1. r \in Used => r \in InUse /\ r \notin Leaving
    <3>1. ASSUME NEW name \in DOMAIN rundirs, r = readers'[name]
          PROVE  r \in InUse /\ r \notin Leaving
      <4>1. name \notin Fresh
        BY <1>1, <1>4, <3>1
      <4> QED
        BY <1>3, <3>1, <4>1 DEF InUse
    <3> QED
      BY <3>1
  <2>2. r \in InUse /\ r \notin Leaving => r \in Used
    <3>1. ASSUME NEW name \in DOMAIN readers, r = readers[name], r \notin Leaving
          PROVE  r \in Used
      <4>1. name \in DOMAIN rundirs /\ name \notin Fresh
        BY <3>1 DEF Leaving, Gone, Names, Fresh
      <4> QED
        BY <1>3, <3>1, <4>1
    <3> QED
      BY <3>1 DEF InUse
  <2>3. r \in InUse <=> state[r].doing # "closed"
    BY <1>2
  <2>4. IF r \in Leaving THEN state'[r].doing = "closed" ELSE state'[r] = state[r]
    BY <1>1 DEF Started, Does, n
  <2> QED
    BY <2>1, <2>2, <2>3, <2>4
<1>9. ASSUME NEW i \in 1 .. Len(New)
      PROVE  n + i \in Used /\ state'[n + i].doing # "closed"
  <2>1. New[i] \in Fresh
    BY NewRuns, ElementOfSeq
  <2>2. PICK j \in 1 .. Len(New) : New[j] = New[i] /\ Number(New[i]) = n + j
    BY <1>4, <2>1
  <2>3. i = j
    BY <2>2, NewRuns
  <2>4. n + i \in Used
    BY <1>4, <2>1, <2>2, <2>3
  <2>5. state'[n + i] = [path |-> rundirs[New[i]], doing |-> "asleep"]
    BY <1>1 DEF Started, n
  <2> QED
    BY <2>4, <2>5
<1>10. Used = {r \in DOMAIN state' : state'[r].doing # "closed"}
  <2>1. Used \subseteq 1 .. n + Len(New)
    <3>1. \A name \in DOMAIN rundirs : readers'[name] \in 1 .. n + Len(New)
      BY <1>a, <1>b, Zenon
    <3> QED
      BY <3>1
  <2> HIDE DEF Used
  <2>2. \A r \in 1 .. n + Len(New) : r \in 1 .. n \/ \E i \in 1 .. Len(New) : r = n + i
    <3>1. \A r \in 1 .. n + Len(New) : r \in 1 .. n \/ (r - n \in 1 .. Len(New) /\ r = n + (r - n))
      BY <1>1
    <3> QED
      BY <3>1
  <2> QED
    BY <1>7, <1>8, <1>9, <2>1, <2>2, ZenonT(40)
<1>11. DOMAIN readers' = DOMAIN rundirs
  BY <1>1
<1> QED
  BY <1>1, <1>5, <1>6, <1>10, <1>11 DEF MapsAgree, Names

(***************************************************************************)
(* The maps agree after a step, as before.                                 *)
(***************************************************************************)
LEMMA MapsAgreeStep == IInv /\ Next => MapsAgree'
<1> SUFFICES ASSUME IInv, Next
             PROVE  MapsAgree'
  OBVIOUS
<1> USE DEF IInv
<1>0. MapsAgree
  OBVIOUS
<1>1. CASE UNCHANGED <<readers, data, state>> /\ (poller = "closed" => poller' = "closed")
  BY <1>0, <1>1 DEF MapsAgree, Names
<1>2. CASE Close
  BY <1>2 DEF Close, MapsAgree
<1>3. CASE MkLoaders
  BY <1>3, MkLoadersAgree
<1>4. ASSUME NEW r \in DOMAIN state, RunReload(r) \/ RunReloadReturn(r)
      PROVE  MapsAgree'
  <2>1. r \in 1 .. Len(state) /\ state \in Seq(ReaderState) /\ DOMAIN state = 1 .. Len(state)
    BY LenProperties DEF Types
  <2>2. PICK was, what \in {"asleep", "reloading"} :
          state[r].doing = was /\ state' = [state EXCEPT ![r].doing = what]
    BY <1>4 DEF RunReload, RunReloadReturn
  <2>3. /\ state' \in Seq(ReaderState) /\ Len(state') = Len(state)
        /\ Does(state, state', r, what)
        /\ \A q \in 1 .. Len(state) : q # r => state'[q] = state[q]
    BY <2>1, <2>2, OneReader, ZenonT(40)
  <2>4. UNCHANGED <<readers, data, poller>>
    BY <1>4 DEF RunReload, RunReloadReturn
  <2>5. DOMAIN state' = DOMAIN state
    BY <2>1, <2>3, LenProperties
  <2>6. \A q \in DOMAIN state : /\ state'[q].path = state[q].path
                                /\ state'[q].doing # "closed" <=> state[q].doing # "closed"
    BY <2>1, <2>2, <2>3 DEF Does
  <2>7. \A name \in DOMAIN readers : readers[name] \in DOMAIN state
    BY <2>1 DEF Named
  <2> QED
    BY <1>0, <2>4, <2>5, <2>6, <2>7 DEF MapsAgree, Names
<1>5. (\E d \in Dirs : Change(d)) \/ Reload \/ WalkDir \/ WalkFile \/ WalkError
        \/ Discovered \/ DoReload \/ ReloadReturn
      => UNCHANGED <<readers, data, state>> /\ (poller = "closed" => poller' = "closed")
  <2>1. (\E d \in Dirs : Change(d)) \/ WalkDir \/ WalkFile \/ WalkError \/ Discovered
          \/ DoReload => UNCHANGED <<readers, data, state, poller>>
    BY Zenon DEF Change, WalkDir, WalkFile, WalkError, Discovered, DoReload
  <2>2. Reload \/ ReloadReturn => UNCHANGED <<readers, data, state>> /\ poller # "closed"
    BY DEF Reload, ReloadReturn
  <2> QED
    BY <2>1, <2>2
<1> QED
  BY <1>1, <1>2, <1>3, <1>4, <1>5, Steps

(***************************************************************************)
(* Only runs that are in use are reloaded after a step, as before.         *)
(***************************************************************************)
LEMMA WorkingStep == IInv /\ Next => Working'
<1> SUFFICES ASSUME IInv, Next
             PROVE  Working'
  OBVIOUS
<1> USE DEF IInv
<1>0. Working /\ Types
  OBVIOUS
<1>1. CASE UNCHANGED <<readers, state, wg, llpc>>
  BY <1>0, <1>1 DEF Working, InUse
<1>2. CASE Reload \/ WalkError \/ Discovered \/ ReloadReturn
  <2>1. UNCHANGED <<readers, state, wg>> /\ wg = {}
    BY <1>2 DEF Reload, WalkError, Discovered, ReloadReturn, Working
  <2> QED
    BY <1>0, <2>1 DEF Working, InUse
<1>3. CASE MkLoaders
  <2>1. wg = {} /\ wg' = {}
    BY <1>3 DEF MkLoaders, Working
  <2>2. Started(state') /\ Len(state) \in Nat /\ Len(New) \in Nat
    BY <1>3, MkLoadersEffect, NewRuns, LenProperties DEF Types
  <2>3. \A r \in 1 .. Len(state) : state'[r].doing # "reloading"
    <3>1. \A r \in 1 .. Len(state) : state[r].doing # "reloading"
      BY <2>1 DEF Working
    <3> QED
      BY <2>2, <3>1 DEF Started, Does
  <2>4. \A i \in 1 .. Len(New) : state'[Len(state) + i].doing # "reloading"
    <3>1. \A i \in 1 .. Len(New) :
            state'[Len(state) + i] = [path |-> rundirs[New[i]], doing |-> "asleep"]
      BY <2>2, Zenon DEF Started
    <3>2. \A p : [path |-> p, doing |-> "asleep"].doing # "reloading"
      OBVIOUS
    <3> QED
      BY <3>1, <3>2, Zenon
  <2>5. \A r \in 1 .. Len(state') :
          r \in 1 .. Len(state) \/ \E i \in 1 .. Len(New) : r = Len(state) + i
    <3>1. \A r \in 1 .. Len(state') :
            \/ r \in 1 .. Len(state)
            \/ r - Len(state) \in 1 .. Len(New) /\ r = Len(state) + (r - Len(state))
      BY <2>2 DEF Started
    <3> QED
      BY <3>1
  <2>6. \A r \in 1 .. Len(state') : state'[r].doing # "reloading"
    BY <2>3, <2>4, <2>5
  <2> QED
    BY <2>1, <2>6 DEF Working
<1>4. CASE DoReload
  <2>1. /\ wg' = InUse /\ UNCHANGED <<readers, state>> /\ llpc' = "wait" /\ wg = {}
    BY <1>4 DEF DoReload, InUse, Names, Working
  <2> QED
    BY <1>0, <2>1 DEF Working, InUse
<1>5. CASE Close
  <2>1. /\ state' = Closed(InUse) /\ UNCHANGED <<readers, wg, llpc>> /\ wg = {}
    BY <1>5 DEF Close, InUse, Names, Types, Working
  <2>2. /\ Len(state') = Len(state)
        /\ \A r \in 1 .. Len(state) :
             IF r \in InUse THEN Does(state, state', r, "closed") ELSE state'[r] = state[r]
    BY <2>1, Closing DEF Types
  <2> QED
    BY <1>0, <2>1, <2>2 DEF Working, Does, InUse
<1>6. ASSUME NEW r \in DOMAIN state, RunReload(r) \/ RunReloadReturn(r)
      PROVE  Working'
  <2>1. r \in 1 .. Len(state) /\ state \in Seq(ReaderState)
    BY LenProperties DEF Types
  <2>2. CASE RunReload(r)
    <3>1. /\ Len(state') = Len(state) /\ \A q \in 1 .. Len(state) : q # r => state'[q] = state[q]
      BY <2>1, <2>2, OneReader DEF RunReload
    <3>2. UNCHANGED <<readers, wg, llpc>> /\ r \in wg
      BY <2>2 DEF RunReload
    <3> QED
      BY <1>0, <3>1, <3>2 DEF Working, InUse
  <2>3. CASE RunReloadReturn(r)
    <3>1. /\ Len(state') = Len(state) /\ \A q \in 1 .. Len(state) : q # r => state'[q] = state[q]
          /\ state'[r].doing = "asleep"
      BY <2>1, <2>3, OneReader DEF RunReloadReturn, Does
    <3>2. UNCHANGED <<readers, llpc>> /\ wg' = wg \ {r}
      BY <2>3 DEF RunReloadReturn
    <3> QED
      BY <1>0, <3>1, <3>2 DEF Working, InUse
  <2> QED
    BY <1>6, <2>2, <2>3
<1>7. (\E d \in Dirs : Change(d)) \/ WalkDir \/ WalkFile => UNCHANGED <<readers, state, wg, llpc>>
  BY Zenon DEF Change, WalkDir, WalkFile
<1> QED
  BY <1>1, <1>2, <1>3, <1>4, <1>5, <1>6, <1>7, Steps

(***************************************************************************)
(* How far the reload has come, after a step as before.                    *)
(***************************************************************************)
LEMMA ProgressStep == IInv /\ Next => Progress'
<1> SUFFICES ASSUME IInv, Next
             PROVE  Progress'
  OBVIOUS
<1> USE DEF IInv
<1>0. Progress /\ (llpc # "idle" => poller = "waiting") /\ (llpc # "wait" => wg = {})
  BY DEF Types, Working
<1>1. CASE UNCHANGED <<readers, rundirs, wg, llpc, poller, reloaded>>
  BY <1>0, <1>1 DEF Progress, InUse
<1>2. CASE Reload
  BY <1>2 DEF Reload, Progress
<1>3. CASE WalkError
  BY <1>0, <1>3 DEF WalkError, Progress
<1>4. CASE Discovered
  BY <1>0, <1>4 DEF Discovered, Progress
<1>5. CASE MkLoaders
  <2>1. DOMAIN readers' = DOMAIN rundirs
    <3>1. readers' = [name \in DOMAIN rundirs |->
                        IF name \in Fresh THEN Number(name) ELSE readers[name]]
      BY <1>5, MkLoadersEffect
    <3> QED
      BY <3>1
  <2> QED
    BY <1>0, <1>5, <2>1 DEF MkLoaders, Progress
<1>6. CASE DoReload
  BY <1>0, <1>6 DEF DoReload, Progress, InUse, Names
<1>7. CASE ReloadReturn
  BY <1>0, <1>7 DEF ReloadReturn, Progress, InUse
<1>8. CASE Close
  BY <1>0, <1>8 DEF Close, Progress
<1>9. ASSUME NEW r \in DOMAIN state, RunReload(r) \/ RunReloadReturn(r)
      PROVE  Progress'
  <2>1. r \in wg /\ llpc = "wait" /\ UNCHANGED <<readers, rundirs, llpc, poller>>
    BY <1>0, <1>9 DEF RunReload, RunReloadReturn
  <2>2. wg' \cup reloaded' = wg \cup reloaded
    BY <1>9, <2>1 DEF RunReload, RunReloadReturn
  <2> QED
    BY <1>0, <2>1, <2>2 DEF Progress, InUse
<1>10. (\E d \in Dirs : Change(d)) \/ WalkDir \/ WalkFile
         => UNCHANGED <<readers, rundirs, wg, llpc, poller, reloaded>>
  BY Zenon DEF Change, WalkDir, WalkFile
<1> QED
  BY <1>1, <1>2, <1>3, <1>4, <1>5, <1>6, <1>7, <1>8, <1>9, <1>10, Steps

(***************************************************************************)
(* The walk goes on as before: what has been there all the time is found   *)
(* or lies ahead.                                                          *)
(***************************************************************************)
LEMMA WalkStep == IInv /\ Next => Walk'
<1> SUFFICES ASSUME IInv, Next
             PROVE  Walk'
  OBVIOUS
<1> USE DEF IInv
<1> DEFINE Covered(d) == d \in ToSet(files) \/ \E e \in ToSet(toVisit) : Leads(e, d)
<1>0. /\ llpc = "walk" => /\ stayed \subseteq disk /\ disk \subseteq appeared
                          /\ ToSet(files) \subseteq appeared
                          /\ \A d \in stayed : Covered(d)
      /\ NoNameIsAPath => AllRunsFound
  BY DEF Walk
<1>h. toVisit # <<>> => /\ Head(toVisit) \in Entry /\ Tail(toVisit) \in Seq(Entry)
                        /\ ToSet(toVisit) = {Head(toVisit)} \cup ToSet(Tail(toVisit))
  <2> SUFFICES ASSUME toVisit # <<>>
               PROVE  /\ Head(toVisit) \in Entry /\ Tail(toVisit) \in Seq(Entry)
                      /\ ToSet(toVisit) = {Head(toVisit)} \cup ToSet(Tail(toVisit))
    OBVIOUS
  <2>1. toVisit \in Seq(Entry) /\ <<>> \in Seq(Entry)
    BY EmptySeq DEF Types
  <2>2. Head(toVisit) \in Entry /\ Tail(toVisit) \in Seq(Entry)
    BY <2>1, HeadTailProperties
  <2>3. Append(<<>>, Head(toVisit)) \o Tail(toVisit) = <<>> \o toVisit
    BY <2>1, PassOn
  <2>4. Append(<<>>, Head(toVisit)) = <<Head(toVisit)>> /\ <<>> \o toVisit = toVisit
    BY <2>1, ConcatEmptySeq
  <2>5. ToSet(<<Head(toVisit)>> \o Tail(toVisit))
          = ToSet(<<Head(toVisit)>>) \cup ToSet(Tail(toVisit))
    <3>1. <<Head(toVisit)>> \in Seq(Entry)
      BY <2>2
    <3> QED
      BY <2>2, <3>1, ElementsOfConcat, ZenonT(40)
  <2>6. ToSet(<<Head(toVisit)>>) = {Head(toVisit)}
    BY DEF ToSet
  <2> QED
    BY <2>2, <2>3, <2>4, <2>5, <2>6
<1>1. CASE UNCHANGED <<disk, walkVars, llpc, rundirs>>
  BY <1>0, <1>1 DEF Walk, AllRunsFound, walkVars, Names
<1>2. ASSUME NEW d \in Dirs, Change(d)
      PROVE  Walk'
  <2>1. /\ disk' = IF d \in disk THEN disk \ {d} ELSE disk \cup {d}
        /\ UNCHANGED <<files, toVisit, llpc, rundirs>>
        /\ IF llpc = "walk" THEN stayed' = stayed \ {d} /\ appeared' = appeared \cup {d}
                            ELSE UNCHANGED <<stayed, appeared>>
    BY <1>2 DEF Change
  <2>2. CASE llpc = "walk"
    BY <1>0, <2>1, <2>2 DEF Walk, AllRunsFound
  <2>3. CASE llpc # "walk"
    BY <1>0, <2>1, <2>3 DEF Walk, AllRunsFound, Names
  <2> QED
    BY <2>2, <2>3
<1>3. CASE Reload
  <2>1. /\ llpc' = "walk" /\ toVisit' = <<Dir(Logdir)>> /\ files' = <<>>
        /\ stayed' = disk /\ appeared' = disk /\ disk' = disk
    BY <1>3 DEF Reload, diskVars
  <2>2. ToSet(files') = {} /\ ToSet(toVisit') = {Dir(Logdir)}
    BY <2>1 DEF ToSet
  <2>3. \A d \in disk : Leads(Dir(Logdir), d)
    BY LoaderAssumption DEF Types, Leads, Dir
  <2> QED
    BY <2>1, <2>2, <2>3 DEF Walk, AllRunsFound
<1>4. CASE WalkDir
  <2> DEFINE h == Head(toVisit)
  <2>1. /\ llpc = "walk" /\ toVisit # <<>> /\ h.what = "dir"
        /\ UNCHANGED <<disk, files, stayed, appeared, llpc>>
    BY <1>4 DEF WalkDir, diskVars
  <2>2. PICK s \in SetToSeqs(Entries(h.path)) : toVisit' = s \o Tail(toVisit)
    BY <1>4 DEF WalkDir
  <2>3. Lists(h.path, s)
    <3>1. h.path \in Seq(STRING)
      BY <1>h, <2>1 DEF Entry
    <3> QED
      BY <2>2, <3>1, Listed
  <2>4. ToSet(toVisit') = ToSet(s) \cup ToSet(Tail(toVisit))
    <3>1. s \in Seq(Entry) /\ Tail(toVisit) \in Seq(Entry)
      BY <1>h, <2>1, <2>3 DEF Lists
    <3>2. ToSet(s \o Tail(toVisit)) = ToSet(s) \cup ToSet(Tail(toVisit))
      BY <3>1, ElementsOfConcat
    <3> QED
      BY <2>2, <3>2
  <2>5. ASSUME NEW d \in stayed
        PROVE  Covered(d)'
    <3>1. d \in ToSet(files) \/ Leads(h, d) \/ \E e \in ToSet(Tail(toVisit)) : Leads(e, d)
      BY <1>0, <1>h, <2>1
    <3>2. Leads(h, d) => \E e \in ToSet(s) : Leads(e, d)
      BY <1>0, <2>1, <2>3 DEF Leads, Lists
    <3> QED
      BY <2>1, <2>4, <3>1, <3>2
  <2> QED
    BY <1>0, <2>1, <2>5 DEF Walk, AllRunsFound
<1>5. CASE WalkFile
  <2> DEFINE h == Head(toVisit)
  <2>1. /\ llpc = "walk" /\ toVisit # <<>> /\ h.what = "file" /\ h.path \in disk
        /\ files' = Append(files, h.path) /\ toVisit' = Tail(toVisit)
        /\ UNCHANGED <<disk, stayed, appeared, llpc>>
    BY <1>5 DEF WalkFile, diskVars
  <2>2. ToSet(files') = ToSet(files) \cup {h.path}
    <3>1. files \in Seq(Dirs) /\ h.path \in Dirs /\ <<h.path>> \in Seq(Dirs)
      BY <2>1 DEF Types
    <3>2. Append(files, h.path) = files \o <<h.path>>
      BY <3>1, AppendIsConcat
    <3>3. ToSet(files \o <<h.path>>) = ToSet(files) \cup ToSet(<<h.path>>)
      BY <3>1, ElementsOfConcat, ZenonT(40)
    <3>4. ToSet(<<h.path>>) = {h.path}
      BY DEF ToSet
    <3> QED
      BY <2>1, <3>2, <3>3, <3>4
  <2>3. ASSUME NEW d \in stayed
        PROVE  Covered(d)'
    <3>1. d \in ToSet(files) \/ Leads(h, d) \/ \E e \in ToSet(Tail(toVisit)) : Leads(e, d)
      BY <1>0, <1>h, <2>1
    <3>2. Leads(h, d) => d = h.path
      BY <2>1 DEF Leads
    <3> QED
      BY <2>1, <2>2, <3>1, <3>2
  <2> QED
    BY <1>0, <2>1, <2>2, <2>3 DEF Walk, AllRunsFound
<1>6. CASE WalkError \/ ReloadReturn
  <2>1. llpc' = "idle"
    BY <1>6 DEF WalkError, ReloadReturn
  <2> QED
    BY <2>1 DEF Walk, AllRunsFound
<1>7. CASE Discovered
  <2>1. /\ llpc = "walk" /\ toVisit = <<>> /\ llpc' = "mkloaders"
        /\ rundirs' = RunDirsOf(Logdir, files) /\ UNCHANGED <<stayed, appeared>>
    BY <1>7 DEF Discovered
  <2> DEFINE m == RunDirsOf(Logdir, files)
  <2>2. stayed \subseteq ToSet(files) /\ ToSet(files) \subseteq appeared
    <3>1. ToSet(toVisit) = {}
      BY <2>1 DEF ToSet
    <3> QED
      BY <1>0, <2>1, <3>1
  <2>3. Found(m, ToSet(files))
    BY RunDirsFound DEF Types
  <2>4. stayed \subseteq Dirs
    BY <1>0, <2>1 DEF Types
  <2>5. \A name \in DOMAIN m : m[name] \in ToSet(files) /\ m[name] \in Dirs
                               /\ Rel(Logdir, m[name]) = name
    BY DiscoveredRuns
  <2> HIDE DEF m
  <2>6. ASSUME NoNameIsAPath, NEW d \in stayed
        PROVE  d \in {m[name] : name \in DOMAIN m}
    <3>1. Rel(Logdir, d) \in DOMAIN m
      BY <2>2, <2>3, <2>6 DEF Found
    <3>2. d = m[Rel(Logdir, d)]
      <4>1. m[Rel(Logdir, d)] \in Dirs /\ Rel(Logdir, m[Rel(Logdir, d)]) = Rel(Logdir, d)
        BY <2>5, <3>1, Zenon
      <4>2. d \in Dirs
        BY <2>4
      <4>3. \A a \in Dirs : a = Logdir \o Rel(Logdir, a)
        BY RelSays
      <4> QED
        BY <4>1, <4>2, <4>3, Zenon
    <3> QED
      BY <3>1, <3>2
  <2>7. \A name \in DOMAIN m : m[name] \in appeared
    BY <2>2, <2>5
  <2>8. NoNameIsAPath => AllRunsFound'
    <3>1. rundirs' = m
      BY <2>1 DEF m
    <3> QED
      BY <2>1, <2>6, <2>7, <3>1 DEF AllRunsFound, Names
  <2> QED
    BY <2>1, <2>8 DEF Walk
<1>8. CASE MkLoaders \/ DoReload
  <2>1. /\ llpc \in {"mkloaders", "doreload"} /\ llpc' # "walk"
        /\ UNCHANGED <<stayed, appeared, rundirs>>
    BY <1>8 DEF MkLoaders, DoReload, walkVars
  <2> QED
    BY <1>0, <2>1 DEF Walk, AllRunsFound, Names
<1>9. Close \/ (\E r \in DOMAIN state : RunReload(r) \/ RunReloadReturn(r))
        => UNCHANGED <<disk, walkVars, llpc, rundirs>>
  BY Zenon DEF Close, RunReload, RunReloadReturn, diskVars
<1> QED
  BY <1>1, <1>2, <1>3, <1>4, <1>5, <1>6, <1>7, <1>8, <1>9, Steps

(***************************************************************************)
(* Every step keeps the invariant.                                         *)
(***************************************************************************)
LEMMA StepHolds == IInv /\ [Next]_vars => IInv'
<1>1. IInv /\ Next => IInv'
  BY TypesStep, NamedStep, MapsAgreeStep, WorkingStep, ProgressStep, WalkStep, Zenon DEF IInv
<1>2. IInv /\ UNCHANGED vars => IInv'
  <2> SUFFICES ASSUME IInv, UNCHANGED vars
               PROVE  IInv'
    OBVIOUS
  <2> USE DEF IInv, vars, diskVars, walkVars
  <2>1. Types'
    BY DEF Types
  <2>4. Working' /\ Progress'
    BY DEF Working, Progress, InUse
  <2>2. Named' /\ MapsAgree'
    BY DEF Named, MapsAgree, Names
  <2>3. Walk'
    BY DEF Walk, AllRunsFound, Names
  <2> QED
    BY <2>1, <2>2, <2>3, <2>4
<1> QED
  BY <1>1, <1>2

-----------------------------------------------------------------------------
(***************************************************************************)
(* The invariant holds throughout, whatever comes and goes on disk.        *)
(***************************************************************************)
THEOREM Inductive == Spec => []IInv
BY InitHolds, StepHolds, PTL DEF Spec

(***************************************************************************)
(* The variables have their types.                                         *)
(***************************************************************************)
THEOREM TypeCorrect == Spec => []TypeOK
<1>1. IInv => TypeOK
  <2> SUFFICES ASSUME IInv
               PROVE  TypeOK
    OBVIOUS
  <2>1. DOMAIN state = 1 .. Len(state) /\ \A r \in 1 .. Len(state) : state[r] \in ReaderState
    BY LenProperties, ElementOfSeq DEF IInv, Types
  <2> QED
    BY <2>1 DEF IInv, Types, TypeOK, ReaderState
<1> QED
  BY <1>1, Inductive, PTL

(***************************************************************************)
(* Until the loader is closed the two maps have the same runs, each run    *)
(* its own reader, and a reader is open if and only if it is in them.      *)
(***************************************************************************)
THEOREM SameRuns == Spec => []MapsAgree
<1>1. IInv => MapsAgree
  BY DEF IInv
<1> QED
  BY <1>1, Inductive, PTL

(***************************************************************************)
(* When Reload has returned, every run that was discovered, and no other,  *)
(* can be read and has been reloaded.                                      *)
(***************************************************************************)
THEOREM Complete == Spec => []ReloadComplete
<1>1. IInv => ReloadComplete
  BY DEF IInv, MapsAgree, Progress, InUse, ReloadComplete, Names
<1> QED
  BY <1>1, Inductive, PTL

\* A path that begins with "/" has it nowhere else.
Absolute(d) == d # <<>> /\ d[1] = "/" /\ \A i \in 2 .. Len(d) : d[i] # "/"

(***************************************************************************)
(* Below an absolute log directory no run has a name that is a path, ...   *)
(***************************************************************************)
LEMMA NamesAreRelative ==
  ASSUME Logdir # <<>>, \A d \in Dirs : Absolute(d)
  PROVE  NoNameIsAPath
<1> SUFFICES ASSUME NEW d \in Dirs, NEW e \in Dirs, Rel(Logdir, d) = e
             PROVE  FALSE
  BY DEF NoNameIsAPath
<1> DEFINE n == Len(Logdir)
<1>1. /\ Logdir \in Seq(STRING) /\ d \in Seq(STRING) /\ e \in Seq(STRING)
      /\ IsPrefix(Logdir, d) /\ Absolute(d) /\ Absolute(e)
  BY LoaderAssumption
<1>2. n \in Nat /\ n >= 1 /\ Len(d) \in Nat /\ n <= Len(d)
  BY <1>1, LenProperties DEF IsPrefix
<1>3. Len(e) \in Nat /\ Len(e) >= 1 /\ e[1] = "/"
  BY <1>1, LenProperties DEF Absolute
<1> HIDE DEF n
<1>4. e = SubSeq(d, n + 1, Len(d))
  BY <1>1 DEF Rel, n
<1>5. /\ Len(e) = IF Len(d) < n + 1 THEN 0 ELSE Len(d) - (n + 1) + 1
      /\ \A i \in 1 .. Len(d) - (n + 1) + 1 : e[i] = d[n + 1 + i - 1]
  <2>1. \A i \in n + 1 .. Len(d) : i \in 1 .. Len(d)
    BY <1>2
  <2>2. \A i \in n + 1 .. Len(d) : d[i] \in STRING
    BY <1>1, <2>1, ElementOfSeq
  <2>3. n + 1 \in Int /\ Len(d) \in Int
    BY <1>2
  <2> QED
    BY <1>4, <2>2, <2>3, SubSeqProperties
<1>6. e[1] = d[n + 1] /\ n + 1 \in 2 .. Len(d)
  BY <1>2, <1>3, <1>5
<1> QED
  BY <1>1, <1>3, <1>6 DEF Absolute

(***************************************************************************)
(* ... and so every directory that has event files all through the walk    *)
(* becomes a run, and no other than those that have some during it.        *)
(***************************************************************************)
THEOREM EveryRunFound ==
  ASSUME Logdir # <<>>, \A d \in Dirs : Absolute(d)
  PROVE  Spec => []AllRunsFound
<1>1. NoNameIsAPath
  BY NamesAreRelative
<1>2. IInv => AllRunsFound
  BY <1>1 DEF IInv, Walk
<1> QED
  BY <1>2, Inductive, PTL

-----------------------------------------------------------------------------
(***************************************************************************)
(* Nothing is closed while it is used, and nothing used that is closed.    *)
(***************************************************************************)
InTurn ==
  \A r \in DOMAIN state :
    /\ state'[r].doing = "closed" => state[r].doing # "reloading" /\ r \notin wg
    /\ state[r].doing = "closed" => state'[r] = state[r]

(***************************************************************************)
(* A reader that is in use is open, and the others are closed; when the    *)
(* loader is closed nothing is used.                                       *)
(***************************************************************************)
LEMMA UsedIsOpen ==
  ASSUME IInv
  PROVE  /\ DOMAIN state = 1 .. Len(state) /\ Len(state) \in Nat
         /\ \A r \in DOMAIN state : state[r].doing = "reloading" => r \in wg
         /\ \A r \in wg : r \in DOMAIN state /\ state[r].doing # "closed"
         /\ poller # "closed" =>
              \A r \in DOMAIN state : r \in InUse <=> state[r].doing # "closed"
<1>1. DOMAIN state = 1 .. Len(state) /\ Len(state) \in Nat
  BY LenProperties DEF IInv, Types
<1>2. poller # "closed" => InUse = {r \in DOMAIN state : state[r].doing # "closed"}
  BY DEF IInv, MapsAgree, InUse, Names
<1>3. poller = "closed" => wg = {}
  BY DEF IInv, Types, Working
<1> QED
  BY <1>1, <1>2, <1>3 DEF IInv, Working

(***************************************************************************)
(* Every step keeps to it.                                                 *)
(***************************************************************************)
LEMMA InTurnStep == IInv /\ [Next]_vars => InTurn
<1> SUFFICES ASSUME IInv, [Next]_vars
             PROVE  InTurn
  OBVIOUS
<1>0. /\ DOMAIN state = 1 .. Len(state) /\ Len(state) \in Nat
      /\ state \in Seq(ReaderState)
      /\ \A r \in DOMAIN state : state[r].doing = "reloading" => r \in wg
      /\ \A r \in wg : r \in DOMAIN state /\ state[r].doing # "closed"
      /\ poller # "closed" =>
           \A r \in DOMAIN state : r \in InUse <=> state[r].doing # "closed"
  BY UsedIsOpen DEF IInv, Types
<1>1. CASE state' = state
  BY <1>0, <1>1 DEF InTurn
<1>2. CASE MkLoaders
  <2>1. Started(state') /\ wg = {} /\ poller # "closed"
    BY <1>2, MkLoadersEffect DEF IInv, Working, MkLoaders, Types
  <2>2. Leaving \subseteq InUse
    BY DEF Leaving, Gone, Names, InUse
  <2>3. \A r \in DOMAIN state : r \in Leaving => state[r].doing # "closed"
    BY <1>0, <2>1, <2>2
  <2> QED
    BY <1>0, <2>1, <2>3 DEF InTurn, Started
<1>3. CASE Close
  <2>1. state' = Closed(InUse) /\ wg = {} /\ poller # "closed"
    BY <1>3 DEF Close, InUse, Names, IInv, Types, Working
  <2>2. \A r \in 1 .. Len(state) : r \notin InUse => state'[r] = state[r]
    BY <1>0, <2>1, Closing
  <2> QED
    BY <1>0, <2>1, <2>2 DEF InTurn
<1>4. ASSUME NEW r \in DOMAIN state, RunReload(r) \/ RunReloadReturn(r)
      PROVE  InTurn
  <2>1. PICK was, what \in {"asleep", "reloading"} :
          state[r].doing = was /\ state' = [state EXCEPT ![r].doing = what]
    BY <1>4 DEF RunReload, RunReloadReturn
  <2>2. /\ Does(state, state', r, what)
        /\ \A q \in 1 .. Len(state) : q # r => state'[q] = state[q]
    <3>1. r \in 1 .. Len(state) /\ state \in Seq(ReaderState)
      BY <1>0
    <3>2. \A w \in {"asleep", "reloading", "closed"} :
            /\ Does(state, [state EXCEPT ![r].doing = w], r, w)
            /\ \A q \in 1 .. Len(state) :
                 q # r => [state EXCEPT ![r].doing = w][q] = state[q]
      BY <3>1, OneReader
    <3> QED
      BY <2>1, <3>2
  <2> QED
    BY <1>0, <2>1, <2>2 DEF InTurn, Does
<1>5. (\E d \in Dirs : Change(d)) \/ Reload \/ WalkDir \/ WalkFile \/ WalkError
        \/ Discovered \/ DoReload \/ ReloadReturn => state' = state
  BY Zenon DEF Change, Reload, WalkDir, WalkFile, WalkError, Discovered, DoReload, ReloadReturn
<1>6. UNCHANGED vars => state' = state
  BY DEF vars
<1> QED
  BY <1>1, <1>2, <1>3, <1>4, <1>5, <1>6, Steps

(***************************************************************************)
(* A reader is closed when it is doing nothing and is waited for by        *)
(* nobody, and once closed it is left alone for good.                      *)
(***************************************************************************)
THEOREM UsedInTurn == Spec => ReadersUsedInTurn
<1>1. IInv /\ [Next]_vars => InTurn
  BY InTurnStep
<1> QED
  BY <1>1, Inductive, PTL DEF Spec, ReadersUsedInTurn, InTurn

-----------------------------------------------------------------------------
\* The numbers of the readers of S, which are started in the order of q.
Numbered(S, q) == [name \in S |-> Len(state) + CHOOSE i \in DOMAIN q : q[i] = name]

\* The directories that were discovered.
Runs == {rundirs[name] : name \in DOMAIN rundirs}

(***************************************************************************)
(* To those who read the map, mkloaders brings it up to date at once.      *)
(***************************************************************************)
LEMMA MkLoadersSyncs ==
  ASSUME IInv, MkLoaders
  PROVE  Map!Sync(Runs)
<1> DEFINE names == {Rel(Logdir, d) : d \in Runs}
           new == SetToSeq(names \ Map!Names(data))
<1>0. /\ data = readers /\ poller # "closed" /\ wg = {}
      /\ state \in Seq(ReaderState) /\ DOMAIN state = 1 .. Len(state)
  BY LenProperties DEF MkLoaders, IInv, Types, MapsAgree, Working
<1>1. /\ data' = [name \in DOMAIN rundirs |->
                    IF name \in Fresh THEN Number(name) ELSE readers[name]]
  BY <1>0, MkLoadersEffect DEF IInv
<1>2. \A name \in DOMAIN rundirs :
        rundirs[name] \in Dirs /\ Rel(Logdir, rundirs[name]) = name
  BY DEF IInv, Named
<1>3. names = DOMAIN rundirs
  BY <1>2 DEF Runs
<1>4. names \ Map!Names(data) = Fresh /\ new = New
  BY <1>0, <1>3 DEF Map!Names, Fresh, Names, New
<1>5. \A r \in DOMAIN state : state[r].doing # "reloading"
  BY <1>0 DEF IInv, Working
<1>6. data' = PutAll(Map!Kept(names),
                     [name \in names \ Map!Names(data) |->
                        Len(state) + CHOOSE i \in DOMAIN new : new[i] = name])
  <2> DEFINE pair == [name \in Fresh |-> Number(name)]
             kept == [name \in DOMAIN readers \cap DOMAIN rundirs |-> readers[name]]
  <2>1. Map!Kept(names) = kept
    BY <1>0, <1>3 DEF Map!Kept, Map!Names
  <2>2. [name \in names \ Map!Names(data) |->
           Len(state) + CHOOSE i \in DOMAIN new : new[i] = name] = pair
    <3>1. pair = Numbered(Fresh, New)
      BY DEF Number, Numbered
    <3>2. Numbered(names \ Map!Names(data), new) = Numbered(Fresh, New)
      BY <1>4, Zenon
    <3> QED
      BY <3>1, <3>2 DEF Numbered
  <2>3. PutAll(kept, pair) = [name \in DOMAIN rundirs |->
                                IF name \in Fresh THEN Number(name) ELSE readers[name]]
    BY DEF PutAll, Fresh, Names
  <2> QED
    BY <1>1, <2>1, <2>2, <2>3, Zenon
<1>7. /\ New \in Seq(Fresh) /\ DOMAIN New = 1 .. Len(New)
      /\ state' = Closed(Leaving)
                  \o [i \in DOMAIN New |-> [path |-> rundirs[New[i]], doing |-> "asleep"]]
  BY NewRuns DEF IInv, MkLoaders, New, Fresh, Leaving
<1>8. [i \in DOMAIN New |-> [path |-> rundirs[New[i]], doing |-> "asleep"]]
        = [i \in DOMAIN New |-> [path |-> Logdir \o New[i], doing |-> "asleep"]]
  <2>1. \A i \in DOMAIN New : New[i] \in DOMAIN rundirs
    <3>1. \A i \in 1 .. Len(New) : New[i] \in Fresh
      BY <1>7, ElementOfSeq
    <3> QED
      BY <1>7, <3>1 DEF Fresh, Names
  <2>2. \A name \in DOMAIN rundirs : rundirs[name] = Logdir \o name
    <3>1. \A d \in Dirs : d = Logdir \o Rel(Logdir, d)
      BY RelSays
    <3> QED
      BY <1>2, <3>1, Zenon
  <2> QED
    BY <2>1, <2>2
<1>9. \A r \in DOMAIN state :
        r \in Leaving <=> r \in Map!Readers /\ state[r].path \notin Runs
  <2> SUFFICES ASSUME NEW r \in DOMAIN state
               PROVE  r \in Leaving <=> r \in Map!Readers /\ state[r].path \notin Runs
    OBVIOUS
  <2>1. \A name \in DOMAIN readers : Rel(Logdir, state[readers[name]].path) = name
    BY <1>0 DEF IInv, MapsAgree, Names
  <2>2. \A a, b \in DOMAIN readers : readers[a] = readers[b] => a = b
    BY <1>0 DEF IInv, MapsAgree, Names
  <2>3. state[r].path \in Dirs
    <3>1. state[r] \in ReaderState
      BY <1>0, ElementOfSeq
    <3> QED
      BY <3>1 DEF ReaderState
  <2>4. ASSUME NEW name \in DOMAIN readers, r = readers[name]
        PROVE  name \in Gone <=> state[r].path \notin Runs
    <3>1. Rel(Logdir, state[r].path) = name
      BY <2>1, <2>4
    <3>2. state[r].path \in Runs => name \in DOMAIN rundirs
      BY <1>2, <3>1 DEF Runs
    <3>3. name \in DOMAIN rundirs => state[r].path \in Runs
      <4> SUFFICES ASSUME name \in DOMAIN rundirs
                   PROVE  state[r].path = rundirs[name]
        BY DEF Runs
      <4>1. \A d \in Dirs : d = Logdir \o Rel(Logdir, d)
        BY RelSays
      <4> QED
        BY <1>2, <2>3, <3>1, <4>1, Zenon
    <3> QED
      BY <3>2, <3>3 DEF Gone, Names
  <2>5. r \in Map!Readers <=> \E name \in DOMAIN readers : r = readers[name]
    BY <1>0 DEF Map!Readers, Map!Names
  <2>6. r \in Leaving <=> \E name \in DOMAIN readers : r = readers[name] /\ name \in Gone
    BY DEF Leaving, Gone, Names
  <2> QED
    BY <2>4, <2>5, <2>6
<1>10. Closed(Leaving) = [r \in DOMAIN state |->
                            IF r \in Map!Readers /\ state[r].path \notin Runs
                            THEN [state[r] EXCEPT !.doing = "closed"] ELSE state[r]]
  <2> QED
    BY <1>9 DEF Closed
<1>11. state' = [r \in DOMAIN state |->
                   IF r \in Map!Readers /\ state[r].path \notin Runs
                   THEN [state[r] EXCEPT !.doing = "closed"] ELSE state[r]]
                \o [i \in DOMAIN new |-> [path |-> Logdir \o new[i], doing |-> "asleep"]]
  BY <1>4, <1>7, <1>8, <1>10, Zenon
<1> QED
  BY <1>5, <1>6, <1>11
     DEF Map!Sync, Map!Rel, Rel, Map!PutAll, PutAll, Map!SetToSeq, SetToSeq,
         Map!IsInjective, IsInjective, Map!Cardinality, Cardinality

(***************************************************************************)
(* The loader is a map that is brought up to date in one step, and never   *)
(* while a run of it is reloaded, although it walks, waits and works on    *)
(* two maps to get there.                                                  *)
(***************************************************************************)
THEOREM Refinement == Spec => ImplementsRunMap
<1>1. ASSUME IInv, [Next]_vars
      PROVE  Map!MapNext \/ UNCHANGED Map!mapVars
  <2> USE <1>1
  <2>0. /\ DOMAIN state = 1 .. Len(state) /\ state \in Seq(ReaderState)
        /\ \A r \in DOMAIN state : state[r].doing = "reloading" => r \in wg
        /\ \A r \in wg : r \in DOMAIN state /\ state[r].doing # "closed"
        /\ poller # "closed" =>
             \A r \in DOMAIN state : r \in InUse <=> state[r].doing # "closed"
        /\ poller # "closed" => data = readers
    BY UsedIsOpen DEF IInv, Types, MapsAgree
  <2>1. CASE UNCHANGED <<data, state>>
    BY <2>1 DEF Map!mapVars
  <2>2. CASE MkLoaders
    <3>1. Runs \in SUBSET Dirs
      BY DEF IInv, Named, Runs
    <3>2. Map!Sync(Runs)
      BY <2>2, MkLoadersSyncs
    <3> QED
      BY <3>1, <3>2, Zenon DEF Map!MapNext
  <2>3. ASSUME NEW r \in DOMAIN state, RunReload(r)
        PROVE  Map!RunReload(r)
    <3>1. /\ r \in wg /\ state[r].doing = "asleep" /\ data' = data
          /\ state' = [state EXCEPT ![r].doing = "reloading"]
      BY <2>3 DEF RunReload
    <3>2. wg # {} => poller # "closed"
      BY DEF IInv, Types, Working
    <3>3. r \in InUse /\ data = readers
      BY <2>0, <3>1, <3>2
    <3>4. r \in Map!Readers
      BY <3>3 DEF Map!Readers, Map!Names, InUse
    <3> QED
      BY <3>1, <3>4, Zenon DEF Map!RunReload, Map!Doing
  <2>4. ASSUME NEW r \in DOMAIN state, RunReloadReturn(r)
        PROVE  Map!RunReloadReturn(r)
    BY <2>4, Zenon DEF RunReloadReturn, Map!RunReloadReturn, Map!Doing
  <2>5. CASE Close
    <3>1. /\ data' = <<>> /\ state' = Closed(InUse) /\ wg = {} /\ poller # "closed"
      BY <2>5 DEF Close, InUse, Names, IInv, Types, Working
    <3>2. \A r \in DOMAIN state : state[r].doing # "reloading"
      BY <2>0, <3>1
    <3>3. \A r \in DOMAIN state :
            r \notin InUse => state[r] = [state[r] EXCEPT !.doing = "closed"]
      <4>1. \A r \in DOMAIN state : state[r] \in ReaderState
        BY <2>0, ElementOfSeq
      <4>2. \A e \in ReaderState : e.doing = "closed" => e = [e EXCEPT !.doing = "closed"]
        BY DEF ReaderState
      <4> QED
        BY <2>0, <3>1, <4>1, <4>2, Zenon
    <3>4. state' = [r \in DOMAIN state |-> [state[r] EXCEPT !.doing = "closed"]]
      BY <3>1, <3>3 DEF Closed
    <3> QED
      BY <3>1, <3>2, <3>4, Zenon DEF Map!MapClose, Map!MapNext
  <2>6. (\E d \in Dirs : Change(d)) \/ Reload \/ WalkDir \/ WalkFile \/ WalkError
          \/ Discovered \/ DoReload \/ ReloadReturn => UNCHANGED <<data, state>>
    BY Zenon DEF Change, Reload, WalkDir, WalkFile, WalkError, Discovered, DoReload,
                 ReloadReturn
  <2>7. UNCHANGED vars => UNCHANGED <<data, state>>
    BY DEF vars
  <2>8. (\E r \in DOMAIN state : RunReload(r) \/ RunReloadReturn(r)) => Map!MapNext
    BY <2>3, <2>4, Zenon DEF Map!MapNext
  <2> QED
    BY <1>1, <2>1, <2>2, <2>5, <2>6, <2>7, <2>8, Steps, Zenon
<1>2. Init => Map!MapInit
  BY DEF Init, Map!MapInit
<1> QED
  BY <1>1, <1>2, Inductive, PTL DEF Spec, ImplementsRunMap, Map!MapSpec
===============================================================================
