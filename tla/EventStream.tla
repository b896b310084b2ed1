------------------------------ MODULE EventStream ------------------------------
(***************************************************************************)
(* What an event file reader promises its owner (io/eventfile/reader.go),  *)
(* one record at a time: the records of a file that is still being written *)
(* come out once each, in file order; the reader dozes off at the current  *)
(* end of the file and goes on from there when it is woken.                *)
(*                                                                         *)
(* There is a goroutine per file.  Its three channels are unbuffered: a    *)
(* send and its receive are one step, taken with the owner.  EventFile-    *)
(* Reader refines this module to bytes; RunReader is the owner.            *)
(***************************************************************************)
EXTENDS Integers, Sequences

CONSTANTS Files,     \* the event files
          Contents,  \* what they may hold: functions from Files to records
          MayFail    \* whether a read may fail with an error other than EOF

(***************************************************************************)
(* A record has a "kind": an "event" is well formed; the data checksum or  *)
(* the Event proto of a "badData" record is wrong, and the reader goes on  *)
(* after it; after a "badLength" one it cannot.                            *)
(***************************************************************************)
VARIABLES content,  \* the records each file will have once fully written
          visible,  \* how many of them can be judged from what is written
          next,     \* the record each goroutine reads next
          pc,       \* where each goroutine is
          result,   \* the EventResult it is about to send
          got       \* history: the results its owner has received

streamVars == <<content, visible, next, pc, result, got>>

NoResult == [rec |-> 0, status |-> "none"]

(***************************************************************************)
(* "wait": blocked receiving from Wake, asleep or never woken so far.      *)
(* "read": in ReadRecord.  "result", "sleep": blocked sending on Results   *)
(* or on Asleep.  "dead": the goroutine has returned.                      *)
(***************************************************************************)
PCs == {"wait", "read", "result", "sleep", "dead"}

StreamInit ==
  /\ content \in Contents
  /\ visible = [f \in Files |-> 0]
  /\ next = [f \in Files |-> 1]
  /\ pc = [f \in Files |-> "wait"]
  /\ result = [f \in Files |-> NoResult]
  /\ got = [f \in Files |-> <<>>]

-----------------------------------------------------------------------------
\* The program that logs the run appends to a file.
Write(f) ==
  /\ visible[f] < Len(content[f])
  /\ \E n \in visible[f] + 1 .. Len(content[f]) :
       visible' = [visible EXCEPT ![f] = n]
  /\ UNCHANGED <<content, next, pc, result, got>>

Status(r) == CASE r.kind = "event" -> "event"
               [] r.kind = "badLength" -> "fatal"
               [] OTHER -> "error"

SetResult(f, rec, status) ==
  /\ pc' = [pc EXCEPT ![f] = "result"]
  /\ result' = [result EXCEPT ![f] = [rec |-> rec, status |-> status]]

ReadRecord(f) ==
  /\ pc[f] = "read"
  /\ next[f] <= visible[f]
  /\ SetResult(f, next[f], Status(content[f][next[f]]))
  /\ next' = [next EXCEPT ![f] = @ + 1]
  /\ UNCHANGED <<content, visible, got>>

ReadEOF(f) ==
  /\ pc[f] = "read"
  /\ next[f] > visible[f]
  /\ pc' = [pc EXCEPT ![f] = "sleep"]
  /\ UNCHANGED <<content, visible, next, result, got>>

\* A read error other than EOF is fatal, whatever the file holds.
ReadError(f) ==
  /\ MayFail
  /\ pc[f] = "read"
  /\ SetResult(f, 0, "fatal")
  /\ UNCHANGED <<content, visible, next, got>>

-----------------------------------------------------------------------------
\* Mutant of WakeUp: any action resumes the goroutine.
WakeUpResumes(f, action) ==
  /\ pc[f] = "wait"
  /\ pc' = [pc EXCEPT ![f] = "read"]
  /\ UNCHANGED <<content, visible, next, result, got>>

\* The owner's side of the three channels.
WakeUp(f, action) ==
  /\ pc[f] = "wait"
  /\ pc' = [pc EXCEPT ![f] = IF action = "Resume" THEN "read" ELSE "dead"]
  /\ UNCHANGED <<content, visible, next, result, got>>

TakeAsleep(f) ==
  /\ pc[f] = "sleep"
  /\ pc' = [pc EXCEPT ![f] = "wait"]
  /\ UNCHANGED <<content, visible, next, result, got>>

TakeResult(f) ==
  /\ pc[f] = "result"
  /\ got' = [got EXCEPT ![f] = Append(@, result[f])]
  /\ result' = [result EXCEPT ![f] = NoResult]
  /\ pc' = [pc EXCEPT ![f] = IF result[f].status = "fatal" THEN "dead" ELSE "read"]
  /\ UNCHANGED <<content, visible, next>>

-----------------------------------------------------------------------------
StreamNext ==
  \E f \in Files :
    \/ Write(f)
    \/ ReadRecord(f) \/ ReadEOF(f) \/ ReadError(f)
    \/ \E action \in {"Resume", "Abort"} : WakeUp(f, action)
    \/ TakeAsleep(f) \/ TakeResult(f)

StreamSpec == StreamInit /\ [][StreamNext]_streamVars
=============================================================================
