---------------------------- MODULE EventFileReader ----------------------------
(***************************************************************************)
(* The goroutine that reads one event file (io/eventfile/reader.go) with   *)
(* the re-entrant TFRecord decoder under it (io/tfrecord.go), byte by byte.*)
(*                                                                         *)
(* A byte is known by where it comes from: byte "at" of record "rec".  A   *)
(* record is a header, that is its length and the CRC of it, the data, and *)
(* a footer, the CRC of the data.  CRCs detect every error: twelve bytes   *)
(* are a header only if they are one of the records' headers.              *)
(***************************************************************************)
EXTENDS Integers, Sequences, SequencesExt, FiniteSets, FiniteSetsExt

CONSTANTS Contents,      \* the sequences of records the file may hold
          HeaderLength,  \* 12 in the code
          FooterLength,  \* 4 in the code
          UintSize,      \* 2^64 in the code: a length field wraps here
          IntSize,       \* 2^63 on a 64-bit build: int is -IntSize .. IntSize-1
          MayFail,       \* whether a read may fail with an error other than EOF
          MaxRecords     \* bound: how many records a file has

ASSUME FormatAssumption ==
  /\ HeaderLength \in Nat \ {0} /\ FooterLength \in Nat \ {0}
  /\ IntSize \in Nat \ {0} /\ UintSize \in Nat /\ UintSize >= IntSize
  /\ MayFail \in BOOLEAN
  /\ Contents \subseteq Seq([kind : {"event", "badData", "badLength"},
                            len  : 0 .. UintSize - 1])

VARIABLES content,  \* the records the file will have once fully written
          written,  \* how many bytes the file has now
          pos,      \* how many of them have been read
          header,   \* state.header[:headerRead]
          body,     \* state.dataPlusFooter[:dataPlusFooterRead]
          bodyLen,  \* len(state.dataPlusFooter)
          pc, result, got   \* as in EventStream, for this file

vars == <<content, written, pos, header, body, bodyLen, pc, result, got>>
decoder == <<pos, header, body, bodyLen>>

-----------------------------------------------------------------------------
BytesOf(i) == [k \in 1 .. HeaderLength + content[i].len + FooterLength |->
                 [rec |-> i, at |-> k]]

\* The file once fully written, and how far its first n records reach.
FirstRecords(n) == FlattenSeq([i \in 1 .. n |-> BytesOf(i)])
File == FirstRecords(Len(content))
EndOf(n) == Len(FirstRecords(n))

\* A header whose CRC is the one of its length field, and that length.
HeaderOf(i) == SubSeq(BytesOf(i), 1, HeaderLength)

\* Mutant of ValidHeader: the CRC of the length is not checked.
ValidHeaderUnchecked(h) == \E i \in 1 .. Len(content) : h = HeaderOf(i)

ValidHeader(h) ==
  \E i \in 1 .. Len(content) : h = HeaderOf(i) /\ content[i].kind # "badLength"
LengthIn(h) == content[h[1].rec].len

\* Mutant of Available: a short read is taken for a full one.
AvailableAlways(wanted) == wanted

\* What ReadFull gives of what is still wanted.
Available(wanted) == IF wanted <= written - pos THEN wanted ELSE written - pos
NextBytes(n) == SubSeq(File, pos + 1, pos + n)

(***************************************************************************)
(* int(length + footerLength): uint64 addition, then a conversion to int.  *)
(***************************************************************************)
Sum64(length) == (length + FooterLength) % UintSize
ToInt(u) == ((u + IntSize) % (2 * IntSize)) - IntSize

-----------------------------------------------------------------------------
Init ==
  /\ content \in Contents
  /\ written = 0
  /\ pos = 0 /\ header = <<>> /\ body = <<>> /\ bodyLen = 0
  /\ pc = "wait"
  /\ result = [rec |-> 0, status |-> "none"]
  /\ got = <<>>

\* The program that logs the run appends some bytes.
Write ==
  /\ \E n \in written + 1 .. Len(File) : written' = n
  /\ UNCHANGED <<content, decoder, pc, result, got>>

Send(rec, status) ==
  /\ pc' = "result"
  /\ result' = [rec |-> rec, status |-> status]

(***************************************************************************)
(* ReadRecord, first part: as much of the header as there is.  Short of    *)
(* all of it the answer is EOF, and the decoder keeps what it has.         *)
(***************************************************************************)
ReadHeader ==
  /\ pc = "read"
  /\ Len(header) < HeaderLength
  /\ LET n == Available(HeaderLength - Len(header))
         h == header \o NextBytes(n)
         u == Sum64(LengthIn(h))
     IN  /\ header' = h
         /\ pos' = pos + n
         /\ \/ /\ Len(h) < HeaderLength
               /\ pc' = "sleep"
               /\ UNCHANGED <<bodyLen, result>>
            \/ /\ Len(h) = HeaderLength /\ ~ValidHeader(h)
               /\ Send(h[1].rec, "fatal")
               /\ UNCHANGED bodyLen
            \/ /\ Len(h) = HeaderLength /\ ValidHeader(h)
               /\ \/ \* "record too large for system"
                     /\ ToInt(u) % UintSize # u
                     /\ Send(h[1].rec, "fatal")
                     /\ UNCHANGED bodyLen
                  \/ \* make panics: len out of range
                     /\ ToInt(u) % UintSize = u /\ ToInt(u) < 0
                     /\ pc' = "panicked"
                     /\ UNCHANGED <<bodyLen, result>>
                  \/ /\ ToInt(u) % UintSize = u /\ ToInt(u) >= 0
                     /\ bodyLen' = ToInt(u)
                     /\ UNCHANGED <<pc, result>>
  /\ UNCHANGED <<content, written, body, got>>

\* The record is whole: its data and its footer, and nothing else.
IsBodyOf(i, b) ==
  /\ Len(b) = content[i].len + FooterLength
  /\ \A k \in DOMAIN b : b[k] = [rec |-> i, at |-> HeaderLength + k]

(***************************************************************************)
(* ReadRecord, second part: as much of the data and footer as there is.    *)
(* A whole record resets the decoder; readEvent then judges it.            *)
(***************************************************************************)
ReadBody ==
  /\ pc = "read"
  /\ Len(header) = HeaderLength
  /\ LET n == Available(bodyLen - Len(body))
         b == body \o NextBytes(n)
         i == header[1].rec
     IN  /\ pos' = pos + n
         /\ \/ /\ Len(b) < bodyLen
               /\ body' = b
               /\ pc' = "sleep"
               /\ UNCHANGED <<header, bodyLen, result>>
            \/ \* dataPlusFooter[:dataLength] panics on a negative length
               /\ Len(b) = bodyLen /\ bodyLen < FooterLength
               /\ body' = b
               /\ pc' = "panicked"
               /\ UNCHANGED <<header, bodyLen, result>>
            \/ /\ Len(b) = bodyLen /\ bodyLen >= FooterLength
               /\ header' = <<>> /\ body' = <<>> /\ bodyLen' = 0
               /\ Send(i, IF IsBodyOf(i, b) /\ content[i].kind = "event"
                          THEN "event" ELSE "error")
  /\ UNCHANGED <<content, written, got>>

\* A read error other than EOF; how much it had read no longer matters.
ReadError ==
  /\ MayFail
  /\ pc = "read"
  /\ Send(0, "fatal")
  /\ UNCHANGED <<content, written, decoder, got>>

\* Mutant of WakeUp: the decoder's state does not survive the sleep.
WakeUpAfresh(action) ==
  /\ pc = "wait"
  /\ pc' = IF action = "Resume" THEN "read" ELSE "dead"
  /\ header' = <<>> /\ body' = <<>> /\ bodyLen' = 0
  /\ UNCHANGED <<content, written, pos, result, got>>

\* The owner's side of the channels, as in EventStream.
WakeUp(action) ==
  /\ pc = "wait"
  /\ pc' = IF action = "Resume" THEN "read" ELSE "dead"
  /\ UNCHANGED <<content, written, decoder, result, got>>

TakeAsleep ==
  /\ pc = "sleep"
  /\ pc' = "wait"
  /\ UNCHANGED <<content, written, decoder, result, got>>

TakeResult ==
  /\ pc = "result"
  /\ got' = Append(got, result)
  /\ result' = [rec |-> 0, status |-> "none"]
  /\ pc' = IF result.status = "fatal" THEN "dead" ELSE "read"
  /\ UNCHANGED <<content, written, decoder>>

Goroutine == ReadHeader \/ ReadBody \/ ReadError
Owner == TakeAsleep \/ TakeResult \/ WakeUp("Resume")
Next == Write \/ Goroutine \/ Owner \/ WakeUp("Abort")

(***************************************************************************)
(* The scheduler runs the goroutine.  Its owner may abort it when it waits *)
(* for Wake; otherwise it goes on taking what is sent and waking it, as    *)
(* the polling of main does.                                               *)
(***************************************************************************)
Spec ==
  /\ Init /\ [][Next]_vars
  /\ WF_vars(Goroutine) /\ WF_vars(Owner)

-----------------------------------------------------------------------------
\* The types of the variables; the decoder never holds more than a record.
TypeOK ==
  /\ content \in Contents
  /\ pos \in 0 .. written /\ written \in 0 .. Len(File)
  /\ Len(header) \in 0 .. HeaderLength
  /\ Len(body) \in 0 .. bodyLen
  /\ pc \in {"wait", "read", "result", "sleep", "dead", "panicked"}
  /\ (pc = "result") = (result.status # "none")

(***************************************************************************)
(* The bytes held by the decoder are the last ones read, and they start    *)
(* where a record starts: no wake-up, however the bytes of the record were *)
(* cut, loses the framing.                                                 *)
(***************************************************************************)
Framed ==
  /\ header \o body = SubSeq(File, pos - Len(header \o body) + 1, pos)
  /\ header # <<>> => header[1].at = 1
  /\ body # <<>> => Len(header) = HeaderLength /\ bodyLen > 0

\* The length is valid, but with the footer it does not fit in an int.
TooLong(c, i) == c[i].kind # "badLength" /\ c[i].len + FooterLength >= IntSize

(***************************************************************************)
(* The file as EventStream sees it: the reader cannot get past a length    *)
(* that is corrupt or too long.  It judges a record once it has the bytes  *)
(* it makes room for, which after a length that is corrupt or does not fit *)
(* are none, and after one that wraps only a part of the footer.           *)
(***************************************************************************)
AsRecords(c) ==
  [i \in DOMAIN c |-> IF TooLong(c, i) THEN [c[i] EXCEPT !.kind = "badLength"] ELSE c[i]]
RoomFor(i) ==
  LET u == Sum64(content[i].len)
  IN  IF content[i].kind # "badLength" /\ ToInt(u) = u THEN u ELSE 0
Judgeable(i) == written >= EndOf(i - 1) + HeaderLength + RoomFor(i)

Judged == {i \in DOMAIN got : got[i].rec > 0}

(***************************************************************************)
(* Whatever the sizes of the pieces in which the file grows and whenever   *)
(* the reader is woken, its owner gets the records once each and in order, *)
(* and an error that ends the stream where a length is corrupt or does not *)
(* fit.  A reader that panics says nothing more.                           *)
(***************************************************************************)
Stream ==
  INSTANCE EventStream
    WITH Files <- {"file"},
         Contents <- {[f \in {"file"} |-> AsRecords(c)] : c \in Contents},
         content <- [f \in {"file"} |-> AsRecords(content)],
         visible <- [f \in {"file"} |->
                      Cardinality({i \in DOMAIN content : Judgeable(i)})],
         next <- [f \in {"file"} |->
                   1 + Cardinality(Judged) + (IF result.rec > 0 THEN 1 ELSE 0)],
         pc <- [f \in {"file"} |-> IF pc = "panicked" THEN "read" ELSE pc],
         result <- [f \in {"file"} |-> result],
         got <- [f \in {"file"} |-> got]
ImplementsEventStream == Stream!StreamSpec

(***************************************************************************)
(* A record that has been written is handed over, if no length before it   *)
(* ends the stream, as long as the owner polls: the reader does not sleep  *)
(* through it, nor give up, unless it is told to or the file fails.        *)
(***************************************************************************)
AbortedOrFailed ==
  pc = "dead" /\ \A k \in DOMAIN got : got[k].status = "fatal" => got[k].rec = 0
EveryRecordDelivered ==
  \A i \in 1 .. MaxRecords :
    (/\ i \in DOMAIN content /\ Judgeable(i)
     /\ \A j \in 1 .. i : ~TooLong(content, j)
     /\ \A j \in 1 .. i - 1 : content[j].kind # "badLength")
    ~> (AbortedOrFailed \/ \E k \in DOMAIN got : got[k].rec = i)
=============================================================================
