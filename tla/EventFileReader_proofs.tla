------------------------ MODULE EventFileReader_proofs ------------------------
(***************************************************************************)
(* Proofs about the reader of an event file (io/eventfile/reader.go and    *)
(* io/tfrecord.go), for every file, any widths of the length field and of  *)
(* int, and any pattern in which the file grows and the reader is woken.   *)
(*                                                                         *)
(* The invariant says which record the decoder is at, and that its bytes   *)
(* are the first ones of that record (At); how much room it has made for   *)
(* the rest (Room); and that the results are those of the records before,  *)
(* in order (Results).                                                     *)
(***************************************************************************)
EXTENDS EventFileReader, CommonLemmas

-----------------------------------------------------------------------------
(***************************************************************************)
(* Remainders.                                                             *)
(***************************************************************************)
LEMMA Remainder ==
  ASSUME NEW a \in Nat, NEW b \in Nat \ {0}
  PROVE  /\ a % b \in 0 .. b - 1
         /\ a < b => a % b = a
         /\ a >= b => a % b <= a - b
OBVIOUS

(***************************************************************************)
(* int(length + footerLength), and when it is what was meant: if it is     *)
(* not negative and goes back to the same uint64 it is that number, which  *)
(* either is the true sum or has wrapped to less than a footer.            *)
(***************************************************************************)
LEMMA Conversion ==
  ASSUME NEW length \in 0 .. UintSize - 1
  PROVE  LET u == Sum64(length)
         IN  /\ u \in Nat /\ ToInt(u) \in Int
             /\ ToInt(u) % UintSize = u /\ ToInt(u) >= 0 <=> ToInt(u) = u
             /\ ToInt(u) = u =>
                  \/ u = length + FooterLength /\ length + FooterLength < IntSize
                  \/ u < FooterLength /\ length + FooterLength >= IntSize
             /\ length + FooterLength < IntSize =>
                  u = length + FooterLength /\ ToInt(u) = u
<1> DEFINE u == Sum64(length)
<1>1. UintSize \in Nat \ {0} /\ IntSize \in Nat \ {0} /\ IntSize <= UintSize
  BY FormatAssumption
<1>2. FooterLength \in Nat /\ length \in Nat /\ length < UintSize
  BY FormatAssumption, <1>1
<1>3. /\ u \in 0 .. UintSize - 1
      /\ length + FooterLength < UintSize => u = length + FooterLength
      /\ length + FooterLength >= UintSize => u < FooterLength
  <2> DEFINE a == length + FooterLength
  <2>1. a \in Nat /\ a - UintSize < FooterLength
    BY <1>1, <1>2
  <2> HIDE DEF a
  <2>2. /\ a % UintSize \in 0 .. UintSize - 1
        /\ a < UintSize => a % UintSize = a
        /\ a >= UintSize => a % UintSize <= a - UintSize
    BY <1>1, <2>1, Remainder
  <2>3. u = a % UintSize
    BY DEF a, Sum64
  <2> QED
    BY <1>1, <1>2, <2>1, <2>2, <2>3 DEF a
<1> HIDE DEF u
<1>4. ToInt(u) \in Int /\ ToInt(u) < IntSize /\ (u < IntSize => ToInt(u) = u)
  <2>1. u + IntSize \in Nat /\ 2 * IntSize \in Nat \ {0}
    BY <1>1, <1>3
  <2>2. /\ (u + IntSize) % (2 * IntSize) \in 0 .. 2 * IntSize - 1
        /\ u + IntSize < 2 * IntSize => (u + IntSize) % (2 * IntSize) = u + IntSize
    BY <2>1, Remainder
  <2> QED
    BY <1>1, <1>3, <2>2 DEF ToInt
<1>5. ToInt(u) >= 0 => ToInt(u) % UintSize = ToInt(u)
  <2> DEFINE v == ToInt(u)
  <2>1. v >= 0 => v \in Nat /\ v < UintSize
    BY <1>1, <1>4
  <2> HIDE DEF v
  <2>2. v >= 0 => v % UintSize = v
    BY <1>1, <2>1, Remainder
  <2> QED
    BY <2>2 DEF v
<1> QED
  BY <1>1, <1>2, <1>3, <1>4, <1>5 DEF u

-----------------------------------------------------------------------------
\* A byte, and how long the ith record is.
Byte == [rec : Nat, at : Nat]
Size(i) == HeaderLength + content[i].len + FooterLength

(***************************************************************************)
(* What is assumed about the records of a file.                            *)
(***************************************************************************)
LEMMA Records ==
  ASSUME content \in Contents
  PROVE  /\ Len(content) \in Nat /\ DOMAIN content = 1 .. Len(content)
         /\ \A i \in 1 .. Len(content) :
              /\ content[i] \in [kind : {"event", "badData", "badLength"},
                                 len  : 0 .. UintSize - 1]
              /\ content[i].len \in 0 .. UintSize - 1 /\ content[i].len \in Nat
<1> DEFINE Rec == [kind : {"event", "badData", "badLength"}, len : 0 .. UintSize - 1]
<1>1. content \in Seq(Rec)
  BY FormatAssumption
<1> HIDE DEF Rec
<1>2. Len(content) \in Nat /\ DOMAIN content = 1 .. Len(content)
  BY <1>1, LenProperties
<1>3. UintSize \in Int
  BY FormatAssumption
<1>4. \A i \in 1 .. Len(content) : content[i] \in Rec
  BY <1>1, ElementOfSeq
<1> QED
  BY <1>2, <1>3, <1>4 DEF Rec

(***************************************************************************)
(* The bytes of a record.                                                  *)
(***************************************************************************)
LEMMA Bytes ==
  ASSUME content \in Contents, NEW i \in 1 .. Len(content)
  PROVE  /\ BytesOf(i) \in Seq(Byte) /\ Len(BytesOf(i)) = Size(i) /\ Size(i) \in Nat
         /\ \A k \in 1 .. Size(i) : BytesOf(i)[k] = [rec |-> i, at |-> k]
<1>1. Size(i) \in Nat /\ i \in Nat
  BY Records, FormatAssumption DEF Size
<1> DEFINE b == [k \in 1 .. Size(i) |-> [rec |-> i, at |-> k]]
<1>2. BytesOf(i) = b
  BY DEF BytesOf, Size
<1>3. b \in [1 .. Size(i) -> Byte]
  BY <1>1 DEF Byte
<1>4. \A k \in 1 .. Size(i) : b[k] = [rec |-> i, at |-> k]
  OBVIOUS
<1> HIDE DEF b
<1>5. b \in Seq(Byte) /\ Len(b) = Size(i)
  BY <1>1, <1>3, SeqOfFunction
<1> QED
  BY <1>1, <1>2, <1>4, <1>5

(***************************************************************************)
(* Records follow each other in the file.                                  *)
(***************************************************************************)
LEMMA OneRecordMore ==
  ASSUME content \in Contents, NEW n \in Nat, n <= Len(content)
  PROVE  /\ FirstRecords(n) \in Seq(Byte)
         /\ FirstRecords(0) = <<>>
         /\ n < Len(content) => FirstRecords(n + 1) = FirstRecords(n) \o BytesOf(n + 1)
<1> DEFINE ss(m) == [i \in 1 .. m |-> BytesOf(i)]
<1>1. Len(content) \in Nat
  BY Records
<1>2. ASSUME NEW m \in Nat, m <= Len(content)
      PROVE  ss(m) \in Seq(Seq(Byte)) /\ Len(ss(m)) = m
  <2>1. \A i \in 1 .. m : BytesOf(i) \in Seq(Byte)
    BY <1>1, <1>2, Bytes
  <2>2. ss(m) \in [1 .. m -> Seq(Byte)]
    BY <2>1
  <2> HIDE DEF ss
  <2> QED
    BY <1>2, <2>2, SeqOfFunction
<1>3. FirstRecords(n) \in Seq(Byte)
  <2>1. ss(n) \in Seq(Seq(Byte))
    BY <1>2
  <2> HIDE DEF ss
  <2>2. FlattenSeq(ss(n)) \in Seq(Byte)
    BY <2>1, FlattenType
  <2> QED
    BY <2>2 DEF FirstRecords, ss
<1>4. FirstRecords(0) = <<>>
  <2>1. ss(0) \in Seq(Seq(Byte)) /\ Len(ss(0)) = 0
    BY <1>1, <1>2
  <2>2. ss(0) = <<>>
    <3> HIDE DEF ss
    <3> QED
      BY <2>1, EmptySeq
  <2>3. <<>> \in Seq(Byte) /\ <<>> \in Seq(Seq(Byte))
    BY EmptySeq
  <2>4. FlattenSeq(<<>>) = <<>>
    BY <2>3, FlattenAppend
  <2> QED
    BY <2>2, <2>4, Zenon DEF FirstRecords
<1>5. ASSUME n < Len(content)
      PROVE  FirstRecords(n + 1) = FirstRecords(n) \o BytesOf(n + 1)
  <2>1. n + 1 \in 1 .. Len(content) /\ n + 1 \in Nat
    BY <1>1, <1>5
  <2>2. BytesOf(n + 1) \in Seq(Byte)
    BY <2>1, Bytes
  <2>3. ss(n) \in Seq(Seq(Byte)) /\ Len(ss(n)) = n /\ ss(n + 1) \in Seq(Seq(Byte))
        /\ Len(ss(n + 1)) = n + 1
    BY <1>1, <1>2, <2>1
  <2>a. \A i \in 1 .. n : ss(n + 1)[i] = ss(n)[i]
    OBVIOUS
  <2>b. ss(n + 1)[n + 1] = BytesOf(n + 1)
    BY <2>1
  <2> HIDE DEF ss
  <2>4. ss(n + 1) = Append(ss(n), BytesOf(n + 1))
    <3> DEFINE t == Append(ss(n), BytesOf(n + 1))
    <3>1. /\ t \in Seq(Seq(Byte)) /\ Len(t) = n + 1 /\ t[n + 1] = BytesOf(n + 1)
          /\ \A i \in 1 .. n : t[i] = ss(n)[i]
      BY <2>2, <2>3, AppendProperties
    <3> HIDE DEF t
    <3>2. \A i \in 1 .. n + 1 : ss(n + 1)[i] = t[i]
      BY <2>a, <2>b, <3>1
    <3> QED
      BY <2>3, <3>1, <3>2, SeqEqual DEF t
  <2>5. FlattenSeq(Append(ss(n), BytesOf(n + 1))) = FlattenSeq(ss(n)) \o BytesOf(n + 1)
    BY <2>2, <2>3, FlattenAppend
  <2> QED
    BY <2>4, <2>5 DEF FirstRecords, ss
<1> QED
  BY <1>3, <1>4, <1>5

(***************************************************************************)
(* Where the records end ...                                               *)
(***************************************************************************)
LEMMA Ends ==
  ASSUME content \in Contents
  PROVE  /\ EndOf(0) = 0 /\ EndOf(Len(content)) = Len(File)
         /\ File \in Seq(Byte) /\ Len(File) \in Nat
         /\ \A i \in 0 .. Len(content) : EndOf(i) \in Nat
         /\ \A i \in 1 .. Len(content) :
              EndOf(i - 1) \in Nat /\ EndOf(i) = EndOf(i - 1) + Size(i)
<1>1. Len(content) \in Nat
  BY Records
<1>2. \A n \in 0 .. Len(content) : FirstRecords(n) \in Seq(Byte) /\ EndOf(n) \in Nat
  <2>1. \A n \in 0 .. Len(content) : FirstRecords(n) \in Seq(Byte)
    BY <1>1, OneRecordMore
  <2> QED
    BY <2>1, LenProperties DEF EndOf
<1>3. EndOf(0) = 0
  BY <1>1, OneRecordMore, EmptySeq DEF EndOf
<1>4. ASSUME NEW i \in 1 .. Len(content)
      PROVE  EndOf(i - 1) \in Nat /\ EndOf(i) = EndOf(i - 1) + Size(i)
  <2>1. i - 1 \in Nat /\ i - 1 < Len(content) /\ i - 1 <= Len(content) /\ (i - 1) + 1 = i
    BY <1>1
  <2>2. FirstRecords(i) = FirstRecords(i - 1) \o BytesOf(i)
    <3> DEFINE n == i - 1
    <3>1. FirstRecords(n + 1) = FirstRecords(n) \o BytesOf(n + 1)
      <4> HIDE DEF n
      <4> QED
        BY <2>1, OneRecordMore DEF n
    <3> QED
      BY <2>1, <3>1
  <2>3. FirstRecords(i - 1) \in Seq(Byte) /\ BytesOf(i) \in Seq(Byte) /\ Len(BytesOf(i)) = Size(i)
    BY <1>1, <1>2, <2>1, Bytes
  <2>4. Len(FirstRecords(i - 1) \o BytesOf(i)) = Len(FirstRecords(i - 1)) + Len(BytesOf(i))
    BY <2>3, ConcatProperties
  <2> QED
    BY <1>1, <1>2, <2>1, <2>2, <2>3, <2>4 DEF EndOf
<1> QED
  BY <1>1, <1>2, <1>3, <1>4 DEF EndOf, File

(***************************************************************************)
(* ... and which bytes they are.                                           *)
(***************************************************************************)
LEMMA ByteAt ==
  ASSUME content \in Contents, NEW i \in 1 .. Len(content)
  PROVE  /\ EndOf(i) <= Len(File)
         /\ \A k \in 1 .. Size(i) : File[EndOf(i - 1) + k] = [rec |-> i, at |-> k]
<1> DEFINE Good(n) == \A k \in 1 .. Size(i) :
                        FirstRecords(n)[EndOf(i - 1) + k] = [rec |-> i, at |-> k]
           G == {n \in Nat : i <= n /\ n <= Len(content) => EndOf(i) <= EndOf(n) /\ Good(n)}
<1>1. Len(content) \in Nat /\ i \in Nat /\ i > 0
  BY Records
<1>2. /\ BytesOf(i) \in Seq(Byte) /\ Len(BytesOf(i)) = Size(i) /\ Size(i) \in Nat
      /\ \A k \in 1 .. Size(i) : BytesOf(i)[k] = [rec |-> i, at |-> k]
  BY Bytes
<1>3. 0 \in G
  BY <1>1
<1>4. ASSUME NEW n \in Nat, n \in G
      PROVE  n + 1 \in G
  <2> SUFFICES ASSUME i <= n + 1, n + 1 <= Len(content)
               PROVE  EndOf(i) <= EndOf(n + 1) /\ Good(n + 1)
    OBVIOUS
  <2> DEFINE s == FirstRecords(n)
             t == BytesOf(n + 1)
             u == s \o t
  <2>1. n + 1 \in 1 .. Len(content) /\ n < Len(content) /\ n <= Len(content)
    BY <1>1
  <2>2. s \in Seq(Byte) /\ FirstRecords(n + 1) = u
    BY <2>1, OneRecordMore
  <2>3. t \in Seq(Byte)
    BY <2>1, Bytes
  <2>4. /\ Len(u) = Len(s) + Len(t) /\ Len(s) \in Nat /\ Len(t) \in Nat
        /\ \A k \in 1 .. Len(s) : u[k] = s[k]
        /\ \A k \in 1 .. Len(t) : u[Len(s) + k] = t[k]
    <3> HIDE DEF s, t
    <3>1. Len(s) \in Nat /\ Len(t) \in Nat
      BY <2>2, <2>3, LenProperties
    <3>2. /\ Len(u) = Len(s) + Len(t)
          /\ \A k \in 1 .. Len(s) + Len(t) : u[k] = IF k <= Len(s) THEN s[k] ELSE t[k - Len(s)]
      BY <2>2, <2>3, ConcatProperties
    <3> HIDE DEF u
    <3>3. ASSUME NEW k \in 1 .. Len(t)
          PROVE  u[Len(s) + k] = t[k]
      <4>1. Len(s) + k \in 1 .. Len(s) + Len(t) /\ ~(Len(s) + k <= Len(s)) /\ (Len(s) + k) - Len(s) = k
        BY <3>1
      <4> QED
        BY <3>2, <4>1
    <3> QED
      BY <3>1, <3>2, <3>3
  <2>5. EndOf(n) = Len(s) /\ EndOf(n + 1) = Len(u)
    BY <2>2 DEF EndOf
  <2>6. EndOf(i - 1) \in Nat /\ EndOf(i) = EndOf(i - 1) + Size(i)
    BY Ends
  <2>7. CASE i <= n
    <3>1. EndOf(i) <= EndOf(n) /\ Good(n)
      BY <1>4, <2>1, <2>7
    <3> HIDE DEF s, t, u
    <3>2. \A k \in 1 .. Size(i) : EndOf(i - 1) + k \in 1 .. Len(s)
      BY <1>2, <2>4, <2>5, <2>6, <3>1
    <3>3. EndOf(i) <= EndOf(n + 1)
      BY <1>2, <2>4, <2>5, <2>6, <3>1
    <3>4. \A k \in 1 .. Size(i) : u[EndOf(i - 1) + k] = s[EndOf(i - 1) + k]
      BY <2>4, <3>2
    <3>5. \A k \in 1 .. Size(i) : u[EndOf(i - 1) + k] = [rec |-> i, at |-> k]
      BY <3>1, <3>4, Zenon DEF s
    <3>6. Good(n + 1)
      BY <2>2, <3>5, Zenon
    <3> QED
      BY <3>3, <3>6, Zenon
  <2>8. CASE i = n + 1
    <3>1. i - 1 = n /\ t = BytesOf(i)
      BY <1>1, <2>8
    <3> HIDE DEF s, t, u
    <3>2. \A k \in 1 .. Size(i) : u[EndOf(i - 1) + k] = [rec |-> i, at |-> k]
      BY <1>2, <2>4, <2>5, <3>1
    <3>3. Good(n + 1)
      BY <2>2, <3>2, Zenon
    <3>4. EndOf(i) <= EndOf(n + 1)
      BY <1>2, <2>6, <2>8
    <3> QED
      BY <3>3, <3>4, Zenon
  <2> QED
    BY <1>1, <2>7, <2>8
<1>5. Len(content) \in G
  <2> HIDE DEF G
  <2>1. \A n \in Nat : n \in G => n + 1 \in G
    BY <1>4
  <2> QED
    BY <1>1, <1>3, <2>1, InductionOnNat
<1> QED
  BY <1>1, <1>5, Ends DEF File

-----------------------------------------------------------------------------
\* The types of all variables.
EventResult == [rec : Nat, status : {"none", "event", "error", "fatal"}]
Types ==
  /\ content \in Contents
  /\ written \in 0 .. Len(File) /\ pos \in 0 .. written
  /\ header \in Seq(Byte) /\ body \in Seq(Byte) /\ bodyLen \in Nat
  /\ pc \in {"wait", "read", "result", "sleep", "dead", "panicked"}
  /\ result \in EventResult /\ got \in Seq(EventResult)
  /\ (pc = "result") = (result.status # "none")

(***************************************************************************)
(* The decoder is at the ith record: it has read the records before and    *)
(* the bytes of this one that it holds, the first ones.                    *)
(***************************************************************************)
At(i) ==
  /\ pos = EndOf(i - 1) + Len(header) + Len(body)
  /\ header # <<>> => i <= Len(content)
  /\ Len(header) <= HeaderLength /\ Len(body) <= bodyLen
  /\ \A k \in 1 .. Len(header) : header[k] = [rec |-> i, at |-> k]
  /\ \A k \in 1 .. Len(body) : body[k] = [rec |-> i, at |-> HeaderLength + k]
  /\ bodyLen > 0 => /\ Len(header) = HeaderLength
                    /\ bodyLen <= content[i].len + FooterLength

\* Which one that is: a record that is whole leaves the decoder at the next.
Current == IF pc = "result" /\ result.status # "fatal" THEN Len(got) + 2 ELSE Len(got) + 1
Framing == \E i \in 1 .. Len(content) + 1 : At(i) /\ (pc # "dead" => i = Current)

\* With the whole header read, there is room for what its length asks for;
\* with the whole record read, the decoder is empty.
Going == pc \in {"wait", "read", "sleep"}
Room ==
  /\ (Going /\ Len(header) = HeaderLength) =>
       LET r == content[Current]
           u == Sum64(r.len)
       IN  r.kind # "badLength" /\ ToInt(u) = u /\ bodyLen = u
  /\ (pc = "result" /\ result.status # "fatal") => header = <<>>

\* The results are about one record each, in order, but for a read error.
Results ==
  /\ \A k \in 1 .. Len(got) : got[k].rec = k \/ (got[k].rec = 0 /\ pc = "dead")
  /\ pc = "result" =>
       result.rec = Len(got) + 1 \/ (result.rec = 0 /\ result.status = "fatal")
  /\ pc # "result" => result.rec = 0

(***************************************************************************)
(* ReadFull gives the next bytes of the file, fewer than are wanted only   *)
(* if there are no more.                                                   *)
(***************************************************************************)
LEMMA ReadFull ==
  ASSUME Types, NEW wanted \in Nat
  PROVE  LET n == Available(wanted)
         IN  /\ n \in Nat /\ n <= wanted /\ pos + n <= written
             /\ n < wanted => pos + n = written
             /\ NextBytes(n) \in Seq(Byte) /\ Len(NextBytes(n)) = n
             /\ \A k \in 1 .. n : NextBytes(n)[k] = File[pos + k]
<1> DEFINE n == Available(wanted)
<1>1. File \in Seq(Byte) /\ Len(File) \in Nat
  BY Ends DEF Types
<1>2. pos \in Nat /\ written \in Nat /\ pos <= written /\ written <= Len(File)
  BY <1>1 DEF Types
<1>3. n \in Nat /\ n <= wanted /\ pos + n <= written /\ (n < wanted => pos + n = written)
  BY <1>2 DEF Available
<1> HIDE DEF n
<1>4. pos + 1 \in 1 .. Len(File) + 1 /\ pos + n \in (pos + 1) - 1 .. Len(File)
  BY <1>1, <1>2, <1>3
<1>5. /\ SubSeq(File, pos + 1, pos + n) \in Seq(Byte)
      /\ Len(SubSeq(File, pos + 1, pos + n)) = (pos + n) - (pos + 1) + 1
      /\ \A k \in 1 .. (pos + n) - (pos + 1) + 1 :
           SubSeq(File, pos + 1, pos + n)[k] = File[(pos + 1) + k - 1]
  BY <1>1, <1>4, SubSeqProperties
<1>6. (pos + n) - (pos + 1) + 1 = n /\ \A k \in 1 .. n : (pos + 1) + k - 1 = pos + k
  BY <1>2, <1>3
<1> QED
  BY <1>3, <1>5, <1>6 DEF NextBytes, n

(***************************************************************************)
(* What a goroutine that reads has in hand.                                *)
(***************************************************************************)
LEMMA Reads ==
  ASSUME Types, Framing, pc = "read"
  PROVE  LET i == Len(got) + 1
         IN  /\ i \in 1 .. Len(content) + 1 /\ Current = i /\ At(i)
             /\ i \in Nat /\ Len(header) \in Nat /\ Len(body) \in Nat
             /\ pos < Len(File) => i \in 1 .. Len(content)
             /\ i \in 1 .. Len(content) =>
                  \A k \in 1 .. Size(i) : File[EndOf(i - 1) + k] = [rec |-> i, at |-> k]
<1> DEFINE i == Len(got) + 1
<1>1. i \in 1 .. Len(content) + 1 /\ Current = i /\ At(i)
  BY DEF Framing, Current
<1>2. Len(content) \in Nat /\ EndOf(Len(content)) = Len(File) /\ Len(File) \in Nat
  BY Records, Ends DEF Types
<1>3. Len(header) \in Nat /\ Len(body) \in Nat /\ pos \in Nat
  BY <1>2, LenProperties DEF Types
<1>4. pos < Len(File) => i \in 1 .. Len(content)
  <2> SUFFICES ASSUME i = Len(content) + 1
               PROVE  pos >= Len(File)
    BY <1>1, <1>2, <1>3
  <2>1. i - 1 = Len(content)
    BY <1>2
  <2>2. pos = EndOf(i - 1) + Len(header) + Len(body)
    BY <1>1 DEF At
  <2> HIDE DEF i
  <2> QED
    BY <1>2, <1>3, <2>1, <2>2
<1> QED
  BY <1>1, <1>2, <1>3, <1>4, ByteAt DEF Types

(***************************************************************************)
(* The header, with the bytes that are added to it, is the beginning of    *)
(* the record's, and it tells which record it is and whether it is valid.  *)
(***************************************************************************)
LEMMA HeaderRead ==
  ASSUME Types, Framing, pc = "read", Len(header) < HeaderLength
  PROVE  LET i == Len(got) + 1
             n == Available(HeaderLength - Len(header))
             h == header \o NextBytes(n)
         IN  /\ i \in 1 .. Len(content) + 1 /\ At(i)
             /\ body = <<>> /\ bodyLen = 0
             /\ pos + n \in 0 .. written /\ pos + n = EndOf(i - 1) + Len(h)
             /\ h \in Seq(Byte) /\ Len(h) \in 0 .. HeaderLength
             /\ h # <<>> => i \in 1 .. Len(content)
             /\ \A k \in 1 .. Len(h) : h[k] = [rec |-> i, at |-> k]
             /\ Len(h) < HeaderLength => pos + n = written
             /\ Len(h) = HeaderLength =>
                  /\ h[1].rec = i /\ LengthIn(h) = content[i].len
                  /\ ValidHeader(h) <=> content[i].kind # "badLength"
<1> DEFINE i == Len(got) + 1
           n == Available(HeaderLength - Len(header))
           x == NextBytes(n)
           h == header \o x
<1>1. /\ i \in 1 .. Len(content) + 1 /\ At(i)
      /\ i \in Nat /\ Len(header) \in Nat /\ Len(body) \in Nat
      /\ pos < Len(File) => i \in 1 .. Len(content)
      /\ i \in 1 .. Len(content) =>
           \A k \in 1 .. Size(i) : File[EndOf(i - 1) + k] = [rec |-> i, at |-> k]
  BY Reads
<1>2. HeaderLength \in Nat /\ HeaderLength > 0 /\ FooterLength \in Nat /\ bodyLen \in Nat
  BY FormatAssumption DEF Types
<1>3. bodyLen = 0 /\ Len(body) = 0 /\ body = <<>>
  <2>1. bodyLen = 0 /\ Len(body) = 0
    BY <1>1, <1>2 DEF At
  <2> QED
    BY <2>1, EmptySeq DEF Types
<1>4. /\ n \in Nat /\ n <= HeaderLength - Len(header) /\ pos + n <= written
      /\ n < HeaderLength - Len(header) => pos + n = written
      /\ x \in Seq(Byte) /\ Len(x) = n
      /\ \A k \in 1 .. n : x[k] = File[pos + k]
  <2> DEFINE wanted == HeaderLength - Len(header)
  <2>1. wanted \in Nat
    BY <1>1, <1>2
  <2> HIDE DEF wanted
  <2>2. LET m == Available(wanted)
        IN  /\ m \in Nat /\ m <= wanted /\ pos + m <= written
            /\ m < wanted => pos + m = written
            /\ NextBytes(m) \in Seq(Byte) /\ Len(NextBytes(m)) = m
            /\ \A k \in 1 .. m : NextBytes(m)[k] = File[pos + k]
    BY <2>1, ReadFull
  <2> QED
    BY <2>2 DEF wanted
<1> HIDE DEF n, x
<1>5. /\ h \in Seq(Byte) /\ Len(h) = Len(header) + n
      /\ \A k \in 1 .. Len(header) + n :
           h[k] = IF k <= Len(header) THEN header[k] ELSE x[k - Len(header)]
  <2>1. header \in Seq(Byte)
    BY DEF Types
  <2> QED
    BY <1>4, <2>1, ConcatProperties
<1> HIDE DEF h
<1>6. /\ written \in Nat /\ pos \in Nat /\ Len(File) \in Nat /\ written <= Len(File)
      /\ Len(content) \in Nat
  BY Ends, Records DEF Types
<1>7. pos = EndOf(i - 1) + Len(header) /\ EndOf(i - 1) \in Nat
  <2>1. pos = EndOf(i - 1) + Len(header) + Len(body)
    BY <1>1 DEF At
  <2>2. i - 1 \in 0 .. Len(content)
    BY <1>1, <1>6
  <2>3. EndOf(i - 1) \in Nat
    BY <2>2, Ends DEF Types
  <2> HIDE DEF i
  <2> QED
    BY <1>1, <1>3, <2>1, <2>3
<1>8. h # <<>> => i \in 1 .. Len(content)
  <2>1. CASE n = 0
    <3>1. h # <<>> => header # <<>>
      <4>1. header = <<>> => Len(h) = 0
        BY <1>5, <2>1, EmptySeq
      <4> QED
        BY <1>5, <4>1, EmptySeq
    <3> QED
      BY <1>1, <1>6, <3>1 DEF At
  <2>2. CASE n > 0
    BY <1>1, <1>4, <1>6, <2>2
  <2> QED
    BY <1>4, <2>1, <2>2
<1>9. ASSUME NEW k \in 1 .. Len(h)
      PROVE  h[k] = [rec |-> i, at |-> k]
  <2>1. i \in 1 .. Len(content)
    <3>1. h # <<>>
      BY EmptySeq
    <3> QED
      BY <1>8, <3>1
  <2>2. CASE k <= Len(header)
    <3>1. h[k] = header[k] /\ k \in 1 .. Len(header)
      BY <1>1, <1>4, <1>5, <2>2
    <3> QED
      BY <1>1, <3>1 DEF At
  <2>3. CASE ~(k <= Len(header))
    <3> DEFINE j == k - Len(header)
    <3>1. j \in 1 .. n /\ h[k] = x[j] /\ pos + j = EndOf(i - 1) + k
      <4> HIDE DEF i
      <4> QED
        BY <1>1, <1>4, <1>5, <1>7, <2>3, SMTT(30)
    <3>2. k \in 1 .. Size(i)
      BY <1>1, <1>2, <1>4, <1>5, <2>1, Records DEF Types, Size
    <3> HIDE DEF j, i
    <3> QED
      BY <1>1, <1>4, <2>1, <3>1, <3>2
  <2> QED
    BY <2>2, <2>3
<1>10. ASSUME Len(h) = HeaderLength
       PROVE  /\ h[1].rec = i /\ LengthIn(h) = content[i].len
              /\ ValidHeader(h) <=> content[i].kind # "badLength"
  <2>1. h[1] = [rec |-> i, at |-> 1] /\ h # <<>>
    BY <1>2, <1>9, <1>10, EmptySeq
  <2>2. i \in 1 .. Len(content)
    BY <1>8, <2>1
  <2>3. ASSUME NEW j \in 1 .. Len(content)
        PROVE  /\ HeaderOf(j) \in Seq(Byte) /\ Len(HeaderOf(j)) = HeaderLength
               /\ \A k \in 1 .. HeaderLength : HeaderOf(j)[k] = [rec |-> j, at |-> k]
    <3>1. /\ BytesOf(j) \in Seq(Byte) /\ Len(BytesOf(j)) = Size(j) /\ Size(j) \in Nat
          /\ \A k \in 1 .. Size(j) : BytesOf(j)[k] = [rec |-> j, at |-> k]
      BY Bytes DEF Types
    <3>2. HeaderLength <= Size(j)
      BY <1>2, Records DEF Types, Size
    <3>3. \A k \in 1 .. HeaderLength : k \in 1 .. Size(j) /\ BytesOf(j)[k] \in Byte
      <4>1. \A k \in 1 .. Size(j) : BytesOf(j)[k] \in Byte
        BY <3>1, ElementOfSeq
      <4> QED
        BY <1>2, <3>1, <3>2, <4>1
    <3>4. /\ HeaderOf(j) \in Seq(Byte)
          /\ Len(HeaderOf(j)) = IF 1 <= HeaderLength THEN HeaderLength - 1 + 1 ELSE 0
          /\ \A k \in 1 .. HeaderLength - 1 + 1 : HeaderOf(j)[k] = BytesOf(j)[1 + k - 1]
      <4>1. HeaderLength \in Int /\ 1 \in Int
        BY <1>2
      <4>2. HeaderOf(j) = SubSeq(BytesOf(j), 1, HeaderLength)
        BY DEF HeaderOf
      <4> QED
        BY <3>3, <4>1, <4>2, SubSeqProperties
    <3>5. HeaderLength - 1 + 1 = HeaderLength /\ \A k \in 1 .. HeaderLength : 1 + k - 1 = k
      BY <1>2
    <3> QED
      BY <1>2, <3>1, <3>3, <3>4, <3>5
  <2>4. HeaderOf(i) = h
    BY <1>5, <1>9, <1>10, <2>2, <2>3, SeqEqual
  <2>5. ASSUME NEW j \in 1 .. Len(content), h = HeaderOf(j)
        PROVE  j = i
    <3>1. HeaderOf(j)[1] = [rec |-> j, at |-> 1]
      BY <1>2, <2>3
    <3> QED
      BY <2>1, <2>5, <3>1
  <2> HIDE DEF i
  <2> QED
    BY <2>1, <2>2, <2>4, <2>5 DEF ValidHeader, LengthIn
<1>11. pos + n = EndOf(i - 1) + Len(h)
  <2> HIDE DEF i
  <2> QED
    BY <1>1, <1>4, <1>5, <1>7
<1>12. /\ pos + n \in 0 .. written /\ Len(h) \in 0 .. HeaderLength
       /\ Len(h) < HeaderLength => pos + n = written
  BY <1>1, <1>2, <1>4, <1>5, <1>6
<1> QED
  BY <1>1, <1>3, <1>5, <1>8, <1>9, <1>10, <1>11, <1>12, Zenon DEF h, x, n

(***************************************************************************)
(* So is the body that of the record; it is as long as the record says,    *)
(* unless the length has wrapped and there is no room for the footer.      *)
(***************************************************************************)
LEMMA BodyRead ==
  ASSUME Types, Framing, Room, pc = "read", Len(header) = HeaderLength
  PROVE  LET i == Len(got) + 1
             n == Available(bodyLen - Len(body))
             b == body \o NextBytes(n)
         IN  /\ i \in 1 .. Len(content) /\ At(i) /\ header[1].rec = i
             /\ pos + n \in 0 .. written /\ pos + n = EndOf(i - 1) + HeaderLength + Len(b)
             /\ b \in Seq(Byte) /\ Len(b) \in 0 .. bodyLen
             /\ \A k \in 1 .. Len(b) : b[k] = [rec |-> i, at |-> HeaderLength + k]
             /\ Len(b) < bodyLen => pos + n = written
             /\ content[i].kind # "badLength" /\ RoomFor(i) = bodyLen
             /\ bodyLen >= FooterLength =>
                  /\ bodyLen = content[i].len + FooterLength
                  /\ content[i].len + FooterLength < IntSize
<1> DEFINE i == Len(got) + 1
           n == Available(bodyLen - Len(body))
           x == NextBytes(n)
           b == body \o x
<1>1. /\ i \in 1 .. Len(content) + 1 /\ Current = i /\ At(i)
      /\ i \in Nat /\ Len(header) \in Nat /\ Len(body) \in Nat
      /\ i \in 1 .. Len(content) =>
           \A k \in 1 .. Size(i) : File[EndOf(i - 1) + k] = [rec |-> i, at |-> k]
  BY Reads
<1>2. HeaderLength \in Nat /\ HeaderLength > 0 /\ FooterLength \in Nat /\ bodyLen \in Nat
  BY FormatAssumption DEF Types
<1>3. /\ written \in Nat /\ pos \in Nat /\ Len(File) \in Nat /\ written <= Len(File)
      /\ Len(content) \in Nat
  BY Ends, Records DEF Types
<1>4. i \in 1 .. Len(content) /\ header[1].rec = i
  <2>1. header # <<>>
    BY <1>2, EmptySeq
  <2>2. header[1] = [rec |-> i, at |-> 1]
    BY <1>1, <1>2 DEF At
  <2> QED
    BY <1>1, <1>3, <2>1, <2>2 DEF At
<1>5. /\ content[i].len \in 0 .. UintSize - 1 /\ content[i].len \in Nat
      /\ content[i].kind # "badLength"
      /\ ToInt(Sum64(content[i].len)) = Sum64(content[i].len)
      /\ bodyLen = Sum64(content[i].len)
  <2>1. Going
    BY DEF Going
  <2> HIDE DEF i
  <2> QED
    BY <1>1, <1>4, <2>1, Records DEF Types, Room
<1>6. /\ bodyLen >= FooterLength =>
          /\ bodyLen = content[i].len + FooterLength
          /\ content[i].len + FooterLength < IntSize
      /\ bodyLen <= content[i].len + FooterLength
  <2> DEFINE l == content[i].len
             u == Sum64(l)
  <2>1. /\ l \in 0 .. UintSize - 1 /\ l \in Nat /\ ToInt(u) = u /\ bodyLen = u
    BY <1>5
  <2> HIDE DEF l
  <2>2. \/ u = l + FooterLength /\ l + FooterLength < IntSize
        \/ u < FooterLength /\ l + FooterLength >= IntSize
    BY <2>1, Conversion
  <2> HIDE DEF u
  <2> QED
    BY <1>2, <2>1, <2>2 DEF l
<1>7. RoomFor(i) = bodyLen
  BY <1>5 DEF RoomFor
<1>8. /\ n \in Nat /\ n <= bodyLen - Len(body) /\ pos + n <= written
      /\ n < bodyLen - Len(body) => pos + n = written
      /\ x \in Seq(Byte) /\ Len(x) = n
      /\ \A k \in 1 .. n : x[k] = File[pos + k]
  <2> DEFINE wanted == bodyLen - Len(body)
  <2>1. wanted \in Nat
    BY <1>1, <1>2 DEF At
  <2> HIDE DEF wanted
  <2>2. LET m == Available(wanted)
        IN  /\ m \in Nat /\ m <= wanted /\ pos + m <= written
            /\ m < wanted => pos + m = written
            /\ NextBytes(m) \in Seq(Byte) /\ Len(NextBytes(m)) = m
            /\ \A k \in 1 .. m : NextBytes(m)[k] = File[pos + k]
    BY <2>1, ReadFull
  <2> QED
    BY <2>2 DEF wanted
<1> HIDE DEF n, x
<1>9. /\ b \in Seq(Byte) /\ Len(b) = Len(body) + n
      /\ \A k \in 1 .. Len(body) + n :
           b[k] = IF k <= Len(body) THEN body[k] ELSE x[k - Len(body)]
  <2>1. body \in Seq(Byte)
    BY DEF Types
  <2> QED
    BY <1>8, <2>1, ConcatProperties
<1> HIDE DEF b
<1>10. pos = EndOf(i - 1) + HeaderLength + Len(body) /\ EndOf(i - 1) \in Nat
  <2>1. EndOf(i - 1) \in Nat
    BY <1>4, Ends DEF Types
  <2> QED
    BY <1>1, <2>1 DEF At
<1>a. /\ Len(body) \in Nat /\ n \in Nat /\ Len(body) + n <= bodyLen
      /\ Len(b) = Len(body) + n /\ pos + n <= written
      /\ Len(b) < bodyLen => n < bodyLen - Len(body)
  BY <1>1, <1>2, <1>8, <1>9
<1>11. ASSUME NEW k \in 1 .. Len(b)
       PROVE  b[k] = [rec |-> i, at |-> HeaderLength + k]
  <2>1. CASE k <= Len(body)
    <3>1. b[k] = body[k] /\ k \in 1 .. Len(body)
      BY <1>1, <1>8, <1>9, <2>1
    <3> QED
      BY <1>1, <3>1 DEF At
  <2>2. CASE ~(k <= Len(body))
    <3> DEFINE j == k - Len(body)
               m == HeaderLength + k
    <3>1. j \in 1 .. n /\ b[k] = x[j] /\ pos + j = EndOf(i - 1) + m
      <4>1. k \in Nat /\ k > Len(body) /\ k <= Len(body) + n
        BY <1>a, <2>2
      <4>2. j \in 1 .. n /\ b[k] = x[j]
        BY <1>9, <1>a, <2>2, <4>1
      <4> HIDE DEF i
      <4>3. pos + j = EndOf(i - 1) + m
        BY <1>2, <1>10, <1>a, <4>1
      <4> QED
        BY <4>2, <4>3
    <3>2. m \in 1 .. Size(i)
      <4> DEFINE l == content[i].len
      <4>1. l \in Nat /\ bodyLen <= l + FooterLength
        BY <1>5, <1>6
      <4> HIDE DEF l
      <4>2. HeaderLength + k \in 1 .. HeaderLength + l + FooterLength
        BY <1>2, <1>a, <4>1
      <4> QED
        BY <4>2 DEF Size, l
    <3> HIDE DEF j, i, m
    <3>3. b[k] = [rec |-> i, at |-> m]
      BY <1>1, <1>4, <1>8, <3>1, <3>2
    <3> QED
      BY <3>3 DEF m
  <2> QED
    BY <2>1, <2>2
<1>12. /\ pos + n \in 0 .. written /\ pos + n = EndOf(i - 1) + HeaderLength + Len(b)
       /\ Len(b) \in 0 .. bodyLen
       /\ Len(b) < bodyLen => pos + n = written
  <2> DEFINE e == EndOf(i - 1)
  <2>1. pos = e + HeaderLength + Len(body) /\ e \in Nat
    BY <1>10
  <2> HIDE DEF e
  <2>2. pos + n = e + HeaderLength + Len(b)
    BY <1>2, <1>a, <2>1
  <2>3. pos + n \in 0 .. written /\ Len(b) \in 0 .. bodyLen
    BY <1>2, <1>3, <1>a
  <2>4. Len(b) < bodyLen => pos + n = written
    BY <1>8, <1>a, Zenon
  <2> QED
    BY <2>2, <2>3, <2>4 DEF e
<1> QED
  BY <1>1, <1>4, <1>5, <1>6, <1>7, <1>9, <1>11, <1>12, Zenon DEF b, x, n

-----------------------------------------------------------------------------
\* The inductive invariant.
IInv == Types /\ Framing /\ Room /\ Results

(***************************************************************************)
(* What the file will hold does not change.                                *)
(***************************************************************************)
LEMMA SameFile ==
  ASSUME [Next]_vars
  PROVE  /\ content' = content /\ File' = File
         /\ \A i : EndOf(i)' = EndOf(i) /\ RoomFor(i)' = RoomFor(i)
<1>1. content' = content
  BY Zenon DEF Next, Write, Goroutine, Owner, ReadHeader, ReadBody, ReadError, TakeAsleep,
     TakeResult, WakeUp, vars
<1> QED
  BY <1>1 DEF File, EndOf, FirstRecords, BytesOf, RoomFor, Sum64, ToInt

(***************************************************************************)
(* The invariant holds at first.                                           *)
(***************************************************************************)
LEMMA IInvInit == Init => IInv
<1> SUFFICES ASSUME Init
             PROVE  IInv
  OBVIOUS
<1>1. content \in Contents
  BY DEF Init
<1>2. Len(content) \in Nat /\ Len(File) \in Nat /\ EndOf(0) = 0
  BY <1>1, Records, Ends
<1>3. HeaderLength \in Nat /\ HeaderLength > 0
  BY FormatAssumption
<1>4. /\ header = <<>> /\ body = <<>> /\ bodyLen = 0 /\ pos = 0 /\ written = 0 /\ pc = "wait"
      /\ got = <<>> /\ result = [rec |-> 0, status |-> "none"]
  BY DEF Init
<1>5. Len(<<>>) = 0 /\ \A S : <<>> \in Seq(S)
  BY EmptySeq
<1>6. At(1) /\ Current = 1
  BY <1>2, <1>3, <1>4, <1>5 DEF At, Current
<1>7. Framing
  BY <1>2, <1>6 DEF Framing
<1>8. Types
  BY <1>1, <1>2, <1>4, <1>5 DEF Types, EventResult
<1>9. Room /\ Results
  BY <1>3, <1>4, <1>5 DEF Room, Results
<1> QED
  BY <1>7, <1>8, <1>9 DEF IInv

(***************************************************************************)
(* Reading the header keeps it: a header that is whole leaves room for the *)
(* body, or ends the reader.                                               *)
(***************************************************************************)
LEMMA HeaderStep ==
  ASSUME IInv, ReadHeader
  PROVE  IInv'
<1>i. PICK i : i = Len(got) + 1
  OBVIOUS
<1> DEFINE n == Available(HeaderLength - Len(header))
           h == header \o NextBytes(n)
           u == Sum64(LengthIn(h))
<1>0. Types /\ Framing /\ Results /\ pc = "read" /\ Len(header) < HeaderLength
  BY DEF IInv, ReadHeader
<1>1. /\ i \in 1 .. Len(content) + 1 /\ At(i)
      /\ body = <<>> /\ bodyLen = 0
      /\ pos + n \in 0 .. written /\ pos + n = EndOf(i - 1) + Len(h)
      /\ h \in Seq(Byte) /\ Len(h) \in 0 .. HeaderLength
      /\ h # <<>> => i \in 1 .. Len(content)
      /\ \A k \in 1 .. Len(h) : h[k] = [rec |-> i, at |-> k]
      /\ Len(h) < HeaderLength => pos + n = written
      /\ Len(h) = HeaderLength =>
           /\ h[1].rec = i /\ LengthIn(h) = content[i].len
           /\ ValidHeader(h) <=> content[i].kind # "badLength"
  BY <1>0, <1>i, HeaderRead
<1>2. /\ content' = content /\ File' = File
      /\ \A j : EndOf(j)' = EndOf(j)
  <2>1. [Next]_vars
    BY Zenon DEF Next, Goroutine
  <2> QED
    BY <2>1, SameFile
<1>3. /\ header' = h /\ pos' = pos + n /\ body' = body /\ got' = got /\ written' = written
      /\ \/ Len(h) < HeaderLength /\ pc' = "sleep" /\ bodyLen' = bodyLen /\ result' = result
         \/ /\ Len(h) = HeaderLength /\ pc' = "result" /\ bodyLen' = bodyLen
            /\ result' = [rec |-> h[1].rec, status |-> "fatal"]
         \/ /\ Len(h) = HeaderLength /\ pc' = "panicked" /\ bodyLen' = bodyLen
            /\ result' = result
         \/ /\ Len(h) = HeaderLength /\ ValidHeader(h) /\ pc' = pc /\ result' = result
            /\ ToInt(u) % UintSize = u /\ ToInt(u) >= 0 /\ bodyLen' = ToInt(u)
  BY DEF ReadHeader, Send
<1> HIDE DEF n, h
<1>4. HeaderLength \in Nat /\ HeaderLength > 0 /\ FooterLength \in Nat /\ Len(content) \in Nat
      /\ i \in Nat
  BY <1>0, <1>1, FormatAssumption, Records DEF Types
<1>5. Len(h) = HeaderLength => i \in 1 .. Len(content)
  <2>1. Len(h) = HeaderLength => h # <<>>
    BY <1>4, EmptySeq
  <2> QED
    BY <1>1, <2>1
<1>6. ASSUME Len(h) = HeaderLength, ToInt(u) % UintSize = u, ToInt(u) >= 0
      PROVE  /\ ToInt(u) = u /\ u \in Nat /\ u <= content[i].len + FooterLength
             /\ u = Sum64(content[i].len)
  <2> DEFINE l == content[i].len
  <2>1. l \in 0 .. UintSize - 1 /\ l \in Nat /\ u = Sum64(l)
    BY <1>0, <1>1, <1>5, <1>6, Records DEF Types
  <2> HIDE DEF l
  <2> DEFINE v == Sum64(l)
  <2>2. /\ v \in Nat
        /\ ToInt(v) % UintSize = v /\ ToInt(v) >= 0 <=> ToInt(v) = v
        /\ ToInt(v) = v =>
             \/ v = l + FooterLength /\ l + FooterLength < IntSize
             \/ v < FooterLength /\ l + FooterLength >= IntSize
    BY <2>1, Conversion
  <2>3. u = v
    BY <2>1
  <2> HIDE DEF u, v
  <2>4. ToInt(v) = v
    BY <1>6, <2>2, <2>3
  <2>5. v <= l + FooterLength
    BY <1>4, <2>1, <2>2, <2>4
  <2> QED
    BY <2>2, <2>3, <2>4, <2>5 DEF l, v
<1>7. bodyLen' \in Nat /\ (bodyLen' > 0 => Len(h) = HeaderLength /\ bodyLen' <= content[i].len + FooterLength)
  BY <1>1, <1>3, <1>6
<1>8. At(i)'
  <2>1. Len(body) = 0
    BY <1>1, EmptySeq
  <2>2. pos' = EndOf(i - 1) + Len(h) + Len(body)
    <3> DEFINE e == EndOf(i - 1)
    <3>1. e \in Nat /\ pos + n = e + Len(h) /\ Len(h) \in Nat
      BY <1>0, <1>1, <1>4, Ends DEF Types
    <3> HIDE DEF e
    <3>2. pos + n = e + Len(h) + 0
      BY <3>1
    <3> QED
      BY <1>3, <2>1, <3>2 DEF e
  <2>3. Len(body) <= bodyLen'
    BY <1>7, <2>1
  <2>4. /\ header' = h /\ body' = body /\ content' = content
        /\ EndOf(i - 1)' = EndOf(i - 1) /\ Len(h) <= HeaderLength /\ got' = got
    BY <1>1, <1>2, <1>3
  <2>5. /\ h # <<>> => i <= Len(content)
        /\ \A k \in 1 .. Len(body) : body[k] = [rec |-> i, at |-> HeaderLength + k]
        /\ \A k \in 1 .. Len(h) : h[k] = [rec |-> i, at |-> k]
    BY <1>1, <2>1
  <2>6. bodyLen' > 0 => Len(h) = HeaderLength /\ bodyLen' <= content[i].len + FooterLength
    BY <1>7
  <2> QED
    BY <2>2, <2>3, <2>4, <2>5, <2>6 DEF At
<1>9. Current' = i
  BY <1>0, <1>i, <1>3 DEF Current
<1>10. Framing'
  BY <1>1, <1>2, <1>8, <1>9 DEF Framing
<1>11. Types'
  <2>1. result' \in EventResult /\ (pc' = "result") = (result'.status # "none")
    BY <1>0, <1>1, <1>3, <1>4, SMTT(30) DEF Types, EventResult
  <2> QED
    BY <1>0, <1>1, <1>2, <1>3, <1>7, <2>1 DEF Types
<1>12. Room'
  <2>a. pc' = "result" => result'.status = "fatal"
    BY <1>0, <1>3
  <2> SUFFICES ASSUME Going', Len(h) = HeaderLength
               PROVE  LET r == content[i]
                          v == Sum64(r.len)
                      IN  r.kind # "badLength" /\ ToInt(v) = v /\ bodyLen' = v
    BY <1>2, <1>3, <1>9, <2>a DEF Room
  <2>1. ValidHeader(h) /\ ToInt(u) % UintSize = u /\ ToInt(u) >= 0 /\ bodyLen' = ToInt(u)
    BY <1>0, <1>3 DEF Going
  <2> HIDE DEF u
  <2> QED
    BY <1>1, <1>6, <2>1
<1>13. Results'
  <2>1. Len(got) \in Nat /\ result.rec = 0
    BY <1>0, LenProperties DEF Types, Results
  <2>2. \A k \in 1 .. Len(got) : got[k].rec = k
    BY <1>0 DEF Results
  <2>3. pc' = "result" => result'.rec = i
    BY <1>0, <1>1, <1>3
  <2>4. pc' # "result" => result'.rec = 0
    BY <1>3, <2>1
  <2> QED
    BY <1>i, <1>3, <2>2, <2>3, <2>4 DEF Results
<1> QED
  BY <1>10, <1>11, <1>12, <1>13 DEF IInv

(***************************************************************************)
(* So does reading the body: a record that is whole leaves the decoder     *)
(* empty, at the next record.                                              *)
(***************************************************************************)
LEMMA BodyStep ==
  ASSUME IInv, ReadBody
  PROVE  IInv'
<1>i. PICK i : i = Len(got) + 1
  OBVIOUS
<1> DEFINE n == Available(bodyLen - Len(body))
           b == body \o NextBytes(n)
<1>0. /\ Types /\ Framing /\ Room /\ Results
      /\ pc = "read" /\ Len(header) = HeaderLength /\ Going
  BY DEF IInv, ReadBody, Going
<1>1. /\ i \in 1 .. Len(content) /\ At(i) /\ header[1].rec = i
      /\ pos + n \in 0 .. written /\ pos + n = EndOf(i - 1) + HeaderLength + Len(b)
      /\ b \in Seq(Byte) /\ Len(b) \in 0 .. bodyLen
      /\ \A k \in 1 .. Len(b) : b[k] = [rec |-> i, at |-> HeaderLength + k]
      /\ Len(b) < bodyLen => pos + n = written
      /\ bodyLen >= FooterLength => bodyLen = content[i].len + FooterLength
  BY <1>0, <1>i, BodyRead
<1>2. /\ content' = content /\ File' = File
      /\ \A j : EndOf(j)' = EndOf(j)
  <2>1. [Next]_vars
    BY Zenon DEF Next, Goroutine
  <2> QED
    BY <2>1, SameFile
<1>3. /\ pos' = pos + n /\ got' = got /\ written' = written
      /\ \/ /\ Len(b) < bodyLen /\ pc' = "sleep" /\ result' = result
            /\ body' = b /\ header' = header /\ bodyLen' = bodyLen
         \/ /\ Len(b) = bodyLen /\ pc' = "panicked" /\ result' = result
            /\ body' = b /\ header' = header /\ bodyLen' = bodyLen
         \/ /\ Len(b) = bodyLen /\ bodyLen >= FooterLength /\ pc' = "result"
            /\ header' = <<>> /\ body' = <<>> /\ bodyLen' = 0
            /\ result'.rec = i /\ result'.status \in {"event", "error"}
            /\ result' = [rec |-> i, status |-> result'.status]
  BY <1>1 DEF ReadBody, Send
<1> HIDE DEF n, b
<1>4. /\ HeaderLength \in Nat /\ HeaderLength > 0 /\ FooterLength \in Nat
      /\ Len(content) \in Nat /\ i \in Nat /\ bodyLen \in Nat /\ Len(got) \in Nat
      /\ EndOf(i - 1) \in Nat /\ EndOf(i) = EndOf(i - 1) + Size(i)
  <2>1. Len(content) \in Nat /\ EndOf(i - 1) \in Nat /\ EndOf(i) = EndOf(i - 1) + Size(i)
    BY <1>0, <1>1, Records, Ends DEF Types
  <2>2. Len(got) \in Nat
    BY <1>0, LenProperties DEF Types
  <2> QED
    BY <1>0, <1>1, <2>1, <2>2, FormatAssumption DEF Types
<1>5. Types'
  <2>1. <<>> \in Seq(Byte)
    BY EmptySeq
  <2>2. result' \in EventResult /\ (pc' = "result") = (result'.status # "none")
    BY <1>0, <1>3, <1>4 DEF Types, EventResult
  <2>3. header' \in Seq(Byte) /\ body' \in Seq(Byte) /\ bodyLen' \in Nat
    <3>1. b \in Seq(Byte) /\ header \in Seq(Byte) /\ 0 \in Nat
      BY <1>0, <1>1 DEF Types
    <3> QED
      BY <1>3, <1>4, <2>1, <3>1, Zenon
  <2>4. content' \in Contents /\ written' \in 0 .. Len(File)' /\ pos' \in 0 .. written'
    BY <1>0, <1>1, <1>2, <1>3 DEF Types
  <2>5. got' \in Seq(EventResult) /\ pc' \in {"result", "sleep", "panicked"}
    BY <1>0, <1>3 DEF Types
  <2> QED
    BY <2>2, <2>3, <2>4, <2>5 DEF Types
<1>6. Results'
  <2>1. \A k \in 1 .. Len(got) : got[k].rec = k
    BY <1>0 DEF Results
  <2>2. result.rec = 0
    BY <1>0 DEF Results
  <2>3. /\ pc' = "result" => result'.rec = Len(got) + 1
        /\ pc' # "result" => result'.rec = 0
    BY <1>i, <1>3, <2>2
  <2> QED
    BY <1>3, <2>1, <2>3 DEF Results
<1>7. CASE header' = header /\ body' = b /\ bodyLen' = bodyLen /\ pc' \in {"sleep", "panicked"}
  <2>1. At(i)'
    <3>1. /\ header # <<>> => i <= Len(content)
          /\ Len(header) <= HeaderLength
          /\ \A k \in 1 .. Len(header) : header[k] = [rec |-> i, at |-> k]
          /\ bodyLen > 0 => /\ Len(header) = HeaderLength
                            /\ bodyLen <= content[i].len + FooterLength
      BY <1>1 DEF At
    <3>2. pos' = EndOf(i - 1) + Len(header) + Len(b) /\ Len(b) <= bodyLen
      BY <1>0, <1>1, <1>3, <1>4
    <3> QED
      BY <1>1, <1>2, <1>3, <1>7, <3>1, <3>2 DEF At
  <2>2. Current' = i /\ Current = i
    BY <1>0, <1>i, <1>3, <1>7 DEF Current
  <2>3. Framing'
    BY <1>1, <1>2, <1>4, <2>1, <2>2 DEF Framing
  <2>4. Room'
    BY <1>0, <1>2, <1>7, <2>2 DEF Room, Sum64, ToInt
  <2> QED
    BY <1>5, <1>6, <2>3, <2>4 DEF IInv
<1>8. CASE /\ header' = <<>> /\ body' = <<>> /\ bodyLen' = 0 /\ pc' = "result"
           /\ Len(b) = bodyLen /\ bodyLen >= FooterLength
  <2>1. (i + 1) - 1 = i /\ i + 1 \in 1 .. Len(content) + 1
    BY <1>1, <1>4
  <2>2. pos' = EndOf(i)
    <3> DEFINE l == content[i].len
    <3>1. l \in Nat
      BY <1>0, <1>1, Records DEF Types
    <3>2. bodyLen = l + FooterLength /\ Size(i) = HeaderLength + l + FooterLength
      BY <1>1, <1>8 DEF Size
    <3> HIDE DEF l
    <3> QED
      BY <1>1, <1>3, <1>4, <1>8, <3>1, <3>2, SMTT(30)
  <2>3. At(i + 1)'
    <3>1. Len(<<>>) = 0
      BY EmptySeq
    <3>2. EndOf((i + 1) - 1)' = EndOf(i) /\ EndOf(i) \in Nat
      <4>1. EndOf(i) \in Nat
        BY <1>0, <1>1, <1>4, Ends DEF Types
      <4> QED
        BY <1>2, <2>1, <4>1
    <3> QED
      BY <1>4, <1>8, <2>2, <3>1, <3>2 DEF At
  <2>4. Current' = i + 1
    BY <1>i, <1>3, <1>4, <1>8 DEF Current
  <2>5. Framing'
    BY <1>2, <2>1, <2>3, <2>4 DEF Framing
  <2>6. Room'
    BY <1>8 DEF Room, Going
  <2> QED
    BY <1>5, <1>6, <2>5, <2>6 DEF IInv
<1> QED
  BY <1>3, <1>7, <1>8

(***************************************************************************)
(* And so do the steps that read nothing.                                  *)
(***************************************************************************)
LEMMA OtherSteps ==
  ASSUME IInv, [Next]_vars, ~ReadHeader, ~ReadBody
  PROVE  IInv'
<1>0. Types /\ Framing /\ Room /\ Results /\ Len(got) \in Nat
  BY LenProperties DEF IInv, Types
<1>1. /\ content' = content /\ File' = File
      /\ \A j : EndOf(j)' = EndOf(j)
  BY SameFile
<1>2. UNCHANGED decoder
  BY Zenon DEF Next, Write, Goroutine, Owner, ReadError, TakeAsleep, TakeResult, WakeUp, vars,
     decoder
<1>3. \A j : At(j)' <=> At(j)
  BY <1>1, <1>2 DEF At, decoder
<1>4. PICK i \in 1 .. Len(content) + 1 : At(i) /\ (pc # "dead" => i = Current)
  BY <1>0 DEF Framing
<1>5. written' \in written .. Len(File) /\ written \in Nat /\ Len(File) \in Nat
  <2>1. written \in 0 .. Len(File) /\ Len(File) \in Nat
    BY <1>0, Ends DEF Types
  <2>2. written' = written \/ written' \in written + 1 .. Len(File)
    BY Zenon DEF Next, Write, Goroutine, Owner, ReadError, TakeAsleep, TakeResult, WakeUp, vars
  <2> QED
    BY <2>1, <2>2
<1>6. CASE UNCHANGED <<pc, result, got>>
  <2>1. Current' = Current
    BY <1>6 DEF Current
  <2>2. Framing'
    BY <1>1, <1>3, <1>4, <1>6, <2>1 DEF Framing
  <2>3. Types'
    BY <1>0, <1>1, <1>2, <1>5, <1>6 DEF Types, decoder
  <2>4. Room'
    BY <1>0, <1>1, <1>2, <1>6, <2>1 DEF Room, Going, decoder, Sum64, ToInt
  <2>5. Results'
    BY <1>0, <1>6 DEF Results
  <2> QED
    BY <2>2, <2>3, <2>4, <2>5 DEF IInv
<1>7. CASE ReadError
  <2>1. /\ pc = "read" /\ pc' = "result" /\ result' = [rec |-> 0, status |-> "fatal"]
        /\ got' = got /\ written' = written
    BY <1>7 DEF ReadError, Send
  <2>2. Current' = Current
    BY <2>1 DEF Current
  <2>3. Framing'
    BY <1>1, <1>3, <1>4, <2>1, <2>2 DEF Framing
  <2>4. Types'
    BY <1>0, <1>1, <1>2, <2>1 DEF Types, decoder, EventResult
  <2>5. Room' /\ Results'
    BY <1>0, <2>1 DEF Room, Going, Results
  <2> QED
    BY <2>3, <2>4, <2>5 DEF IInv
<1>8. CASE TakeAsleep \/ WakeUp("Resume") \/ WakeUp("Abort")
  <2>1. /\ Going /\ pc' \in {"wait", "read", "dead"} /\ result' = result /\ got' = got
        /\ written' = written /\ pc # "result"
    BY <1>8 DEF TakeAsleep, WakeUp, Going
  <2>2. Current' = Current
    BY <2>1 DEF Current, Going
  <2>3. Framing'
    BY <1>1, <1>3, <1>4, <2>1, <2>2 DEF Framing, Going
  <2>4. Types'
    BY <1>0, <1>1, <1>2, <2>1 DEF Types, decoder
  <2>5. Room'
    BY <1>0, <1>1, <1>2, <2>1, <2>2 DEF Room, decoder, Sum64, ToInt
  <2>6. Results'
    BY <1>0, <2>1 DEF Results, Going
  <2> QED
    BY <2>3, <2>4, <2>5, <2>6 DEF IInv
<1>9. CASE TakeResult
  <2> DEFINE t == Append(got, result)
  <2>1. /\ pc = "result" /\ got' = t /\ result' = [rec |-> 0, status |-> "none"]
        /\ pc' = IF result.status = "fatal" THEN "dead" ELSE "read"
        /\ written' = written
    BY <1>9 DEF TakeResult
  <2>2. /\ t \in Seq(EventResult) /\ Len(t) = Len(got) + 1 /\ t[Len(got) + 1] = result
        /\ \A k \in 1 .. Len(got) : t[k] = got[k]
    <3>1. got \in Seq(EventResult) /\ result \in EventResult
      BY <1>0 DEF Types
    <3> QED
      BY <3>1, AppendProperties
  <2> HIDE DEF t
  <2>3. pc' # "dead" => Current' = Current
    BY <1>0, <2>1, <2>2 DEF Current
  <2>4. Framing'
    BY <1>1, <1>3, <1>4, <2>1, <2>3 DEF Framing
  <2>5. Types'
    BY <1>0, <1>1, <1>2, <2>1, <2>2 DEF Types, decoder, EventResult
  <2>6. Room'
    <3>1. pc' # "dead" => Len(header) < HeaderLength
      <4>1. HeaderLength \in Nat /\ HeaderLength > 0 /\ Len(<<>>) = 0
        BY FormatAssumption, EmptySeq
      <4> QED
        BY <1>0, <2>1, <4>1 DEF Room
    <3> QED
      BY <1>0, <1>2, <2>1, <3>1 DEF Room, Going, decoder
  <2>7. Results'
    <3>1. \A k \in 1 .. Len(t) : t[k].rec = k \/ (t[k].rec = 0 /\ pc' = "dead")
      BY <1>0, <2>1, <2>2 DEF Results
    <3> QED
      BY <2>1, <3>1 DEF Results
  <2> QED
    BY <2>4, <2>5, <2>6, <2>7 DEF IInv
<1> QED
  BY <1>6, <1>7, <1>8, <1>9, Zenon DEF Next, Write, Goroutine, Owner, vars

(***************************************************************************)
(* It holds in every state of the reader.                                  *)
(***************************************************************************)
THEOREM Inductive == Spec => []IInv
<1>1. IInv /\ [Next]_vars => IInv'
  BY HeaderStep, BodyStep, OtherSteps, Zenon
<1> QED
  BY <1>1, IInvInit, PTL DEF Spec

(***************************************************************************)
(* The variables keep their types, and the decoder holds no more than a    *)
(* record: the counters of bytes read stay within their buffers.           *)
(***************************************************************************)
THEOREM TypeCorrect == Spec => []TypeOK
<1>1. IInv => TypeOK
  <2> SUFFICES ASSUME IInv
               PROVE  TypeOK
    OBVIOUS
  <2>1. PICK i \in 1 .. Len(content) + 1 : At(i)
    BY DEF IInv, Framing
  <2>2. Len(header) \in Nat /\ Len(body) \in Nat /\ HeaderLength \in Nat
    BY LenProperties, FormatAssumption DEF IInv, Types
  <2> QED
    BY <2>1, <2>2 DEF IInv, Types, At, TypeOK
<1> QED
  BY <1>1, Inductive, PTL

(***************************************************************************)
(* No wake-up, however the bytes of a record were cut, loses the framing.  *)
(***************************************************************************)
THEOREM KeepsFraming == Spec => []Framed
<1>1. IInv => Framed
  <2> SUFFICES ASSUME IInv
               PROVE  Framed
    OBVIOUS
  <2> DEFINE b == header \o body
             m == pos - Len(b)
             x == SubSeq(File, m + 1, pos)
  <2>1. PICK i \in 1 .. Len(content) + 1 : At(i)
    BY DEF IInv, Framing
  <2>2. /\ header \in Seq(Byte) /\ body \in Seq(Byte) /\ bodyLen \in Nat
        /\ content \in Contents /\ File \in Seq(Byte) /\ Len(File) \in Nat
        /\ HeaderLength \in Nat /\ HeaderLength > 0 /\ FooterLength \in Nat
        /\ Len(content) \in Nat /\ pos \in Nat /\ pos <= Len(File)
    <3>1. content \in Contents /\ header \in Seq(Byte) /\ body \in Seq(Byte) /\ bodyLen \in Nat
      BY DEF IInv, Types
    <3>2. File \in Seq(Byte) /\ Len(File) \in Nat /\ Len(content) \in Nat
      BY <3>1, Ends, Records
    <3> QED
      BY <3>1, <3>2, FormatAssumption DEF IInv, Types
  <2>3. Len(header) \in Nat /\ Len(body) \in Nat
    BY <2>2, LenProperties
  <2>4. /\ b \in Seq(Byte) /\ Len(b) = Len(header) + Len(body)
        /\ \A k \in 1 .. Len(header) + Len(body) :
             b[k] = IF k <= Len(header) THEN header[k] ELSE body[k - Len(header)]
    BY <2>2, ConcatProperties
  <2> HIDE DEF b
  <2>5. EndOf(i - 1) \in Nat /\ m = EndOf(i - 1) /\ m \in Nat
    <3>1. i - 1 \in 0 .. Len(content)
      BY <2>2
    <3>2. EndOf(i - 1) \in Nat
      BY <2>2, <3>1, Ends
    <3> DEFINE e == EndOf(i - 1)
    <3>3. pos = e + Len(header) + Len(body) /\ e \in Nat
      BY <2>1, <3>2 DEF At
    <3> HIDE DEF e
    <3>4. m = e
      BY <2>3, <2>4, <3>3
    <3> QED
      BY <3>3, <3>4 DEF e
  <2>6. x \in Seq(Byte) /\ Len(x) = Len(b) /\ \A k \in 1 .. Len(b) : x[k] = File[m + k]
    <3>1. /\ m + 1 \in Int /\ pos \in Int /\ pos = m + Len(b) /\ Len(b) \in Nat
      BY <2>2, <2>3, <2>4, <2>5
    <3>2. \A k \in m + 1 .. pos : File[k] \in Byte
      <4>1. \A k \in 1 .. Len(File) : File[k] \in Byte
        BY <2>2, ElementOfSeq
      <4> QED
        BY <2>2, <2>5, <4>1
    <3> HIDE DEF m
    <3>3. /\ x \in Seq(Byte) /\ Len(x) = IF m + 1 <= pos THEN pos - (m + 1) + 1 ELSE 0
          /\ \A k \in 1 .. pos - (m + 1) + 1 : x[k] = File[(m + 1) + k - 1]
      BY <3>1, <3>2, SubSeqProperties
    <3> HIDE DEF x
    <3>4. pos - (m + 1) + 1 = Len(b) /\ \A k \in 1 .. Len(b) : (m + 1) + k - 1 = m + k
      BY <3>1, <2>5, SMTT(30)
    <3> QED
      BY <3>1, <3>3, <3>4
  <2> HIDE DEF x
  <2>7. header # <<>> => i \in 1 .. Len(content)
    BY <2>1, <2>2 DEF At
  <2>8. /\ body # <<>> => Len(header) = HeaderLength /\ bodyLen > 0
        /\ header # <<>> => header[1].at = 1
    <3>1. body # <<>> => Len(body) > 0
      BY <2>2, <2>3, EmptySeq
    <3>2. header # <<>> => Len(header) > 0
      BY <2>2, <2>3, EmptySeq
    <3>3. header # <<>> => header[1] = [rec |-> i, at |-> 1]
      BY <2>1, <2>3, <3>2 DEF At
    <3> QED
      BY <2>1, <2>2, <2>3, <3>1, <3>3 DEF At
  <2>9. ASSUME NEW k \in 1 .. Len(b)
        PROVE  b[k] = File[m + k]
    <3>1. i \in 1 .. Len(content)
      <4>1. header = <<>> => Len(header) = 0
        BY EmptySeq
      <4>2. header # <<>>
        BY <2>1, <2>2, <2>3, <2>4, <4>1 DEF At
      <4> QED
        BY <2>7, <4>2
    <3>2. content[i].len \in Nat
      BY <2>2, <3>1, Records
    <3>3. Len(b) <= Size(i)
      <4> DEFINE l == content[i].len
      <4>1. l \in Nat /\ (bodyLen > 0 => bodyLen <= l + FooterLength)
        BY <2>1, <3>2 DEF At
      <4>2. Len(header) <= HeaderLength /\ Len(body) <= bodyLen
        BY <2>1 DEF At
      <4> HIDE DEF l
      <4>3. Len(b) <= HeaderLength + l + FooterLength
        BY <2>2, <2>3, <2>4, <4>1, <4>2
      <4> QED
        BY <4>3 DEF Size, l
    <3>4. File[EndOf(i - 1) + k] = [rec |-> i, at |-> k]
      <4>1. \A j \in 1 .. Size(i) : File[EndOf(i - 1) + j] = [rec |-> i, at |-> j]
        BY <2>2, <3>1, ByteAt
      <4>2. k \in 1 .. Size(i)
        <5>1. Size(i) \in Nat
          BY <2>2, <3>1, Bytes
        <5>2. Len(b) \in Nat
          BY <2>3, <2>4
        <5> QED
          BY <3>3, <5>1, <5>2
      <4> QED
        BY <4>1, <4>2
    <3>5. b[k] = [rec |-> i, at |-> k]
      <4>a. k \in Nat /\ k >= 1 /\ k <= Len(header) + Len(body)
        BY <2>3, <2>4
      <4>b. k \in 1 .. Len(header) + Len(body)
        BY <2>4
      <4>1. CASE k <= Len(header)
        <5>1. k \in 1 .. Len(header) /\ b[k] = header[k]
          BY <2>3, <2>4, <4>1, <4>a, <4>b
        <5> QED
          BY <2>1, <5>1 DEF At
      <4>2. CASE ~(k <= Len(header))
        <5> DEFINE j == k - Len(header)
        <5>1. j \in 1 .. Len(body) /\ b[k] = body[j]
          BY <2>3, <2>4, <4>2, <4>a, <4>b
        <5>2. body # <<>>
          BY <2>3, <5>1, EmptySeq
        <5>3. HeaderLength + j = k
          <6>1. Len(header) = HeaderLength
            BY <2>8, <5>2
          <6> QED
            BY <2>3, <4>a, <6>1
        <5> HIDE DEF j
        <5> QED
          BY <2>1, <5>1, <5>3 DEF At
      <4> QED
        BY <4>1, <4>2
    <3> QED
      BY <2>5, <3>4, <3>5
  <2>10. b = x
    BY <2>4, <2>6, <2>9, SeqEqual
  <2> QED
    BY <2>8, <2>10 DEF Framed, b, x
<1> QED
  BY <1>1, Inductive, PTL

-----------------------------------------------------------------------------
\* What EventStream sees: how many records can be judged, which one is read
\* next, and where the goroutine is.
Visible == Cardinality({i \in DOMAIN content : Judgeable(i)})
NextRecord == 1 + Cardinality(Judged) + (IF result.rec > 0 THEN 1 ELSE 0)
Place == IF pc = "panicked" THEN "read" ELSE pc

(***************************************************************************)
(* A record makes room for no more than the file holds of it.              *)
(***************************************************************************)
LEMMA RoomInRecord ==
  ASSUME content \in Contents, NEW i \in 1 .. Len(content)
  PROVE  RoomFor(i) \in Nat /\ HeaderLength + RoomFor(i) <= Size(i)
<1> DEFINE l == content[i].len
           u == Sum64(l)
<1>1. l \in 0 .. UintSize - 1 /\ l \in Nat /\ HeaderLength \in Nat /\ FooterLength \in Nat
  BY Records, FormatAssumption
<1>2. RoomFor(i) = 0 \/ (ToInt(u) = u /\ RoomFor(i) = u)
  BY DEF RoomFor
<1> HIDE DEF l
<1>3. /\ u \in Nat
      /\ ToInt(u) = u =>
           \/ u = l + FooterLength /\ l + FooterLength < IntSize
           \/ u < FooterLength /\ l + FooterLength >= IntSize
  BY <1>1, Conversion
<1> HIDE DEF u
<1>4. RoomFor(i) \in Nat /\ RoomFor(i) <= l + FooterLength
  BY <1>1, <1>2, <1>3
<1>5. HeaderLength + RoomFor(i) <= HeaderLength + l + FooterLength
  BY <1>1, <1>4
<1> QED
  BY <1>4, <1>5 DEF Size, l

(***************************************************************************)
(* A record ends before the later ones do.                                 *)
(***************************************************************************)
LEMMA EndsGrow ==
  ASSUME content \in Contents
  PROVE  \A n \in 0 .. Len(content) : \A j \in 0 .. n : EndOf(j) <= EndOf(n)
<1> DEFINE G == {n \in Nat : n <= Len(content) => \A j \in 0 .. n : EndOf(j) <= EndOf(n)}
<1>1. /\ Len(content) \in Nat /\ \A i \in 0 .. Len(content) : EndOf(i) \in Nat
      /\ \A i \in 1 .. Len(content) : EndOf(i) = EndOf(i - 1) + Size(i)
  BY Records, Ends
<1>2. \A i \in 1 .. Len(content) : Size(i) \in Nat
  BY Bytes
<1>3. 0 \in G
  BY <1>1
<1>4. ASSUME NEW n \in Nat, n \in G
      PROVE  n + 1 \in G
  <2> SUFFICES ASSUME n + 1 <= Len(content), NEW j \in 0 .. n + 1
               PROVE  EndOf(j) <= EndOf(n + 1)
    OBVIOUS
  <2>1. n + 1 \in 1 .. Len(content) /\ (n + 1) - 1 = n /\ n \in 0 .. Len(content)
    BY <1>1
  <2>2. /\ EndOf(n + 1) = EndOf(n) + Size(n + 1) /\ EndOf(n) \in Nat
        /\ Size(n + 1) \in Nat
    BY <1>1, <1>2, <2>1
  <2>3. j = n + 1 \/ (j \in 0 .. n /\ EndOf(j) <= EndOf(n) /\ EndOf(j) \in Nat)
    BY <1>1, <1>4, <2>1
  <2> QED
    BY <2>2, <2>3
<1>5. Nat \subseteq G
  <2> HIDE DEF G
  <2>1. \A n \in Nat : n \in G => n + 1 \in G
    BY <1>4
  <2> QED
    BY <1>3, <2>1, InductionOnNat
<1> QED
  BY <1>1, <1>5

(***************************************************************************)
(* The records that can be judged are the first ones.                      *)
(***************************************************************************)
LEMMA JudgeableFirst ==
  ASSUME content \in Contents, written \in Nat, NEW i \in 1 .. Len(content)
  PROVE  /\ Judgeable(i) => Visible >= i
         /\ ~Judgeable(i) => Visible < i
<1> DEFINE V == {j \in DOMAIN content : Judgeable(j)}
<1>1. Len(content) \in Nat /\ DOMAIN content = 1 .. Len(content)
  BY Records
<1>2. ASSUME NEW m \in 1 .. Len(content), NEW j \in 1 .. m, Judgeable(m)
      PROVE  Judgeable(j)
  <2> SUFFICES ASSUME j < m
               PROVE  Judgeable(j)
    BY <1>1, <1>2
  <2>1. j \in 0 .. m - 1 /\ m - 1 \in 0 .. Len(content) /\ j \in 1 .. Len(content)
    BY <1>1
  <2>2. /\ EndOf(j) <= EndOf(m - 1) /\ EndOf(j) = EndOf(j - 1) + Size(j)
        /\ EndOf(j - 1) \in Nat /\ EndOf(m - 1) \in Nat
    BY <2>1, EndsGrow, Ends
  <2>3. HeaderLength + RoomFor(j) <= Size(j) /\ RoomFor(m) \in Nat /\ RoomFor(j) \in Nat
        /\ Size(j) \in Nat /\ HeaderLength \in Nat
    BY <2>1, RoomInRecord, Bytes, FormatAssumption
  <2>4. written >= EndOf(m - 1) + HeaderLength + RoomFor(m)
    BY <1>2 DEF Judgeable
  <2>5. written >= EndOf(j - 1) + HeaderLength + RoomFor(j)
    BY <2>2, <2>3, <2>4, SMTT(30)
  <2> QED
    BY <2>5 DEF Judgeable
<1>3. IsFiniteSet(1 .. Len(content)) /\ IsFiniteSet(V) /\ Cardinality(V) \in Nat
  <2>1. IsFiniteSet(1 .. Len(content))
    <3>1. 1 \in Int /\ Len(content) \in Int
      BY <1>1
    <3> QED
      BY <3>1, FS_Interval
  <2>2. V \subseteq 1 .. Len(content)
    BY <1>1
  <2>3. IsFiniteSet(V)
    BY <2>1, <2>2, FS_Subset
  <2> QED
    BY <2>1, <2>3, FS_CardinalityType
<1>4. /\ i \in Nat /\ Cardinality(1 .. i) = i /\ IsFiniteSet(1 .. i)
      /\ Cardinality(1 .. i - 1) = i - 1 /\ IsFiniteSet(1 .. i - 1)
  <2>1. 1 \in Int /\ i \in Int /\ i - 1 \in Int /\ i >= 1
    BY <1>1
  <2>2. \A a, b \in Int : /\ IsFiniteSet(a .. b)
                          /\ Cardinality(a .. b) = IF a > b THEN 0 ELSE b - a + 1
    BY FS_Interval
  <2>3. IsFiniteSet(1 .. i) /\ Cardinality(1 .. i) = IF 1 > i THEN 0 ELSE i - 1 + 1
    BY <2>1, <2>2
  <2>4. IsFiniteSet(1 .. i - 1) /\ Cardinality(1 .. i - 1) = IF 1 > i - 1 THEN 0 ELSE i - 1 - 1 + 1
    BY <2>1, <2>2
  <2> QED
    BY <2>1, <2>3, <2>4
<1>5. ASSUME Judgeable(i)
      PROVE  Visible >= i
  <2>1. 1 .. i \subseteq V
    BY <1>1, <1>2, <1>5
  <2> HIDE DEF V
  <2>2. Cardinality(1 .. i) <= Cardinality(V)
    BY <1>3, <2>1, FS_Subset
  <2> QED
    BY <1>3, <1>4, <2>2 DEF Visible, V
<1>6. ASSUME ~Judgeable(i)
      PROVE  Visible < i
  <2>1. V \subseteq 1 .. i - 1
    <3> SUFFICES ASSUME NEW j \in V
                 PROVE  j \in 1 .. i - 1
      OBVIOUS
    <3>1. j \in 1 .. Len(content) /\ Judgeable(j)
      BY <1>1
    <3>2. ~(i \in 1 .. j)
      BY <1>2, <1>6, <3>1
    <3> QED
      BY <1>1, <3>1, <3>2
  <2> HIDE DEF V
  <2>2. Cardinality(V) <= Cardinality(1 .. i - 1)
    BY <1>4, <2>1, FS_Subset
  <2> QED
    BY <1>3, <1>4, <2>2 DEF Visible, V
<1> QED
  BY <1>5, <1>6

(***************************************************************************)
(* There are only more of them as the file grows.                          *)
(***************************************************************************)
LEMMA VisibleGrows ==
  ASSUME IInv, IInv', [Next]_vars
  PROVE  /\ Visible \in Nat /\ Visible' \in Nat
         /\ Visible <= Visible' /\ Visible' <= Len(content)
         /\ written' = written => Visible' = Visible
<1>1. content \in Contents /\ written \in Nat /\ written' \in Nat /\ written <= written'
  <2>1. /\ content \in Contents /\ written \in 0 .. Len(File)
        /\ written' \in 0 .. Len(File)'
    BY DEF IInv, Types
  <2>2. Len(File) \in Nat /\ File' = File
    BY <2>1, Ends, SameFile
  <2>3. written' = written \/ written' \in written + 1 .. Len(File)
    BY Zenon DEF Next, Write, Goroutine, Owner, ReadHeader, ReadBody, ReadError, TakeAsleep,
       TakeResult, WakeUp, vars
  <2> QED
    BY <2>1, <2>2, <2>3
<1>2. Len(content) \in Nat /\ DOMAIN content = 1 .. Len(content)
  BY <1>1, Records
<1> DEFINE V == {i \in DOMAIN content : Judgeable(i)}
           W == {i \in DOMAIN content : written' >= EndOf(i - 1) + HeaderLength + RoomFor(i)}
<1>3. Visible = Cardinality(V) /\ Visible' = Cardinality(W)
  <2>1. content' = content /\ \A i : EndOf(i - 1)' = EndOf(i - 1) /\ RoomFor(i)' = RoomFor(i)
    BY SameFile
  <2> QED
    BY <2>1 DEF Visible, Judgeable
<1>4. \A i \in 1 .. Len(content) : EndOf(i - 1) \in Nat /\ RoomFor(i) \in Nat
  BY <1>1, Ends, RoomInRecord
<1>5. V \subseteq W /\ W \subseteq 1 .. Len(content) /\ (written' = written => W = V)
  BY <1>1, <1>2, <1>4, FormatAssumption DEF Judgeable
<1>6. IsFiniteSet(1 .. Len(content)) /\ Cardinality(1 .. Len(content)) = Len(content)
  <2>1. 1 \in Int /\ Len(content) \in Int
    BY <1>2
  <2>2. \A a, b \in Int : /\ IsFiniteSet(a .. b)
                          /\ Cardinality(a .. b) = IF a > b THEN 0 ELSE b - a + 1
    BY FS_Interval
  <2>3. Cardinality(1 .. Len(content)) = IF 1 > Len(content) THEN 0 ELSE Len(content) - 1 + 1
    BY <2>1, <2>2
  <2> QED
    BY <1>2, <2>1, <2>2, <2>3, SMTT(30)
<1> HIDE DEF V, W
<1>7. IsFiniteSet(W) /\ Cardinality(W) <= Len(content)
  BY <1>5, <1>6, FS_Subset
<1>8. IsFiniteSet(V) /\ Cardinality(V) <= Cardinality(W)
  BY <1>5, <1>7, FS_Subset
<1>9. Cardinality(V) \in Nat /\ Cardinality(W) \in Nat
  BY <1>7, <1>8, FS_CardinalityType
<1> QED
  BY <1>3, <1>5, <1>7, <1>8, <1>9

(***************************************************************************)
(* The record that is read next comes after those of the results, as long  *)
(* as the goroutine goes on.                                               *)
(***************************************************************************)
LEMMA JudgedRecords ==
  ASSUME Types, Results
  PROVE  /\ Len(got) \in Nat
         /\ pc # "dead" => Judged = 1 .. Len(got) /\ Cardinality(Judged) = Len(got)
<1>1. DOMAIN got = 1 .. Len(got) /\ Len(got) \in Nat
  BY LenProperties DEF Types
<1>2. ASSUME pc # "dead"
      PROVE  Judged = 1 .. Len(got)
  BY <1>1, <1>2 DEF Judged, Results
<1>3. Cardinality(1 .. Len(got)) = Len(got)
  <2>1. 1 \in Int /\ Len(got) \in Int
    BY <1>1
  <2>2. Cardinality(1 .. Len(got)) = IF 1 > Len(got) THEN 0 ELSE Len(got) - 1 + 1
    BY <2>1, FS_Interval
  <2> QED
    BY <1>1, <2>2
<1> QED
  BY <1>1, <1>2, <1>3

(***************************************************************************)
(* The actions of EventStream, for one file.                               *)
(***************************************************************************)
LEMMA StreamActions ==
  /\ /\ Len(AsRecords(content)) = Len(content)
     /\ Visible < Len(content) /\ Visible' \in Visible + 1 .. Len(content)
     /\ UNCHANGED <<content, NextRecord, Place, result, got>>
     => Stream!Write("file")
  /\ /\ Place = "read" /\ NextRecord <= Visible
     /\ Place' = "result"
     /\ result' = [rec |-> NextRecord, status |-> Stream!Status(AsRecords(content)[NextRecord])]
     /\ NextRecord' = NextRecord + 1
     /\ UNCHANGED <<content, Visible, got>>
     => Stream!ReadRecord("file")
  /\ /\ Place = "read" /\ NextRecord > Visible
     /\ Place' = "sleep"
     /\ UNCHANGED <<content, Visible, NextRecord, result, got>>
     => Stream!ReadEOF("file")
  /\ /\ MayFail /\ Place = "read"
     /\ Place' = "result" /\ result' = [rec |-> 0, status |-> "fatal"]
     /\ UNCHANGED <<content, Visible, NextRecord, got>>
     => Stream!ReadError("file")
  /\ \A action \in {"Resume", "Abort"} :
       /\ Place = "wait"
       /\ Place' = IF action = "Resume" THEN "read" ELSE "dead"
       /\ UNCHANGED <<content, Visible, NextRecord, result, got>>
       => Stream!WakeUp("file", action)
  /\ /\ Place = "sleep" /\ Place' = "wait"
     /\ UNCHANGED <<content, Visible, NextRecord, result, got>>
     => Stream!TakeAsleep("file")
  /\ /\ Place = "result"
     /\ got' = Append(got, result) /\ result' = [rec |-> 0, status |-> "none"]
     /\ Place' = IF result.status = "fatal" THEN "dead" ELSE "read"
     /\ UNCHANGED <<content, Visible, NextRecord>>
     => Stream!TakeResult("file")
  /\ UNCHANGED <<content, Visible, NextRecord, Place, result, got>>
     => UNCHANGED Stream!streamVars
BY DEF Stream!Write, Stream!ReadRecord, Stream!ReadEOF, Stream!ReadError, Stream!SetResult,
   Stream!WakeUp, Stream!TakeAsleep, Stream!TakeResult, Stream!NoResult, Stream!streamVars,
   Visible, NextRecord, Place, AsRecords, TooLong

(***************************************************************************)
(* A record as EventStream sees it: its length cannot be read past if it   *)
(* is corrupt or does not fit.                                             *)
(***************************************************************************)
LEMMA AsRecord ==
  ASSUME content \in Contents, NEW i \in 1 .. Len(content)
  PROVE  /\ Len(AsRecords(content)) = Len(content)
         /\ Stream!Status(AsRecords(content)[i]) =
              IF content[i].kind = "badLength" \/ content[i].len + FooterLength >= IntSize
              THEN "fatal" ELSE IF content[i].kind = "event" THEN "event" ELSE "error"
<1>1. /\ Len(content) \in Nat /\ DOMAIN content = 1 .. Len(content)
      /\ content[i] \in [kind : {"event", "badData", "badLength"}, len : 0 .. UintSize - 1]
  BY Records
<1> DEFINE r == content[i]
<1>2. AsRecords(content)[i] = IF TooLong(content, i) THEN [r EXCEPT !.kind = "badLength"] ELSE r
  BY <1>1 DEF AsRecords
<1>3. [r EXCEPT !.kind = "badLength"].kind = "badLength"
  BY <1>1
<1>4. AsRecords(content)[i].kind = IF TooLong(content, i) THEN "badLength" ELSE r.kind
  BY <1>2, <1>3
<1>5. Stream!Status(AsRecords(content)[i]) =
        IF content[i].kind = "badLength" \/ content[i].len + FooterLength >= IntSize
        THEN "fatal" ELSE IF content[i].kind = "event" THEN "event" ELSE "error"
  BY <1>1, <1>4 DEF Stream!Status, TooLong
<1>6. Len(AsRecords(content)) = Len(content)
  <2> DEFINE s == AsRecords(content)
  <2>1. s \in [1 .. Len(content) -> {s[j] : j \in 1 .. Len(content)}]
    BY <1>1 DEF AsRecords
  <2> HIDE DEF s
  <2>2. Len(s) = Len(content)
    BY <1>1, <2>1, SeqOfFunction
  <2> QED
    BY <2>2 DEF s
<1> QED
  BY <1>5, <1>6

(***************************************************************************)
(* Reading the header: a record is judged by it, or the reader dozes off   *)
(* before a record that cannot be judged yet.                              *)
(***************************************************************************)
LEMMA HeaderRefines ==
  ASSUME IInv, IInv', ReadHeader
  PROVE  \/ Stream!ReadRecord("file") \/ Stream!ReadEOF("file")
         \/ UNCHANGED Stream!streamVars
<1>i. PICK i : i = Len(got) + 1
  OBVIOUS
<1> DEFINE n == Available(HeaderLength - Len(header))
           h == header \o NextBytes(n)
           u == Sum64(LengthIn(h))
<1>0. Types /\ Framing /\ Results /\ pc = "read" /\ Len(header) < HeaderLength
  BY DEF IInv, ReadHeader
<1>1. /\ i \in 1 .. Len(content) + 1
      /\ pos + n \in 0 .. written /\ pos + n = EndOf(i - 1) + Len(h)
      /\ h \in Seq(Byte) /\ Len(h) \in 0 .. HeaderLength
      /\ h # <<>> => i \in 1 .. Len(content)
      /\ Len(h) < HeaderLength => pos + n = written
      /\ Len(h) = HeaderLength =>
           /\ h[1].rec = i /\ LengthIn(h) = content[i].len
           /\ ValidHeader(h) <=> content[i].kind # "badLength"
  BY <1>0, <1>i, HeaderRead
<1>2. /\ got' = got /\ content' = content /\ written' = written
      /\ \/ Len(h) < HeaderLength /\ pc' = "sleep" /\ result' = result
         \/ /\ Len(h) = HeaderLength /\ pc' = "result"
            /\ result' = [rec |-> h[1].rec, status |-> "fatal"]
            /\ ~ValidHeader(h) \/ ToInt(u) % UintSize # u
         \/ /\ Len(h) = HeaderLength /\ pc' \in {"panicked", "read"} /\ result' = result
  BY DEF ReadHeader, Send
<1> HIDE DEF n, h
<1>3. /\ content \in Contents /\ Len(content) \in Nat /\ HeaderLength \in Nat /\ HeaderLength > 0
      /\ written \in Nat /\ i \in Nat /\ FooterLength \in Nat
  <2>1. content \in Contents /\ Len(content) \in Nat /\ Len(File) \in Nat
    BY <1>0, Records, Ends DEF Types
  <2> QED
    BY <1>0, <1>1, <2>1, FormatAssumption DEF Types
<1>4. /\ Visible \in Nat /\ Visible <= Len(content) /\ Visible' = Visible
  <2>1. [Next]_vars
    BY Zenon DEF Next, Goroutine
  <2> QED
    BY <1>2, <1>3, <2>1, VisibleGrows
<1>5. /\ NextRecord = i /\ Place = "read"
      /\ (result' = result => NextRecord' = i)
      /\ (result'.rec = i => NextRecord' = i + 1)
  <2>1. Cardinality(Judged) = Len(got) /\ Len(got) \in Nat /\ result.rec = 0
    BY <1>0, JudgedRecords DEF Results
  <2>2. Judged' = Judged
    BY <1>2 DEF Judged
  <2> QED
    BY <1>0, <1>i, <1>3, <2>1, <2>2 DEF NextRecord, Place
<1>6. CASE Len(h) < HeaderLength /\ pc' = "sleep" /\ result' = result
  <2>1. NextRecord > Visible
    <3>1. CASE i \in 1 .. Len(content)
      <4>1. EndOf(i - 1) \in Nat /\ RoomFor(i) \in Nat
        BY <1>3, <3>1, Ends, RoomInRecord
      <4>2. ~(written >= EndOf(i - 1) + HeaderLength + RoomFor(i))
        BY <1>1, <1>3, <1>6, <4>1
      <4>3. Visible < i
        BY <1>3, <3>1, <4>2, JudgeableFirst DEF Judgeable
      <4> QED
        BY <1>3, <1>4, <1>5, <4>3
    <3>2. CASE i = Len(content) + 1
      BY <1>3, <1>4, <1>5, <3>2
    <3> QED
      BY <1>1, <1>3, <3>1, <3>2
  <2>2. Place' = "sleep"
    BY <1>6 DEF Place
  <2> QED
    BY <1>2, <1>4, <1>5, <1>6, <2>1, <2>2, StreamActions
<1>7. CASE /\ Len(h) = HeaderLength /\ pc' = "result"
           /\ result' = [rec |-> h[1].rec, status |-> "fatal"]
           /\ ~ValidHeader(h) \/ ToInt(u) % UintSize # u
  <2>1. i \in 1 .. Len(content)
    <3>1. h # <<>>
      BY <1>3, <1>7, EmptySeq
    <3> QED
      BY <1>1, <3>1
  <2>2. /\ RoomFor(i) = 0
        /\ content[i].kind = "badLength" \/ content[i].len + FooterLength >= IntSize
    <3>1. CASE ~ValidHeader(h)
      BY <1>1, <1>7, <3>1 DEF RoomFor
    <3>2. CASE ToInt(u) % UintSize # u
      <4> DEFINE l == content[i].len
                 v == Sum64(l)
      <4>1. l \in 0 .. UintSize - 1 /\ l \in Nat /\ IntSize \in Nat
        BY <1>3, <2>1, Records, FormatAssumption
      <4>2. ToInt(v) % UintSize # v
        BY <1>1, <1>7, <3>2
      <4>3. ToInt(v) = v => RoomFor(i) \in {0, v}
        BY DEF RoomFor
      <4>4. ToInt(v) # v => RoomFor(i) = 0
        BY DEF RoomFor
      <4> HIDE DEF l
      <4>5. /\ ToInt(v) % UintSize = v /\ ToInt(v) >= 0 <=> ToInt(v) = v
            /\ l + FooterLength < IntSize => ToInt(v) = v
        BY <4>1, Conversion
      <4> HIDE DEF v
      <4>6. ToInt(v) # v
        BY <4>2, <4>5
      <4>7. l + FooterLength >= IntSize
        BY <1>3, <4>1, <4>5, <4>6
      <4> QED
        BY <4>4, <4>6, <4>7 DEF l
    <3> QED
      BY <1>7, <3>1, <3>2
  <2>3. Visible >= i
    <3>1. EndOf(i - 1) \in Nat
      BY <1>3, <2>1, Ends
    <3>2. written >= EndOf(i - 1) + HeaderLength + RoomFor(i)
      BY <1>1, <1>3, <1>7, <2>2, <3>1
    <3> QED
      BY <1>3, <2>1, <3>2, JudgeableFirst DEF Judgeable
  <2>4. Stream!Status(AsRecords(content)[i]) = "fatal"
    BY <1>3, <2>1, <2>2, AsRecord
  <2>5. h[1].rec = i /\ result'.rec = i /\ NextRecord' = NextRecord + 1
    BY <1>1, <1>5, <1>7
  <2>6. Place' = "result"
    BY <1>7 DEF Place
  <2>7. result' = [rec |-> NextRecord, status |-> Stream!Status(AsRecords(content)[NextRecord])]
    BY <1>5, <1>7, <2>4, <2>5
  <2>8. NextRecord <= Visible
    BY <1>5, <2>3
  <2> QED
    BY <1>2, <1>4, <1>5, <2>5, <2>6, <2>7, <2>8, StreamActions
<1>8. CASE pc' \in {"panicked", "read"} /\ result' = result
  <2>1. Place' = Place
    BY <1>0, <1>8 DEF Place
  <2> QED
    BY <1>2, <1>4, <1>5, <1>8, <2>1, StreamActions
<1> QED
  BY <1>2, <1>6, <1>7, <1>8

(***************************************************************************)
(* Reading the body: likewise, for the records that are judged as a whole. *)
(***************************************************************************)
LEMMA BodyRefines ==
  ASSUME IInv, IInv', ReadBody
  PROVE  \/ Stream!ReadRecord("file") \/ Stream!ReadEOF("file")
         \/ UNCHANGED Stream!streamVars
<1>i. PICK i : i = Len(got) + 1
  OBVIOUS
<1> DEFINE n == Available(bodyLen - Len(body))
           b == body \o NextBytes(n)
<1>0. /\ Types /\ Framing /\ Room /\ Results
      /\ pc = "read" /\ Len(header) = HeaderLength
  BY DEF IInv, ReadBody
<1>1. /\ i \in 1 .. Len(content) /\ header[1].rec = i
      /\ pos + n \in 0 .. written /\ pos + n = EndOf(i - 1) + HeaderLength + Len(b)
      /\ b \in Seq(Byte) /\ Len(b) \in 0 .. bodyLen
      /\ \A k \in 1 .. Len(b) : b[k] = [rec |-> i, at |-> HeaderLength + k]
      /\ Len(b) < bodyLen => pos + n = written
      /\ content[i].kind # "badLength" /\ RoomFor(i) = bodyLen
      /\ bodyLen >= FooterLength =>
           /\ bodyLen = content[i].len + FooterLength
           /\ content[i].len + FooterLength < IntSize
  BY <1>0, <1>i, BodyRead
<1>2. /\ got' = got /\ content' = content /\ written' = written
      /\ \/ /\ Len(b) < bodyLen /\ pc' = "sleep" /\ result' = result
         \/ /\ pc' = "panicked" /\ result' = result
         \/ /\ Len(b) = bodyLen /\ bodyLen >= FooterLength /\ pc' = "result"
            /\ result' = [rec |-> i, status |-> IF IsBodyOf(i, b) /\ content[i].kind = "event"
                                                THEN "event" ELSE "error"]
  BY <1>1 DEF ReadBody, Send
<1> HIDE DEF n, b
<1>3. /\ content \in Contents /\ Len(content) \in Nat /\ HeaderLength \in Nat
      /\ written \in Nat /\ i \in Nat /\ FooterLength \in Nat /\ IntSize \in Nat
      /\ EndOf(i - 1) \in Nat /\ bodyLen \in Nat /\ content[i].len \in Nat
  <2>1. /\ content \in Contents /\ Len(content) \in Nat /\ Len(File) \in Nat
        /\ EndOf(i - 1) \in Nat /\ content[i].len \in Nat
    BY <1>0, <1>1, Records, Ends DEF Types
  <2> QED
    BY <1>0, <1>1, <2>1, FormatAssumption DEF Types
<1>4. /\ Visible \in Nat /\ Visible' = Visible
  <2>1. [Next]_vars
    BY Zenon DEF Next, Goroutine
  <2> QED
    BY <1>2, <1>3, <2>1, VisibleGrows
<1>5. /\ NextRecord = i /\ Place = "read"
      /\ (result' = result => NextRecord' = i)
      /\ (result'.rec = i => NextRecord' = i + 1)
  <2>1. Cardinality(Judged) = Len(got) /\ Len(got) \in Nat /\ result.rec = 0
    BY <1>0, JudgedRecords DEF Results
  <2>2. Judged' = Judged
    BY <1>2 DEF Judged
  <2> QED
    BY <1>0, <1>i, <1>3, <2>1, <2>2 DEF NextRecord, Place
<1>6. CASE Len(b) < bodyLen /\ pc' = "sleep" /\ result' = result
  <2>1. ~(written >= EndOf(i - 1) + HeaderLength + RoomFor(i))
    BY <1>1, <1>3, <1>6
  <2>2. Visible < i
    BY <1>1, <1>3, <2>1, JudgeableFirst DEF Judgeable
  <2>3. NextRecord > Visible
    BY <1>3, <1>4, <1>5, <2>2
  <2>4. Place' = "sleep"
    BY <1>6 DEF Place
  <2> QED
    BY <1>2, <1>4, <1>5, <1>6, <2>3, <2>4, StreamActions
<1>7. CASE pc' = "panicked" /\ result' = result
  <2>1. Place' = Place
    BY <1>0, <1>7 DEF Place
  <2> QED
    BY <1>2, <1>4, <1>5, <1>7, <2>1, StreamActions
<1>8. CASE /\ Len(b) = bodyLen /\ bodyLen >= FooterLength /\ pc' = "result"
           /\ result' = [rec |-> i, status |-> IF IsBodyOf(i, b) /\ content[i].kind = "event"
                                               THEN "event" ELSE "error"]
  <2>1. IsBodyOf(i, b)
    <3>1. DOMAIN b = 1 .. Len(b)
      BY <1>1, LenProperties
    <3> QED
      BY <1>1, <1>8, <3>1 DEF IsBodyOf
  <2>2. written >= EndOf(i - 1) + HeaderLength + RoomFor(i)
    BY <1>1, <1>3, <1>8
  <2>3. Visible >= i
    BY <1>1, <1>3, <2>2, JudgeableFirst DEF Judgeable
  <2>4. Stream!Status(AsRecords(content)[i]) =
          IF content[i].kind = "event" THEN "event" ELSE "error"
    <3>1. ~(content[i].kind = "badLength" \/ content[i].len + FooterLength >= IntSize)
      BY <1>1, <1>3, <1>8, SMTT(30)
    <3> QED
      BY <1>1, <1>3, <3>1, AsRecord
  <2>5. result' = [rec |-> NextRecord, status |-> Stream!Status(AsRecords(content)[NextRecord])]
    BY <1>5, <1>8, <2>1, <2>4
  <2>6. result'.rec = i /\ NextRecord' = NextRecord + 1 /\ NextRecord <= Visible
    BY <1>5, <1>8, <2>3
  <2>7. Place' = "result"
    BY <1>8 DEF Place
  <2> QED
    BY <1>2, <1>4, <1>5, <2>5, <2>6, <2>7, StreamActions
<1> QED
  BY <1>2, <1>6, <1>7, <1>8

(***************************************************************************)
(* The other steps.                                                        *)
(***************************************************************************)
LEMMA OthersRefine ==
  ASSUME IInv, IInv', [Next]_vars, ~ReadHeader, ~ReadBody
  PROVE  \/ Stream!Write("file") \/ Stream!ReadError("file")
         \/ \E action \in {"Resume", "Abort"} : Stream!WakeUp("file", action)
         \/ Stream!TakeAsleep("file") \/ Stream!TakeResult("file")
         \/ UNCHANGED Stream!streamVars
<1>0. Types /\ Results /\ Len(got) \in Nat
  BY LenProperties DEF IInv, Types
<1>1. content' = content
  BY SameFile
<1>2. /\ Visible \in Nat /\ Visible' \in Nat /\ Visible <= Visible' /\ Visible' <= Len(content)
      /\ written' = written => Visible' = Visible
      /\ Len(content) \in Nat
  BY <1>0, VisibleGrows, Records DEF Types
<1>3. UNCHANGED <<pc, result, got>> => UNCHANGED <<NextRecord, Place, result, got>>
  BY DEF NextRecord, Place, Judged
<1>4. CASE Write
  <2>1. UNCHANGED <<NextRecord, Place, result, got>>
    BY <1>3, <1>4 DEF Write
  <2>2. Len(AsRecords(content)) = Len(content) \/ Len(content) = 0
    BY <1>0, <1>2, AsRecord DEF Types
  <2>3. CASE Visible' = Visible
    BY <1>1, <2>1, <2>3, StreamActions
  <2>4. CASE Visible' # Visible
    <3>1. Visible < Len(content) /\ Visible' \in Visible + 1 .. Len(content)
          /\ Len(AsRecords(content)) = Len(content)
      BY <1>2, <2>2, <2>4
    <3> QED
      BY <1>1, <2>1, <3>1, StreamActions
  <2> QED
    BY <2>3, <2>4
<1>5. CASE ReadError
  <2>1. /\ MayFail /\ pc = "read" /\ pc' = "result" /\ written' = written
        /\ result' = [rec |-> 0, status |-> "fatal"] /\ got' = got
    BY <1>5 DEF ReadError, Send
  <2>2. NextRecord' = NextRecord
    <3>1. result.rec = 0 /\ result'.rec = 0 /\ Judged' = Judged
      BY <1>0, <2>1 DEF Results, Judged
    <3> QED
      BY <3>1 DEF NextRecord
  <2>3. Place = "read" /\ Place' = "result"
    BY <2>1 DEF Place
  <2> QED
    BY <1>1, <1>2, <2>1, <2>2, <2>3, StreamActions
<1>6. ASSUME NEW action \in {"Resume", "Abort"}, WakeUp(action)
      PROVE  Stream!WakeUp("file", action)
  <2>1. /\ pc = "wait" /\ pc' = IF action = "Resume" THEN "read" ELSE "dead"
        /\ UNCHANGED <<written, result, got>>
    BY <1>6 DEF WakeUp
  <2>2. NextRecord' = NextRecord
    BY <2>1 DEF NextRecord, Judged
  <2>3. Place = "wait" /\ Place' = IF action = "Resume" THEN "read" ELSE "dead"
    BY <2>1 DEF Place
  <2> QED
    BY <1>1, <1>2, <2>1, <2>2, <2>3, StreamActions
<1>7. CASE TakeAsleep
  <2>1. /\ pc = "sleep" /\ pc' = "wait" /\ UNCHANGED <<written, result, got>>
    BY <1>7 DEF TakeAsleep
  <2>2. NextRecord' = NextRecord
    BY <2>1 DEF NextRecord, Judged
  <2>3. Place = "sleep" /\ Place' = "wait"
    BY <2>1 DEF Place
  <2> QED
    BY <1>1, <1>2, <2>1, <2>2, <2>3, StreamActions
<1>8. CASE TakeResult
  <2> DEFINE t == Append(got, result)
  <2>1. /\ pc = "result" /\ got' = t /\ result' = [rec |-> 0, status |-> "none"]
        /\ pc' = IF result.status = "fatal" THEN "dead" ELSE "read"
        /\ written' = written
    BY <1>8 DEF TakeResult
  <2>2. /\ t \in Seq(EventResult) /\ Len(t) = Len(got) + 1 /\ t[Len(got) + 1] = result
        /\ \A k \in 1 .. Len(got) : t[k] = got[k]
    <3>1. got \in Seq(EventResult) /\ result \in EventResult
      BY <1>0 DEF Types
    <3> QED
      BY <3>1, AppendProperties
  <2> HIDE DEF t
  <2>3. DOMAIN t = 1 .. Len(got) + 1
    BY <2>2, LenProperties
  <2>4. Judged = 1 .. Len(got) /\ Cardinality(Judged) = Len(got)
    BY <1>0, <2>1, JudgedRecords
  <2>5. /\ result.rec = 0 \/ (result.rec = Len(got) + 1 /\ result.rec > 0)
        /\ \A k \in 1 .. Len(got) : got[k].rec > 0
    BY <1>0, <2>1 DEF Results
  <2>6. NextRecord' = NextRecord
    <3>1. CASE result.rec = 0
      <4>1. {k \in DOMAIN t : t[k].rec > 0} = 1 .. Len(got)
        BY <1>0, <2>2, <2>3, <2>5, <3>1
      <4>2. Judged' = Judged
        BY <2>1, <2>4, <4>1 DEF Judged
      <4> QED
        BY <2>1, <3>1, <4>2 DEF NextRecord
    <3>2. CASE result.rec > 0
      <4>1. {k \in DOMAIN t : t[k].rec > 0} = 1 .. Len(got) + 1
        BY <1>0, <2>2, <2>3, <2>5, <3>2
      <4>2. Judged' = 1 .. Len(got) + 1
        BY <2>1, <4>1 DEF Judged
      <4>3. Cardinality(1 .. Len(got) + 1) = Len(got) + 1
        <5>1. 1 \in Int /\ Len(got) + 1 \in Int
          BY <1>0
        <5>2. Cardinality(1 .. Len(got) + 1) =
                IF 1 > Len(got) + 1 THEN 0 ELSE (Len(got) + 1) - 1 + 1
          BY <5>1, FS_Interval
        <5> QED
          BY <1>0, <5>2
      <4>4. NextRecord = Len(got) + 2
        BY <1>0, <2>4, <3>2 DEF NextRecord
      <4>5. NextRecord' = 1 + (Len(got) + 1) + 0
        BY <2>1, <4>2, <4>3 DEF NextRecord
      <4> QED
        BY <1>0, <4>4, <4>5
    <3> QED
      BY <2>5, <3>1, <3>2
  <2>7. Place = "result" /\ Place' = IF result.status = "fatal" THEN "dead" ELSE "read"
    BY <2>1 DEF Place
  <2>8. got' = Append(got, result)
    BY <2>1 DEF t
  <2> QED
    BY <1>1, <1>2, <2>1, <2>6, <2>7, <2>8, StreamActions
<1>9. CASE UNCHANGED vars
  BY <1>2, <1>3, <1>9, StreamActions DEF vars
<1> QED
  BY <1>4, <1>5, <1>6, <1>7, <1>8, <1>9, Zenon DEF Next, Goroutine, Owner

(***************************************************************************)
(* The owner of an event file's reader gets from it what EventStream       *)
(* promises, whatever the sizes of the pieces in which the file grows and  *)
(* whenever the reader is woken.                                           *)
(***************************************************************************)
THEOREM Refinement == Spec => ImplementsEventStream
<1>1. Init => Stream!StreamInit
  <2> SUFFICES ASSUME Init
               PROVE  Stream!StreamInit
    OBVIOUS
  <2>1. IInv /\ content \in Contents /\ written = 0 /\ pc = "wait" /\ got = <<>>
        /\ result = [rec |-> 0, status |-> "none"]
    BY IInvInit DEF Init
  <2>2. Visible = 0
    <3>1. ASSUME NEW i \in DOMAIN content
          PROVE  ~Judgeable(i)
      <4>1. i \in 1 .. Len(content)
        BY <2>1, Records
      <4>2. /\ EndOf(i - 1) \in Nat /\ RoomFor(i) \in Nat
            /\ HeaderLength \in Nat /\ HeaderLength > 0
        BY <2>1, <4>1, Ends, RoomInRecord, FormatAssumption
      <4> QED
        BY <2>1, <4>2 DEF Judgeable
    <3>2. {i \in DOMAIN content : Judgeable(i)} = {}
      BY <3>1
    <3> QED
      BY <3>2, FS_EmptySet DEF Visible
  <2>3. NextRecord = 1
    <3>1. Judged = {}
      BY <2>1, EmptySeq DEF Judged
    <3> QED
      BY <2>1, <3>1, FS_EmptySet DEF NextRecord
  <2>4. [f \in {"file"} |-> AsRecords(content)] \in {[f \in {"file"} |-> AsRecords(c)] : c \in Contents}
    BY <2>1
  <2> QED
    BY <2>1, <2>2, <2>3, <2>4
       DEF Stream!StreamInit, Stream!NoResult, Visible, NextRecord
<1>2. IInv /\ IInv' /\ [Next]_vars => [Stream!StreamNext]_(Stream!streamVars)
  BY HeaderRefines, BodyRefines, OthersRefine, Zenon DEF Stream!StreamNext
<1> QED
  BY <1>1, <1>2, Inductive, PTL DEF Spec, ImplementsEventStream, Stream!StreamSpec
===============================================================================
