------------------------------- MODULE BlobKey -------------------------------
(***************************************************************************)
(* The keys under which blobs are served (server/blobkey.go).  On the wire *)
(* a key is an array in JSON: three strings, in base64 so that any bytes   *)
(* survive, and two integers, which are written exactly but read back as   *)
(* the nearest float64.                                                    *)
(***************************************************************************)
EXTENDS Integers

CONSTANTS FloatBits,  \* the precision of a float64: 53 bits
          IntBits     \* the width of an int64: 64 bits

ASSUME BlobKeyAssumption ==
  FloatBits \in Nat /\ IntBits \in Nat /\ FloatBits > 1 /\ IntBits > FloatBits

MinInt == -(2 ^ (IntBits - 1))
MaxInt == 2 ^ (IntBits - 1) - 1

\* Up to here every integer is a float64.
MaxExact == 2 ^ FloatBits

\* The distance between float64s at the magnitude a.
Spacing(a) ==
  IF a < MaxExact THEN 1
  ELSE 2 ^ (CHOOSE e \in 1 .. IntBits :
              MaxExact * 2 ^ (e - 1) <= a /\ a < MaxExact * 2 ^ e)

\* json.Unmarshal: the nearest float64, and between two the even one.
Round(a) ==
  LET gap == Spacing(a)
      low == a \div gap
      rest == a % gap
  IN  gap * (IF 2 * rest > gap \/ (2 * rest = gap /\ low % 2 = 1) THEN low + 1 ELSE low)
ToFloat(n) == IF n < 0 THEN -Round(-n) ELSE Round(n)

\* int64(f), of a float64 with no fraction: out of range it depends on the CPU.
ToInt64(f) == IF MinInt <= f /\ f <= MaxInt THEN {f} ELSE {MinInt, MaxInt}

\* Mutant of DecodeWireInt64: the float64 is the integer.
DecodeWireInt64Unchecked(n) == {<<ToFloat(n)>>}

(***************************************************************************)
(* decodeWireInt64, of the integer n: what it may return, an empty         *)
(* sequence being an error.  The conversion is checked by converting back. *)
(***************************************************************************)
DecodeWireInt64(n) ==
  {IF ToFloat(i) = ToFloat(n) THEN <<i>> ELSE <<>> : i \in ToInt64(ToFloat(n))}

Encode(bk) == <<bk.run, bk.tag, bk.step, bk.index>>

\* What decodeBlobKey may make of a key; the experiment's name goes unused.
Decode(wire) ==
  {IF step = <<>> \/ index = <<>> THEN <<>>
   ELSE <<[run |-> wire[1], tag |-> wire[2], step |-> step[1], index |-> index[1]]>> :
     step \in DecodeWireInt64(wire[3]), index \in DecodeWireInt64(wire[4])}
=============================================================================
