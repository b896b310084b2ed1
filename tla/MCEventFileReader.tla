-------------------------- MODULE MCEventFileReader --------------------------
(***************************************************************************)
(* Bounds for TLC: headers and footers of two bytes, so that a length can  *)
(* wrap and leave room for a part of the footer.                           *)
(***************************************************************************)
EXTENDS EventFileReader

Rec(kind, len) == [kind |-> kind, len |-> len]
MCKinds == {"event", "badData", "badLength"}

\* Every file of three records; the middle one has no data.
MCRecords ==
  {<<Rec(k1, 1), Rec(k2, 0), Rec(k3, 2)>> : k1, k2, k3 \in MCKinds}

\* Files whose second record has any length that the field can express.
MCLengths == {<<Rec("event", 1), Rec("event", n)>> : n \in 0 .. 15}

MCContents == MCRecords \cup MCLengths
=============================================================================
