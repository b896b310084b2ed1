-------------------------------- MODULE GoMap --------------------------------
(***************************************************************************)
(* Assignments to a map of the Go language; a map is a function from its   *)
(* keys.                                                                   *)
(***************************************************************************)

\* m[k] = x
Put(m, k, x) == [q \in DOMAIN m \cup {k} |-> IF q = k THEN x ELSE m[q]]

\* if _, ok := m[k]; !ok { m[k] = x }
PutNew(m, k, x) == IF k \in DOMAIN m THEN m ELSE Put(m, k, x)

\* for k, x := range n { m[k] = x }
PutAll(m, n) ==
  [q \in DOMAIN m \cup DOMAIN n |-> IF q \in DOMAIN n THEN n[q] ELSE m[q]]
=============================================================================
