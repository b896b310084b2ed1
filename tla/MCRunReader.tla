------------------------------ MODULE MCRunReader ------------------------------
(* Bounds for TLC: two event files of two records each.                     *)
EXTENDS RunReader

MCFiles == {1, 2}

Val(tag, what, plugin) ==
  [tag |-> tag, what |-> what, data |-> IF what = "tensor" THEN NoTensor ELSE 0,
   meta |-> IF plugin = "" THEN NoMeta ELSE [plugin |-> plugin, class |-> ""]]
Event(values) == [kind |-> "event", values |-> values]
Bad(kind) == [kind |-> kind, values |-> <<>>]

\* Tag a gets its metadata from whichever file is read first; b has none.
First == Event(<<Val("a", "simple", ""), Val("b", "tensor", "")>>)
Second == Event(<<Val("a", "tensor", "images")>>)

MCContents ==
  {[f \in MCFiles |-> IF f = 1 THEN <<Bad("badData"), First>>
                      ELSE <<Second, Event(<<Val("b", "simple", ""), Val("a", "graph", "")>>)>>],
   [f \in MCFiles |-> IF f = 1 THEN <<First, Bad("badLength")>> ELSE <<Second>>]}

\* The second reload meets the corrupt length.
MCFatalContents ==
  {[f \in MCFiles |-> IF f = 1 THEN <<First, Bad("badLength")>> ELSE <<Second>>]}
=============================================================================
