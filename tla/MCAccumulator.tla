----------------------------- MODULE MCAccumulator -----------------------------
(* Bounds for TLC: two handlers, three tags, at most five values.           *)
EXTENDS Accumulator

Event(step, values) == [kind |-> "event", step |-> step, values |-> values]
Error == [kind |-> "error"]
Val(tag, what, written, plugin) ==
  [tag |-> tag, what |-> what, data |-> written,
   meta |-> IF plugin = "" THEN NoMeta ELSE [plugin |-> plugin, class |-> ""]]
Strings == [dtype |-> "string", dims |-> <<1>>, vals |-> <<<<>>>>]

\* The jth count is 20 + j, the jth limit 10 + j.
Histogram(counts, limits) ==
  Val("b", "histo", [min |-> 0, max |-> 99, counts |-> [j \in 1 .. counts |-> 20 + j],
                     limits |-> [j \in 1 .. limits |-> 10 + j]], "")

A(step) == Event(step, <<Val("a", "simple", 7, "")>>)
AB(step) == Event(step, <<Val("a", "tensor", Strings, "images"),
                          Val("b", "tensor", Strings, "")>>)
B(step) == Event(step, <<Histogram(2, 2)>>)
Others == Event(0, <<Val("a", "image", [width |-> 2, height |-> 1, encoded |-> <<5>>], ""),
                     Val("b", "graph", <<6>>, "")>>)

\* Restarts (a step that comes again), an overflow, and a tag b without
\* metadata; and histograms of different sizes.
MCStreams ==
  {<<A(1), A(2), A(3), A(2)>>, <<AB(1), Error, B(2), A(1)>>,
   <<B(2), AB(2), A(3)>>, <<Error, A(1), A(1), B(0)>>, <<Others>>}
  \cup {<<Event(1, <<Histogram(size[1], size[2])>>)>> :
           size \in {<<0, 1>>, <<1, 1>>, <<3, 2>>, <<2, 3>>, <<3, 3>>}}

\* The code's 1000, 100 and 10.
MCCapacityOf(class) == IF class = "scalar" THEN 2 ELSE 1
=============================================================================
