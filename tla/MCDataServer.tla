----------------------------- MODULE MCDataServer -----------------------------
(***************************************************************************)
(* Bounds for TLC: a log directory with a root run and one below it.       *)
(*                                                                         *)
(* A scenario says what the nth incarnation of each directory logs, and    *)
(* which calls are made, in this order.                                    *)
(***************************************************************************)
EXTENDS DataServer

MCLogdir == <<"/", "logs">>
Train == MCLogdir \o <<"train">>
MCDirs == {MCLogdir, Train}

Event(step, tag, what, written) ==
  [step |-> step,
   value |-> [tag |-> tag, what |-> what, data |-> written, meta |-> NoMeta]]
Scalar(step) == Event(step, "a", "simple", 7)
Image(step) == Event(step, "a", "image", [width |-> 1, height |-> 0, encoded |-> <<4, 5, 6>>])
Graph == Event(0, "__run_graph__", "graph", <<9, 9>>)
Histogram(step) ==
  Event(step, "a", "histo", [min |-> 0, max |-> 3, counts |-> <<1>>, limits |-> <<2>>])
Audio(step) == Event(step, "a", "audio", 0)

\* Strings of the new format, one fewer of them than its shape says.
Strings2(step) ==
  [step |-> step,
   value |-> [tag |-> "a", what |-> "tensor",
              meta |-> [plugin |-> "images", class |-> ""],
              data |-> [dtype |-> "string", dims |-> <<2>>, vals |-> <<<<8>>>>]]]
Shapeless(step) == [Strings2(step) EXCEPT !.value.data.dims = <<-1>>]

Nil == <<>>
Only(x) == <<{x}>>
Call(op, class, runs, tags, points) ==
  [op |-> op, class |-> class, runs |-> runs, tags |-> tags, points |-> points,
   plugin |-> ("scalar" :> "scalars" @@ "tensor" :> "histograms" @@ "blobs" :> "images")[class]]
List(class) == Call("List", class, Nil, Nil, 0)
Read(class, points) == Call("Read", class, Nil, Nil, points)

Graphs(op) == [Call(op, "blobs", Nil, Nil, 0) EXCEPT !.plugin = "graphs"]
Blob == [op |-> "ReadBlob"]

\* The root run, and what the run below it logs at first, and made again.
Logged(root, train, again) ==
  [d \in MCDirs |-> IF d = Train THEN <<train, again>> ELSE <<root, root>>]
Asks(logged, requests) == [logged |-> logged, requests |-> requests]

MCListRuns ==
  {Asks(Logged(<<>>, <<>>, <<>>), <<[op |-> "ListRuns"], [op |-> "ListRuns"]>>)}
MCScenarios == MCListRuns \cup
  { \* a restart and an overflow
    Asks(Logged(<<Scalar(1)>>, <<Scalar(1), Scalar(2), Scalar(1)>>, <<Scalar(2)>>),
         <<List("scalar"), Call("Read", "scalar", Only(<<"train">>), Nil, 1)>>),
    \* steps that are no float64s, a step that comes again, a string that is missing
    Asks(Logged(<<>>, <<Image(2), Image(5), Image(4)>>, <<Strings2(4), Image(7)>>),
         <<Read("blobs", 1), Blob>>),
    Asks(Logged(<<>>, <<Graph>>, <<Graph>>), <<Graphs("List"), Graphs("Read"), Blob>>),
    \* filters for nothing, no points at all, and fewer than none
    Asks(Logged(<<>>, <<Histogram(1), Histogram(2)>>, <<>>),
         <<Call("List", "tensor", Nil, <<{}>>, 0), Read("tensor", 0), Read("tensor", -1)>>),
    \* values of two kinds in one series
    Asks(Logged(<<>>, <<Image(1), Scalar(2)>>, <<Shapeless(1)>>),
         <<List("blobs"), Read("blobs", 2)>>),
    Asks(Logged(<<>>, <<Scalar(1), Audio(2)>>, <<Audio(1), Scalar(1)>>), <<List("scalar"), Read("scalar", 2)>>) }

MCMixed ==
  {Asks(Logged(<<>>, <<Image(1), Scalar(2)>>, <<>>), <<List("blobs"), Read("blobs", 2)>>)}
\* The code's 1000, 100 and 10.
MCCapacityOf(class) == IF class = "tensor" THEN 1 ELSE 2
=============================================================================
