-------------------------------- MODULE MCApp --------------------------------
(***************************************************************************)
(* App on small instances.                                                 *)
(***************************************************************************)
EXTENDS App, TLC

CONSTANTS p1, p2, a, b

TwoPaths  == {p1, p2}
TwoChunks == {a, b}
OneUrl    == {p1}

Holding(data) == [kind |-> "file", data |-> data]

\* A file of two chunks, and anything at the other path.
ManyDisks ==
  {[p \in TwoPaths |-> IF p = p1 THEN Holding(<<a, b>>) ELSE n] :
     n \in {Holding(<<b, a>>), Holding(<<>>)} \cup
           [kind : {"none", "dir", "full"}, data : {<<>>}]}

OneDisk == {[p \in TwoPaths |-> Holding(<<a, b>>)]}

\* A new task's op_ctx is null.
NullOnly == {[st |-> "null", pos |-> 0, total |-> 0]}

NoFaults == {}
ReportedFaults == {"refuse", "nomem", "stat", "write", "remove"}
=============================================================================
