---------------------------- MODULE MCTaskQueue ----------------------------
(***************************************************************************)
(* TaskQueue on small instances.                                           *)
(***************************************************************************)
EXTENDS TaskQueue, TLC

CONSTANTS p1, p2, a, b

TwoPaths  == {p1, p2}
TwoChunks == {a, b}

Nodes == {NoFile, File(<<a, b>>), File(<<>>), Folder, FullFolder}

\* A file of two chunks, and anything at the other path.
ManyDisks == {[p \in Path |-> IF p = p1 THEN n ELSE File(<<b, a>>)] : n \in Nodes}

\* Two different files of two chunks.
FullDisk == {[p \in Path |-> IF p = p1 THEN File(<<a, b>>) ELSE File(<<b, a>>)]}

NullOnly == {NullOp}
AnyHeap  == {NullOp, GarbageOp}

NoFaults == {}
\* What may go wrong without losing data: everything that is reported.
ReportedFaults == {"refuse", "nomem", "stat", "write", "remove"}
ReadFault == {"read"}
=============================================================================
