-------------------------- MODULE TaskQueueProofs --------------------------
(***************************************************************************)
(* What module TaskQueue guarantees for every set of paths and chunks,     *)
(* every initial card, every number of tasks and every set of faults.      *)
(***************************************************************************)
EXTENDS TaskQueue, Integers, WellFoundedInduction, TLAPS

-----------------------------------------------------------------------------
(* Lemmas on the list and on the percentage.                               *)

\* The head of a non-empty list, and what is left without it.
LEMMA HeadTail ==
  ASSUME NEW S, NEW s \in Seq(S), s # <<>>
  PROVE  /\ Head(s) = s[1]
         /\ Head(s) \in S
         /\ Len(s) \in Nat /\ Len(s) >= 1
         /\ Tail(s) \in Seq(S)
         /\ Len(Tail(s)) = Len(s) - 1
         /\ \A i \in 1 .. Len(s) - 1 : Tail(s)[i] = s[i + 1]
  OBVIOUS

\* Replacing the head keeps the rest.
LEMMA ReplaceHead ==
  ASSUME NEW S, NEW s \in Seq(S), s # <<>>, NEW x \in S
  PROVE  /\ [s EXCEPT ![1] = x] \in Seq(S)
         /\ [s EXCEPT ![1] = x] # <<>>
         /\ Len([s EXCEPT ![1] = x]) = Len(s)
         /\ [s EXCEPT ![1] = x][1] = x
         /\ Head([s EXCEPT ![1] = x]) = x
         /\ \A i \in 2 .. Len(s) : [s EXCEPT ![1] = x][i] = s[i]
  OBVIOUS

\* A count of at most total makes at most a hundred percent.
LEMMA PercentBound ==
  ASSUME NEW p \in Nat, NEW total \in Nat, total = 0 \/ p <= total
  PROVE  Percent(p, total) \in 0 .. 100
<1>1. CASE total = 0
  BY <1>1 DEF Percent
<1>2. CASE total > 0 /\ p <= total
  <2>1. p * 100 <= 100 * total
    BY <1>2
  <2>2. (p * 100) \div total \in Int /\ (p * 100) \div total >= 0
    BY <1>2
  <2>3. ((p * 100) \div total) * total <= p * 100
    BY <1>2
  <2>4. (p * 100) \div total <= 100
    BY <1>2, <2>1, <2>2, <2>3
  <2> QED
    BY <1>2, <2>2, <2>4 DEF Percent
<1> QED
  BY <1>1, <1>2

-----------------------------------------------------------------------------
(* The inductive invariant: the types, that only the head holds an open    *)
(* copy, and that the destination of that copy is the prefix it counted.   *)
(* None of the last two is inductive without the other: a copy that ends   *)
(* leaves no open handles behind only because no other task has any, and   *)
(* the chunk that is written extends the prefix only because it was one.   *)

IInv == TypeOK /\ OneOpenCopy /\ CopiedPrefix

LEMMA InitIInv == Init => IInv
  BY ConstantsAssumption
  DEF Init, IInv, TypeOK, OneOpenCopy, CopiedPrefix

\* What a path holds carries a sequence of chunks, empty unless it is a file.
LEMMA NodeData ==
  ASSUME NEW n \in Node
  PROVE  /\ n.data \in Seq(Chunk)
         /\ n.kind = "file" => n = File(n.data)
<1>1. CASE n \in [kind : {"file"}, data : Seq(Chunk)]
  BY <1>1 DEF File
<1>2. CASE n \in [kind : {"none", "dir", "full"}, data : {<<>>}]
  <2>1. n.data = <<>> /\ n.kind # "file"
    BY <1>2
  <2>2. <<>> \in Seq(Chunk)
    OBVIOUS
  <2> QED
    BY <2>1, <2>2
<1> QED
  BY <1>1, <1>2 DEF Node

\* A file of chunks is a node.
LEMMA FileNode ==
  ASSUME NEW d \in Seq(Chunk)
  PROVE  File(d) \in Node /\ File(d).kind = "file" /\ File(d).data = d
  BY DEF File, Node

\* The fields of the head.
LEMMA HeadFields ==
  ASSUME TypeOK, queue # <<>>, NEW t, t = Head(queue)
  PROVE  /\ t \in Task /\ t = queue[1]
         /\ t.id \in 1 .. MaxTasks /\ t.src \in Path /\ t.dst \in Path
         /\ t.op \in Op /\ t.op.pos \in Nat /\ t.op.total \in Nat
         /\ t.op.st # "live" => t.op.pos = 0
<1>1. t \in Task /\ t = queue[1]
  BY HeadTail DEF TypeOK
<1>2. t.op \in Op
  BY <1>1 DEF Task
<1>3. /\ t.op.pos \in Nat /\ t.op.total \in Nat
      /\ t.op.st # "live" => t.op.pos = 0
  BY <1>2 DEF Op, NullOp, GarbageOp
<1> QED
  BY <1>1, <1>2, <1>3 DEF Task

\* The disk during a step of the head has its type, and the source and the
\* destination it works on are files.
LEMMA OpenedDisk ==
  ASSUME IInv, queue # <<>>, NEW t, t = Head(queue), CanStep(t)
  PROVE  /\ Opened(t) \in [Path -> Node]
         /\ Source(t) \in Seq(Chunk)
         /\ Opened(t)[t.dst].kind = "file"
         /\ Opened(t)[t.dst].data \in Seq(Chunk)
<1>1. t.src \in Path /\ t.dst \in Path
  BY HeadFields DEF IInv
<1>2. disk \in [Path -> Node]
  BY DEF IInv, TypeOK
<1>3. File(<<>>) \in Node /\ File(<<>>).kind = "file"
  <2>1. <<>> \in Seq(Chunk)
    OBVIOUS
  <2> QED
    BY <2>1, FileNode
<1>4. /\ Opened(t) \in [Path -> Node]
      /\ Opened(t)[t.dst].kind = "file"
  <2>1. CASE t.op.st = "live"
    <3>1. disk[t.dst].kind = "file"
      BY <2>1 DEF IInv, CopiedPrefix, File
    <3> QED
      BY <2>1, <3>1, <1>2 DEF Opened
  <2>2. CASE t.op.st # "live"
    BY <2>2, <1>1, <1>2, <1>3 DEF Opened
  <2> QED
    BY <2>1, <2>2
<1>5. Opened(t)[t.src] \in Node /\ Opened(t)[t.dst] \in Node
  BY <1>1, <1>4
<1> QED
  BY <1>4, <1>5, NodeData DEF Source

\* Whatever a retiring task did to the card, the invariant survives: the
\* handles it may have held were the only ones open.
LEMMA RetireKeepsIInv ==
  ASSUME IInv, Serving, Retire(Head(queue)), disk' \in [Path -> Node]
  PROVE  IInv'
<1>1. /\ queue # <<>> /\ queue \in Seq(Task) /\ app # "exited"
  BY DEF IInv, TypeOK, Serving
<1>2. TypeOK'
  BY <1>1, HeadTail DEF IInv, TypeOK, Retire
<1>3. \A i \in 1 .. Len(queue') : queue'[i].op.st # "live"
  <2> TAKE i \in 1 .. Len(queue')
  <2>1. i + 1 \in 2 .. Len(queue) /\ queue'[i] = queue[i + 1]
    BY <1>1, HeadTail DEF Retire
  <2> QED
    BY <2>1 DEF IInv, OneOpenCopy
<1>4. handles' = {}
  <2>1. handles = {queue[i].id : i \in {j \in 1 .. Len(queue) :
                                         queue[j].op.st = "live"}}
    BY <1>1 DEF IInv, OneOpenCopy
  <2>2. \A j \in 1 .. Len(queue) : queue[j].op.st = "live" => j = 1
    BY <1>1 DEF IInv, OneOpenCopy
  <2>3. handles \subseteq {queue[1].id}
    BY <2>1, <2>2
  <2> QED
    BY <2>3, <1>1, HeadTail DEF Retire
<1>5. OneOpenCopy'
  <2>1. \A i \in 2 .. Len(queue') : queue'[i].op.st # "live"
    BY <1>3
  <2>2. {queue'[i].id : i \in {j \in 1 .. Len(queue') :
                               queue'[j].op.st = "live"}} = {}
    BY <1>3
  <2> QED
    BY <2>1, <2>2, <1>4 DEF OneOpenCopy
<1>6. CopiedPrefix'
  <2>1. queue' # <<>> => Head(queue').op.st # "live"
    BY <1>2, <1>3, HeadTail DEF TypeOK
  <2> QED
    BY <2>1 DEF CopiedPrefix
<1> QED
  BY <1>2, <1>5, <1>6 DEF IInv

\* One more element of a sequence.
LEMMA ExtendPrefix ==
  ASSUME NEW S, NEW s \in Seq(S), NEW n \in Nat, n < Len(s)
  PROVE  /\ s[n + 1] \in S
         /\ SubSeq(s, 1, n) \in Seq(S)
         /\ Append(SubSeq(s, 1, n), s[n + 1]) = SubSeq(s, 1, n + 1)
<1>1. SubSeq(s, 1, n) \in Seq(S) /\ Len(SubSeq(s, 1, n)) = n
  OBVIOUS
<1>2. SubSeq(s, 1, n + 1) \in Seq(S) /\ Len(SubSeq(s, 1, n + 1)) = n + 1
  OBVIOUS
<1>3. /\ Append(SubSeq(s, 1, n), s[n + 1]) \in Seq(S)
      /\ Len(Append(SubSeq(s, 1, n), s[n + 1])) = n + 1
  BY <1>1
<1>4. ASSUME NEW i \in 1 .. n + 1
      PROVE  Append(SubSeq(s, 1, n), s[n + 1])[i] = SubSeq(s, 1, n + 1)[i]
  BY <1>1, <1>2
<1> QED
  BY <1>1, <1>2, <1>3, <1>4

\* A head that can move a chunk works on two different files: its source is
\* as it was, and its destination holds the chunks counted so far.
LEMMA SteppingHead ==
  ASSUME IInv, queue # <<>>, NEW t, t = Head(queue), CanStep(t),
         t.op.pos < Len(Source(t))
  PROVE  /\ t.src # t.dst
         /\ disk[t.src].kind = "file"
         /\ Opened(t)[t.src] = disk[t.src]
         /\ Source(t) = disk[t.src].data
         /\ Opened(t)[t.dst].data = SubSeq(Source(t), 1, t.op.pos)
         /\ \A total \in Totals(t) : total \in {0, Len(Source(t))}
<1>1. t.src \in Path /\ t.dst \in Path /\ disk \in [Path -> Node]
  BY HeadFields DEF IInv, TypeOK
<1>2. CASE t.op.st = "live"
  <2>1. Opened(t) = disk
    BY <1>2 DEF Opened
  <2>2. Source(t) = disk[t.src].data
    BY <2>1 DEF Source
  <2>3. disk[t.dst].data = SubSeq(disk[t.src].data, 1, t.op.pos)
    BY <1>2 DEF IInv, CopiedPrefix, File
  <2>4. Totals(t) = {t.op.total}
    BY <1>2 DEF Totals
  <2> QED
    BY <1>2, <2>1, <2>2, <2>3, <2>4 DEF IInv, CopiedPrefix
<1>3. CASE t.op.st # "live"
  <2>1. Opened(t) = [disk EXCEPT ![t.dst] = File(<<>>)]
    BY <1>3 DEF Opened
  <2>2. Opened(t)[t.dst].data = <<>>
    BY <2>1, <1>1 DEF File
  <2>3. t.op.pos = 0
    BY <1>3, HeadFields DEF IInv
  <2>4. t.src # t.dst
    BY <2>2, <2>3 DEF Source
  <2>5. Opened(t)[t.src] = disk[t.src]
    BY <2>1, <2>4, <1>1
  <2>6. disk[t.src].kind = "file"
    BY <1>3 DEF CanStep, Readable
  <2>7. Source(t) = disk[t.src].data
    BY <2>5 DEF Source
  <2>8. SubSeq(Source(t), 1, 0) = <<>>
    <3>1. Source(t) \in Seq(Chunk)
      BY OpenedDisk
    <3> QED
      BY <3>1
  <2>9. \A total \in Totals(t) : total \in {0, Len(Source(t))}
    BY <1>3 DEF Totals
  <2> QED
    BY <2>2, <2>3, <2>4, <2>5, <2>6, <2>7, <2>8, <2>9
<1> QED
  BY <1>2, <1>3

LEMMA CopyChunkKeepsIInv ==
  ASSUME IInv, CopyChunk
  PROVE  IInv'
<1> DEFINE t == Head(queue)
           d == Source(t)
           p == t.op.pos
<1>1. /\ queue # <<>> /\ queue \in Seq(Task) /\ app = "running"
      /\ CanStep(t) /\ Transfers(t) /\ p < Len(d)
  BY DEF IInv, TypeOK, CopyChunk, Serving
<1>2. PICK total \in Totals(t) :
        queue' = [queue EXCEPT ![1] =
                   [t EXCEPT !.err = FALSE,
                             !.progress = Percent(p + 1, total),
                             !.op = LiveOp(p + 1, total)]]
  BY Zenon DEF CopyChunk
<1>3. disk' = Written(t) /\ handles' = handles \cup {t.id}
      /\ added' = added /\ app' = app
  BY DEF CopyChunk
<1>4. /\ t \in Task /\ t.src \in Path /\ t.dst \in Path /\ p \in Nat
      /\ t.id \in 1 .. MaxTasks
  BY <1>1, HeadFields DEF IInv
<1>5. d \in Seq(Chunk) /\ Opened(t) \in [Path -> Node]
  BY <1>1, OpenedDisk
<1>6. /\ t.src # t.dst /\ disk[t.src].kind = "file"
      /\ Opened(t)[t.src] = disk[t.src] /\ d = disk[t.src].data
      /\ Opened(t)[t.dst].data = SubSeq(d, 1, p)
      /\ total \in {0, Len(d)}
  BY <1>1, <1>2, SteppingHead
<1>7. /\ SubSeq(d, 1, p + 1) \in Seq(Chunk)
      /\ disk' = [Opened(t) EXCEPT ![t.dst] = File(SubSeq(d, 1, p + 1))]
  <2>1. /\ Append(SubSeq(d, 1, p), d[p + 1]) = SubSeq(d, 1, p + 1)
        /\ d[p + 1] \in Chunk /\ SubSeq(d, 1, p) \in Seq(Chunk)
    BY <1>1, <1>4, <1>5, ExtendPrefix
  <2>2. Append(SubSeq(d, 1, p), d[p + 1]) \in Seq(Chunk)
    BY <2>1
  <2> QED
    BY <2>1, <2>2, <1>3, <1>6 DEF Written
<1>8. disk' \in [Path -> Node]
  BY <1>4, <1>5, <1>7, FileNode
<1> DEFINE u == [t EXCEPT !.err = FALSE,
                          !.progress = Percent(p + 1, total),
                          !.op = LiveOp(p + 1, total)]
<1>9. total \in Nat /\ Len(d) \in Nat /\ p + 1 \in 1 .. Len(d)
  BY <1>1, <1>4, <1>5, <1>6
<1>10. Percent(p + 1, total) \in 0 .. 100
  <2>1. p + 1 \in Nat /\ (total = 0 \/ p + 1 <= total)
    BY <1>4, <1>6, <1>9
  <2> HIDE DEF p, d
  <2> QED
    BY <2>1, <1>9, PercentBound
<1>11. LiveOp(p + 1, total) \in Op
  BY <1>4, <1>9 DEF LiveOp, Op
<1>12. /\ u \in Task /\ u.id = t.id /\ u.type = t.type
       /\ u.src = t.src /\ u.dst = t.dst
       /\ u.op.st = "live" /\ u.op.pos = p + 1 /\ u.op.total = total
  BY <1>4, <1>10, <1>11 DEF Task, LiveOp
<1>20. queue' = [queue EXCEPT ![1] = u]
  BY <1>2
<1> HIDE DEF u, p, d
<1>13. /\ queue' \in Seq(Task) /\ queue' # <<>> /\ Len(queue') = Len(queue)
       /\ queue'[1] = u /\ Head(queue') = u
       /\ \A i \in 2 .. Len(queue) : queue'[i] = queue[i]
  BY <1>1, <1>20, <1>12, ReplaceHead
<1>14. TypeOK'
  BY <1>3, <1>4, <1>8, <1>13 DEF IInv, TypeOK
<1>15. OneOpenCopy'
  <2>1. \A i \in 2 .. Len(queue') : queue'[i].op.st # "live"
    BY <1>13 DEF IInv, OneOpenCopy
  <2>2. Len(queue') \in Nat /\ Len(queue') >= 1
    BY <1>13, HeadTail
  <2>3. {j \in 1 .. Len(queue') : queue'[j].op.st = "live"} = {1}
    BY <2>1, <2>2, <1>12, <1>13
  <2>4. handles \subseteq {t.id}
    <3>1. \A j \in 1 .. Len(queue) : queue[j].op.st = "live" => j = 1
      BY <1>1, HeadTail DEF IInv, OneOpenCopy
    <3>2. t = queue[1]
      BY <1>1, HeadFields DEF IInv
    <3> QED
      BY <1>1, <3>1, <3>2 DEF IInv, OneOpenCopy
  <2>5. handles' = {queue'[i].id : i \in {1}}
    BY <2>4, <1>3, <1>12, <1>13
  <2> QED
    BY <2>1, <2>3, <2>5 DEF OneOpenCopy
<1>16. CopiedPrefix'
  <2>1. disk'[t.src] = disk[t.src]
    BY <1>4, <1>5, <1>6, <1>7
  <2>2. disk'[t.dst] = File(SubSeq(d, 1, p + 1))
    BY <1>4, <1>5, <1>7
  <2>3. Transfers(u)
    BY <1>1, <1>12 DEF Transfers
  <2> QED
    BY <2>1, <2>2, <2>3, <1>6, <1>9, <1>12, <1>13
    DEF CopiedPrefix
<1> QED
  BY <1>14, <1>15, <1>16 DEF IInv

\* The other ways a copy can go retire its task.
LEMMA CopyEndsKeepIInv ==
  ASSUME IInv,
         CopyRefused \/ CopyNoMemory \/ CopyAborted
           \/ CopyCompleted \/ MoveCompleted
  PROVE  IInv'
<1> DEFINE t == Head(queue)
<1>1. Serving /\ queue # <<>> /\ disk \in [Path -> Node] /\ Retire(t)
  BY DEF IInv, TypeOK, Serving, CopyRefused, CopyNoMemory, CopyAborted,
         CopyCompleted, MoveCompleted
<1>2. t.src \in Path /\ t.dst \in Path
  BY <1>1, HeadFields DEF IInv
<1>3. NoFile \in Node
  BY DEF NoFile, Node
<1> SUFFICES disk' \in [Path -> Node]
  BY <1>1, RetireKeepsIInv
<1>4. CASE CopyRefused
  BY <1>1, <1>4 DEF CopyRefused
<1>5. CASE CopyNoMemory
  <2>1. CanStep(t) /\ disk' = Opened(t)
    BY <1>5 DEF CopyNoMemory, CanStep
  <2> QED
    BY <1>1, <2>1, OpenedDisk
<1>6. CASE CopyAborted
  <2>1. /\ CanStep(t) /\ t.op.pos < Len(Source(t)) /\ disk' \in Leftovers(t)
    BY <1>6 DEF CopyAborted
  <2>2. /\ Opened(t) \in [Path -> Node] /\ Source(t) \in Seq(Chunk)
        /\ Opened(t)[t.dst].data \in Seq(Chunk)
    BY <1>1, <2>1, OpenedDisk
  <2>3. Source(t)[t.op.pos + 1] \in Chunk
    BY <1>1, <2>1, <2>2, HeadFields, ExtendPrefix DEF IInv
  <2>4. Append(Opened(t)[t.dst].data, Source(t)[t.op.pos + 1]) \in Seq(Chunk)
    BY <2>2, <2>3
  <2>5. Written(t) \in [Path -> Node]
    BY <2>2, <2>4, FileNode DEF Written
  <2>6. [Opened(t) EXCEPT ![t.dst] = NoFile] \in [Path -> Node]
    BY <2>2, <1>3
  <2> QED
    BY <2>1, <2>2, <2>5, <2>6 DEF Leftovers
<1>7. ASSUME CanStep(t), NEW d \in Closed(t)
      PROVE  d \in [Path -> Node]
  <2>1. /\ Opened(t) \in [Path -> Node]
        /\ Opened(t)[t.dst].data \in Seq(Chunk)
    BY <1>1, <1>7, OpenedDisk
  <2> DEFINE e == Opened(t)[t.dst].data
  <2>2. e # <<>> => SubSeq(e, 1, Len(e) - 1) \in Seq(Chunk)
    BY <2>1
  <2>3. e # <<>> => [Opened(t) EXCEPT ![t.dst] =
                       File(SubSeq(e, 1, Len(e) - 1))] \in [Path -> Node]
    BY <2>1, <2>2, FileNode
  <2> QED
    BY <2>1, <2>3 DEF Closed
<1>8. CASE CopyCompleted
  BY <1>7, <1>8 DEF CopyCompleted
<1>9. CASE MoveCompleted
  <2>1. PICK d \in Closed(t) : disk' \in Removed(t, d)
    BY <1>9 DEF MoveCompleted
  <2>2. d \in [Path -> Node]
    BY <1>7, <1>9 DEF MoveCompleted
  <2> QED
    BY <2>1, <2>2, <1>3 DEF Removed
<1> QED
  BY <1>4, <1>5, <1>6, <1>8, <1>9

\* A head whose op_ctx is not null and which is not a copy or a move stays
\* with other status fields; nothing else about the list changes.
LEMMA StayKeepsIInv ==
  ASSUME IInv, Serving, NEW t, t = Head(queue), ~Transfers(t),
         NEW failed \in BOOLEAN, LeaveOrStay(t, failed),
         disk' \in [Path -> Node]
  PROVE  IInv'
<1>1. queue # <<>> /\ queue \in Seq(Task) /\ TypeOK
  BY DEF IInv, TypeOK, Serving
<1>2. t \in Task /\ t = queue[1] /\ t.op \in Op
  BY <1>1, HeadFields
<1>3. t.op.st # "live"
  BY <1>1 DEF IInv, CopiedPrefix
<1>4. CASE t.op.st = "null"
  BY <1>4, RetireKeepsIInv DEF LeaveOrStay
<1>5. CASE t.op.st # "null"
  <2> DEFINE u == [t EXCEPT !.err = failed,
                            !.progress = IF failed THEN 0 ELSE 100]
  <2>1. queue' = [queue EXCEPT ![1] = u] /\ UNCHANGED <<handles, added, app>>
    BY <1>5 DEF LeaveOrStay
  <2>2. u \in Task /\ u.op = t.op /\ u.id = t.id
    <3> DEFINE v == IF failed THEN 0 ELSE 100
    <3>1. v \in 0 .. 100
      OBVIOUS
    <3> HIDE DEF v
    <3>2. /\ [t EXCEPT !.err = failed, !.progress = v] \in Task
          /\ [t EXCEPT !.err = failed, !.progress = v].op = t.op
          /\ [t EXCEPT !.err = failed, !.progress = v].id = t.id
      BY <1>2, <3>1 DEF Task
    <3> QED
      BY <3>2 DEF v
  <2> HIDE DEF u
  <2>3. /\ queue' \in Seq(Task) /\ Len(queue') = Len(queue)
        /\ queue'[1] = u /\ Head(queue') = u
        /\ \A i \in 2 .. Len(queue) : queue'[i] = queue[i]
    BY <1>1, <2>1, <2>2, ReplaceHead
  <2>4. TypeOK'
    BY <1>1, <2>1, <2>3 DEF TypeOK
  <2>5. \A i \in 1 .. Len(queue) : /\ queue[i].op.st # "live"
                                   /\ queue'[i].op.st # "live"
    <3> TAKE i \in 1 .. Len(queue)
    <3>1. CASE i = 1
      BY <3>1, <1>2, <1>3, <2>2, <2>3
    <3>2. CASE i # 1
      <4>1. i \in 2 .. Len(queue)
        BY <3>2, <1>1, HeadTail
      <4> QED
        BY <4>1, <2>3 DEF IInv, OneOpenCopy
    <3> QED
      BY <3>1, <3>2
  <2>6. app # "exited" => handles = {}
    BY <2>5 DEF IInv, OneOpenCopy
  <2>7. OneOpenCopy'
    <3>1. {j \in 1 .. Len(queue') : queue'[j].op.st = "live"} = {}
      BY <2>3, <2>5
    <3>2. \A i \in 2 .. Len(queue') : queue'[i].op.st # "live"
      BY <1>1, <2>3, <2>5, HeadTail
    <3> QED
      BY <2>1, <2>6, <3>1, <3>2 DEF OneOpenCopy
  <2>8. CopiedPrefix'
    BY <1>3, <2>2, <2>3 DEF CopiedPrefix
  <2> QED
    BY <2>4, <2>7, <2>8 DEF IInv
<1> QED
  BY <1>4, <1>5

LEMMA OtherTasksKeepIInv ==
  ASSUME IInv, DeleteDone \/ DeleteFailed \/ TodoDone \/ CopyCrashes
  PROVE  IInv'
<1> DEFINE t == Head(queue)
<1>1. Serving /\ queue # <<>> /\ disk \in [Path -> Node]
  BY DEF IInv, TypeOK, Serving, DeleteDone, DeleteFailed, TodoDone, CopyCrashes
<1>2. t.src \in Path
  BY <1>1, HeadFields DEF IInv
<1>3. CASE DeleteDone
  <2>1. /\ ~Transfers(t) /\ LeaveOrStay(t, FALSE)
        /\ disk' = [disk EXCEPT ![t.src] = NoFile]
    BY <1>3 DEF DeleteDone, Transfers
  <2>2. disk' \in [Path -> Node]
    BY <1>1, <1>2, <2>1 DEF NoFile, Node
  <2> QED
    BY <1>1, <2>1, <2>2, StayKeepsIInv
<1>4. CASE DeleteFailed
  <2>1. ~Transfers(t) /\ LeaveOrStay(t, TRUE) /\ disk' = disk
    BY <1>4 DEF DeleteFailed, Transfers
  <2> QED
    BY <1>1, <2>1, StayKeepsIInv
<1>5. CASE TodoDone
  BY <1>1, <1>5, RetireKeepsIInv DEF TodoDone
<1>6. CASE CopyCrashes
  <2>1. UNCHANGED <<queue, disk, handles, added>> /\ app' = "crashed"
    BY <1>6 DEF CopyCrashes
  <2>2. app = "running"
    BY <1>1 DEF Serving
  <2> QED
    BY <2>1, <2>2 DEF IInv, TypeOK, OneOpenCopy, CopiedPrefix
<1> QED
  BY <1>3, <1>4, <1>5, <1>6

LEMMA AddKeepsIInv ==
  ASSUME IInv, NEW type \in Types, NEW src \in Path, NEW dst \in Path,
         Add(type, src, dst)
  PROVE  IInv'
<1>1. PICK op \in FreshOps :
        queue' = Append(queue, NewTask(type, src, dst, op))
  BY DEF Add, Enqueued
<1> DEFINE u == NewTask(type, src, dst, op)
           n == Len(queue)
<1>2. /\ queue \in Seq(Task) /\ added \in 0 .. MaxTasks /\ added < MaxTasks
      /\ added' = added + 1 /\ UNCHANGED <<disk, handles, app>>
      /\ app = "running"
  BY DEF IInv, TypeOK, Add
<1>3. op \in Op /\ op.st # "live"
  BY ConstantsAssumption DEF Op, NullOp, GarbageOp
<1>4. u \in Task /\ u.op = op
  BY <1>2, <1>3, ConstantsAssumption DEF NewTask, Task
<1>5. queue' = Append(queue, u)
  BY <1>1
<1> HIDE DEF u
<1>6. /\ n \in Nat
      /\ queue' \in Seq(Task) /\ Len(queue') = n + 1 /\ queue' # <<>>
      /\ \A i \in 1 .. n : queue'[i] = queue[i]
      /\ queue'[n + 1] = u
      /\ Head(queue') = queue'[1]
  BY <1>2, <1>4, <1>5
<1>7. TypeOK'
  BY <1>2, <1>6, ConstantsAssumption DEF IInv, TypeOK
<1>8. {j \in 1 .. Len(queue') : queue'[j].op.st = "live"} =
      {j \in 1 .. n : queue[j].op.st = "live"}
  BY <1>3, <1>4, <1>6
<1>9. OneOpenCopy'
  <2>1. \A i \in 2 .. Len(queue') : queue'[i].op.st # "live"
    BY <1>3, <1>4, <1>6 DEF IInv, OneOpenCopy
  <2>2. handles = {queue[i].id : i \in {j \in 1 .. n :
                                         queue[j].op.st = "live"}}
    BY <1>2 DEF IInv, OneOpenCopy
  <2>3. handles' = {queue'[i].id : i \in {j \in 1 .. n :
                                          queue[j].op.st = "live"}}
    BY <2>2, <1>2, <1>6
  <2> QED
    BY <2>1, <2>3, <1>8 DEF OneOpenCopy
<1>10. CopiedPrefix'
  <2>1. CASE queue = <<>>
    BY <2>1, <1>3, <1>4, <1>6 DEF CopiedPrefix
  <2>2. CASE queue # <<>>
    <3>1. Head(queue') = Head(queue)
      BY <2>2, <1>2, <1>6, HeadTail
    <3> QED
      BY <2>2, <3>1, <1>2 DEF IInv, CopiedPrefix
  <2> QED
    BY <2>1, <2>2
<1> QED
  BY <1>7, <1>9, <1>10 DEF IInv

\* Asking for cancellation changes cancel flags only.
LEMMA CancelKeepsIInv ==
  ASSUME IInv, Serving, UNCHANGED <<disk, handles, added, app>>,
         queue' \in Seq(Task), Len(queue') = Len(queue),
         \A i \in 1 .. Len(queue) :
           /\ queue'[i].id = queue[i].id /\ queue'[i].op = queue[i].op
           /\ queue'[i].src = queue[i].src /\ queue'[i].dst = queue[i].dst
           /\ queue'[i].type = queue[i].type
  PROVE  IInv'
<1>1. queue \in Seq(Task) /\ queue # <<>>
  BY DEF IInv, TypeOK, Serving
<1>2. TypeOK'
  BY DEF IInv, TypeOK
<1>3. OneOpenCopy'
  <2>1. {j \in 1 .. Len(queue') : queue'[j].op.st = "live"} =
        {j \in 1 .. Len(queue) : queue[j].op.st = "live"}
    OBVIOUS
  <2>2. {queue'[i].id : i \in {j \in 1 .. Len(queue) : queue[j].op.st = "live"}}
        = {queue[i].id : i \in {j \in 1 .. Len(queue) : queue[j].op.st = "live"}}
    OBVIOUS
  <2>3. \A i \in 2 .. Len(queue') : queue'[i].op.st # "live"
    BY <1>1, HeadTail DEF IInv, OneOpenCopy
  <2> QED
    BY <2>1, <2>2, <2>3 DEF IInv, OneOpenCopy
<1>4. CopiedPrefix'
  <2>1. 1 \in 1 .. Len(queue) /\ Head(queue) = queue[1]
    BY <1>1, HeadTail
  <2>2. queue' # <<>> => Head(queue') = queue'[1]
    BY HeadTail
  <2>3. /\ Head(queue').op = Head(queue).op
        /\ Head(queue').src = Head(queue).src
        /\ Head(queue').dst = Head(queue).dst
        /\ Transfers(Head(queue')) <=> Transfers(Head(queue))
    <3>1. queue' # <<>>
      BY <1>1, HeadTail
    <3> QED
      BY <2>1, <2>2, <3>1 DEF Transfers
  <2> QED
    BY <2>3, <1>1 DEF IInv, CopiedPrefix
<1> QED
  BY <1>2, <1>3, <1>4 DEF IInv

LEMMA UserKeepsIInv ==
  ASSUME IInv, User
  PROVE  IInv'
<1>1. queue \in Seq(Task)
  BY DEF IInv, TypeOK
<1>2. ASSUME NEW t \in Task
      PROVE  /\ [t EXCEPT !.cancel = TRUE] \in Task
             /\ [t EXCEPT !.cancel = TRUE].id = t.id
             /\ [t EXCEPT !.cancel = TRUE].op = t.op
             /\ [t EXCEPT !.cancel = TRUE].src = t.src
             /\ [t EXCEPT !.cancel = TRUE].dst = t.dst
             /\ [t EXCEPT !.cancel = TRUE].type = t.type
  BY DEF Task
<1>3. ASSUME NEW first \in {1, 2}, CancelFrom(first)
      PROVE  IInv'
  <2>1. /\ queue' = [i \in 1 .. Len(queue) |->
                       IF i >= first THEN [queue[i] EXCEPT !.cancel = TRUE]
                       ELSE queue[i]]
        /\ Serving /\ UNCHANGED <<disk, handles, added, app>>
    BY <1>3 DEF CancelFrom
  <2>2. \A i \in 1 .. Len(queue) : queue[i] \in Task
    BY <1>1
  <2>3. queue' \in Seq(Task) /\ Len(queue') = Len(queue)
    BY <1>1, <1>2, <2>1, <2>2
  <2>4. \A i \in 1 .. Len(queue) :
           /\ queue'[i].id = queue[i].id /\ queue'[i].op = queue[i].op
           /\ queue'[i].src = queue[i].src /\ queue'[i].dst = queue[i].dst
           /\ queue'[i].type = queue[i].type
    BY <1>2, <2>1, <2>2
  <2> QED
    BY <2>1, <2>3, <2>4, CancelKeepsIInv
<1>4. CASE CancelCurrent
  <2> DEFINE u == [queue[1] EXCEPT !.cancel = TRUE]
  <2>1. /\ queue' = [queue EXCEPT ![1] = u]
        /\ Serving /\ queue # <<>> /\ UNCHANGED <<disk, handles, added, app>>
    BY <1>1, <1>4 DEF CancelCurrent, Serving
  <2>2. queue[1] \in Task
    BY <1>1, <2>1, HeadTail
  <2>3. /\ u \in Task /\ u.id = queue[1].id /\ u.op = queue[1].op
        /\ u.src = queue[1].src /\ u.dst = queue[1].dst
        /\ u.type = queue[1].type
    BY <1>2, <2>2
  <2> HIDE DEF u
  <2>4. /\ queue' \in Seq(Task) /\ Len(queue') = Len(queue)
        /\ queue'[1] = u
        /\ \A i \in 2 .. Len(queue) : queue'[i] = queue[i]
    BY <1>1, <2>1, <2>3, ReplaceHead
  <2>5. \A i \in 1 .. Len(queue) : i = 1 \/ i \in 2 .. Len(queue)
    BY <1>1, <2>1, HeadTail
  <2> QED
    BY <2>1, <2>3, <2>4, <2>5, CancelKeepsIInv
<1>5. CASE Exit
  BY <1>5 DEF Exit, IInv, TypeOK, OneOpenCopy, CopiedPrefix
<1> QED
  BY <1>3, <1>4, <1>5, AddKeepsIInv DEF User, CancelAll, CancelPending

-----------------------------------------------------------------------------
(* The theorems.                                                           *)

LEMMA StepIInv == IInv /\ [Next]_vars => IInv'
<1> SUFFICES ASSUME IInv, [Next]_vars PROVE IInv'
  OBVIOUS
<1>1. CASE Process
  BY <1>1, CopyChunkKeepsIInv, CopyEndsKeepIInv, OtherTasksKeepIInv DEF Process
<1>2. CASE User
  BY <1>2, UserKeepsIInv
<1>3. CASE UNCHANGED vars
  BY <1>3 DEF vars, IInv, TypeOK, OneOpenCopy, CopiedPrefix
<1> QED
  BY <1>1, <1>2, <1>3 DEF Next

LEMMA InductiveInvariant == Spec => []IInv
  BY InitIInv, StepIInv, PTL DEF Spec

\* The queue and the card keep their types under every interleaving of
\* frames and user requests; a percentage is never outside 0..100.
THEOREM TypeCorrect == Spec => []TypeOK
<1>1. IInv => TypeOK
  BY DEF IInv
<1> QED
  BY <1>1, InductiveInvariant, PTL

\* At most one copy is open, it belongs to the head of the queue, and every
\* way of ending it closes its files.
THEOREM OneOpenCopyHolds == Spec => []OneOpenCopy
<1>1. IInv => OneOpenCopy
  BY DEF IInv
<1> QED
  BY <1>1, InductiveInvariant, PTL

\* In every state the destination of a copy in progress is exactly the
\* prefix of its source that the context has counted.
THEOREM CopiedPrefixHolds == Spec => []CopiedPrefix
<1>1. IInv => CopiedPrefix
  BY DEF IInv
<1> QED
  BY <1>1, InductiveInvariant, PTL

-----------------------------------------------------------------------------
(* No step takes data away behind the user's back.  This needs more than   *)
(* the invariant: it holds of the code only when reading never fails       *)
(* silently, fclose never drops data and no file is opened twice.          *)

ReportedFaultsOnly == Faults \cap {"read", "close", "shared"} = {}

\* A step of the head leaves alone every path but its destination, which is
\* not its source.
LEMMA OnlyDestinationOpened ==
  ASSUME ReportedFaultsOnly, IInv, queue # <<>>, NEW t, t = Head(queue),
         CanStep(t)
  PROVE  /\ t.src # t.dst
         /\ disk[t.src].kind = "file"
         /\ \A p \in Path : p # t.dst => Opened(t)[p] = disk[p]
         /\ \A p \in Path : p # t.dst => Written(t)[p] = disk[p]
<1>1. t.dst \in Path /\ disk \in [Path -> Node]
  BY HeadFields DEF IInv, TypeOK
<1>2. t.src # t.dst /\ disk[t.src].kind = "file"
  <2>1. CASE t.op.st = "live"
    BY <2>1 DEF IInv, CopiedPrefix
  <2>2. CASE t.op.st # "live"
    BY <2>2 DEF CanStep, Readable, Writable, ReportedFaultsOnly
  <2> QED
    BY <2>1, <2>2
<1>3. \A p \in Path : p # t.dst => Opened(t)[p] = disk[p]
  BY <1>1 DEF Opened
<1>4. Opened(t) \in [Path -> Node]
  BY OpenedDisk
<1>5. \A p \in Path : p # t.dst => Written(t)[p] = disk[p]
  BY <1>1, <1>3, <1>4 DEF Written
<1> QED
  BY <1>2, <1>3, <1>5

\* When the source has been read to its end the destination equals it.
LEMMA WholeAtEnd ==
  ASSUME ReportedFaultsOnly, IInv, queue # <<>>, NEW t, t = Head(queue),
         CanStep(t), AtEnd(t)
  PROVE  Opened(t)[t.dst] = disk[t.src]
<1>1. /\ t.src \in Path /\ t.dst \in Path /\ t.op.pos \in Nat
      /\ t.op.st # "live" => t.op.pos = 0
      /\ disk \in [Path -> Node]
  BY HeadFields DEF IInv, TypeOK
<1>2. t.src # t.dst /\ disk[t.src].kind = "file" /\ Opened(t)[t.src] = disk[t.src]
  BY <1>1, OnlyDestinationOpened
<1> DEFINE d == disk[t.src].data
<1>3. disk[t.src] = File(d) /\ d \in Seq(Chunk)
  BY <1>1, <1>2, NodeData
<1>4. t.op.pos >= Len(d)
  BY <1>2 DEF AtEnd, Source, ReportedFaultsOnly
<1>5. CASE t.op.st = "live"
  <2>1. t.op.pos \in 1 .. Len(d) /\ disk[t.dst] = File(SubSeq(d, 1, t.op.pos))
    BY <1>5 DEF IInv, CopiedPrefix
  <2>2. t.op.pos = Len(d)
    BY <1>3, <1>4, <2>1
  <2>3. SubSeq(d, 1, Len(d)) = d
    BY <1>3
  <2> QED
    BY <1>3, <1>5, <2>1, <2>2, <2>3 DEF Opened
<1>6. CASE t.op.st # "live"
  <2>1. d = <<>>
    BY <1>1, <1>3, <1>4, <1>6
  <2>2. Opened(t)[t.dst] = File(<<>>)
    BY <1>1, <1>6 DEF Opened
  <2> QED
    BY <1>3, <2>1, <2>2
<1> QED
  BY <1>5, <1>6

\* Every path that changes is one the task being served names, and a move
\* takes its source away only once the destination holds all of it.
THEOREM NoSilentLossHolds ==
  ASSUME ReportedFaultsOnly
  PROVE  Spec => NoSilentLoss
<1> DEFINE t == Head(queue)
           Named(p) == /\ Serving
                       /\ \/ t.type = "delete" /\ t.src = p
                          \/ Transfers(t) /\ t.dst = p /\ t.src # p
                          \/ /\ t.type = "move" /\ t.src = p /\ t.dst # p
                             /\ disk'[t.dst] = disk[p]
           Loss == \A p \in Path : disk'[p] # disk[p] => Named(p)
<1>1. ASSUME IInv, Next, NEW p \in Path, disk'[p] # disk[p]
      PROVE  Named(p)
  <2>1. Process
    BY <1>1 DEF Next, User, Add, CancelAll, CancelPending, CancelFrom,
                CancelCurrent, Exit
  <2>2. /\ Serving /\ queue # <<>> /\ disk \in [Path -> Node]
    BY <1>1, <2>1 DEF Process, IInv, TypeOK, CopyRefused, CopyNoMemory,
       CopyChunk, CopyAborted, CopyCompleted, MoveCompleted, DeleteDone,
       DeleteFailed, TodoDone, CopyCrashes, Serving
  <2>3. t.src \in Path /\ t.dst \in Path
    BY <1>1, <2>2, HeadFields DEF IInv
  <2>4. ASSUME Transfers(t), CanStep(t)
        PROVE  /\ t.src # t.dst
               /\ p # t.dst => Opened(t)[p] = disk[p] /\ Written(t)[p] = disk[p]
               /\ Opened(t) \in [Path -> Node]
               /\ Closed(t) = {Opened(t)}
    <3>1. /\ t.src # t.dst
          /\ p # t.dst => Opened(t)[p] = disk[p] /\ Written(t)[p] = disk[p]
      BY <1>1, <2>2, <2>4, OnlyDestinationOpened
    <3>2. Opened(t) \in [Path -> Node]
      BY <1>1, <2>2, <2>4, OpenedDisk
    <3>3. Closed(t) = {Opened(t)}
      BY DEF Closed, ReportedFaultsOnly
    <3> QED
      BY <3>1, <3>2, <3>3
  <2>5. CASE CopyNoMemory
    <3>1. Transfers(t) /\ CanStep(t) /\ disk' = Opened(t)
      BY <2>5 DEF CopyNoMemory, CanStep
    <3> QED
      BY <1>1, <2>2, <2>4, <3>1
  <2>6. CASE CopyChunk
    <3>1. Transfers(t) /\ CanStep(t) /\ disk' = Written(t)
      BY <2>6 DEF CopyChunk
    <3> QED
      BY <1>1, <2>2, <2>4, <3>1
  <2>7. CASE CopyAborted
    <3>1. Transfers(t) /\ CanStep(t) /\ disk' \in Leftovers(t)
      BY <2>7 DEF CopyAborted
    <3>2. p # t.dst => [Opened(t) EXCEPT ![t.dst] = NoFile][p] = Opened(t)[p]
      BY <2>4, <3>1
    <3> QED
      BY <1>1, <2>2, <2>4, <3>1, <3>2 DEF Leftovers
  <2>8. CASE CopyCompleted
    <3>1. Transfers(t) /\ CanStep(t) /\ disk' \in Closed(t)
      BY <2>8 DEF CopyCompleted, Transfers
    <3> QED
      BY <1>1, <2>2, <2>4, <3>1
  <2>9. CASE MoveCompleted
    <3>1. /\ t.type = "move" /\ Transfers(t) /\ CanStep(t) /\ AtEnd(t)
          /\ disk' \in Removed(t, Opened(t))
      BY <2>4, <2>9 DEF MoveCompleted, Transfers
    <3>2. Opened(t)[t.dst] = disk[t.src]
      BY <1>1, <2>2, <3>1, WholeAtEnd
    <3>3. disk'[t.dst] = disk[t.src]
      BY <2>3, <2>4, <3>1, <3>2 DEF Removed
    <3>4. p # t.src => disk'[p] = Opened(t)[p]
      BY <2>4, <3>1 DEF Removed
    <3> QED
      BY <1>1, <2>2, <2>4, <3>1, <3>3, <3>4
  <2>10. CASE DeleteDone
    BY <1>1, <2>2, <2>10 DEF DeleteDone
  <2>11. CASE CopyRefused \/ DeleteFailed \/ TodoDone \/ CopyCrashes
    BY <1>1, <2>11 DEF CopyRefused, DeleteFailed, TodoDone, CopyCrashes
  <2> QED
    BY <2>1, <2>5, <2>6, <2>7, <2>8, <2>9, <2>10, <2>11 DEF Process
<1>2. IInv /\ [Next]_vars => [Loss]_vars
  BY <1>1
<1>3. Spec => [][Loss]_vars
  BY <1>2, InductiveInvariant, PTL DEF Spec
<1> QED
  BY <1>3 DEF NoSilentLoss

-----------------------------------------------------------------------------
(* Cancellation, whatever the environment does.                            *)

\* The first frame that changes the card for a cancelled copy or move also
\* ends it: no fault and no order of the user's requests keeps it going.
THEOREM CancelTakesEffectHolds == Spec => CancelTakesEffect
<1> DEFINE t == Head(queue)
           Ends == Serving /\ Transfers(t) /\ t.cancel /\ disk' # disk
                     => queue' = Tail(queue)
<1>1. ASSUME Next, Serving, Transfers(t), t.cancel, disk' # disk
      PROVE  queue' = Tail(queue)
  <2>1. Process
    BY <1>1 DEF Next, User, Add, CancelAll, CancelPending, CancelFrom,
                CancelCurrent, Exit
  <2>2. ~CopyChunk
    BY <1>1 DEF CopyChunk, Cancelled
  <2>3. ~DeleteDone
    BY <1>1 DEF DeleteDone, Transfers
  <2>4. ~CopyRefused /\ ~DeleteFailed /\ ~TodoDone /\ ~CopyCrashes
    BY <1>1 DEF CopyRefused, DeleteFailed, TodoDone, CopyCrashes
  <2>5. CASE CopyNoMemory
    BY <2>5 DEF CopyNoMemory, Retire
  <2>6. CASE CopyAborted
    BY <2>6 DEF CopyAborted, Retire
  <2>7. CASE CopyCompleted
    BY <2>7 DEF CopyCompleted, Retire
  <2>8. CASE MoveCompleted
    BY <2>8 DEF MoveCompleted, Retire
  <2> QED
    BY <2>1, <2>2, <2>3, <2>4, <2>5, <2>6, <2>7, <2>8 DEF Process
<1>2. Next => Ends
  BY <1>1
<1>3. [Next]_vars => [Ends]_vars
  BY <1>2
<1>4. Spec => [][Ends]_vars
  BY <1>3, PTL DEF Spec
<1> QED
  BY <1>4 DEF CancelTakesEffect

-----------------------------------------------------------------------------
(* The queue implements FileJobs.  Besides the silent faults, this needs   *)
(* the op_ctx of a new task to be null: with garbage in it a delete is     *)
(* served again and again, which no job is.                                *)

CleanContexts == GarbageOp \notin FreshOps

\* No queued task holds garbage: a context is set by fs_copy_begin only.
NoGarbage == \A i \in 1 .. Len(queue) : queue[i].op.st # "garbage"

\* What FileJobs sees of a list and of a card.
WaitsOf(q) == [i \in 1 .. Len(q) |-> JobOf(q[i])]

InCopy(q) == q # <<>> /\ Head(q).op.st = "live"

SeenOf(q, d) ==
  [p \in Path |->
     IF /\ q # <<>>
        /\ Head(q).op.st = "live"
        /\ Head(q).dst = p
     THEN Jobs!Pending
     ELSE d[p]]

\* Two sequences with the same elements are one.
LEMMA SameSequence ==
  ASSUME NEW S, NEW a \in Seq(S), NEW b \in Seq(S), Len(a) = Len(b),
         \A i \in 1 .. Len(a) : a[i] = b[i]
  PROVE  a = b
  OBVIOUS

\* The jobs behind a list of tasks.
LEMMA WaitsData ==
  ASSUME NEW q \in Seq(Task)
  PROVE  /\ WaitsOf(q) \in Seq([id : 1 .. MaxTasks, type : Types,
                                src : Path, dst : Path])
         /\ q = <<>> => WaitsOf(q) = <<>>
         /\ q # <<>> => /\ WaitsOf(q) # <<>>
                        /\ Head(WaitsOf(q)) = JobOf(Head(q))
                        /\ Tail(WaitsOf(q)) = WaitsOf(Tail(q))
<1> DEFINE J == [id : 1 .. MaxTasks, type : Types, src : Path, dst : Path]
           w == WaitsOf(q)
<1>1. \A t \in Task : JobOf(t) \in J
  BY DEF JobOf, Task
<1>2. \A i \in 1 .. Len(q) : q[i] \in Task
  OBVIOUS
<1>3. w \in Seq(J) /\ Len(w) = Len(q) /\ \A i \in 1 .. Len(q) : w[i] = JobOf(q[i])
  BY <1>1, <1>2 DEF WaitsOf
<1>4. ASSUME q = <<>> PROVE w = <<>>
  BY <1>3, <1>4
<1>5. ASSUME q # <<>>
      PROVE  w # <<>> /\ Head(w) = JobOf(Head(q)) /\ Tail(w) = WaitsOf(Tail(q))
  <2>1. Len(q) >= 1 /\ Len(q) \in Nat
    BY <1>5, HeadTail
  <2>2. w # <<>>
    BY <1>3, <2>1
  <2> HIDE DEF w, J
  <2>3. Head(w) = w[1] /\ Tail(w) \in Seq(J) /\ Len(Tail(w)) = Len(w) - 1
        /\ \A i \in 1 .. Len(w) - 1 : Tail(w)[i] = w[i + 1]
    BY <1>3, <2>2, HeadTail
  <2>4. Head(q) = q[1] /\ Tail(q) \in Seq(Task) /\ Len(Tail(q)) = Len(q) - 1
        /\ \A i \in 1 .. Len(q) - 1 : Tail(q)[i] = q[i + 1]
    BY <1>5, HeadTail
  <2>5. Head(w) = JobOf(Head(q))
    BY <1>3, <2>1, <2>3, <2>4
  <2>6. \A i \in 1 .. Len(q) - 1 : Tail(w)[i] = JobOf(Tail(q)[i])
    <3> TAKE i \in 1 .. Len(q) - 1
    <3>1. i + 1 \in 1 .. Len(q) /\ Tail(q)[i] = q[i + 1] /\ Tail(w)[i] = w[i + 1]
      BY <1>3, <2>1, <2>3, <2>4
    <3> QED
      BY <1>3, <3>1
  <2>7. /\ WaitsOf(Tail(q)) \in Seq(J) /\ Len(WaitsOf(Tail(q))) = Len(q) - 1
        /\ \A i \in 1 .. Len(q) - 1 : WaitsOf(Tail(q))[i] = JobOf(Tail(q)[i])
    BY <1>1, <2>4 DEF WaitsOf
  <2>8. Tail(w) = WaitsOf(Tail(q))
    <3> HIDE DEF J
    <3>1. /\ Tail(w) \in Seq(J) /\ WaitsOf(Tail(q)) \in Seq(J)
          /\ Len(Tail(w)) = Len(WaitsOf(Tail(q)))
          /\ \A i \in 1 .. Len(Tail(w)) : Tail(w)[i] = WaitsOf(Tail(q))[i]
      BY <1>3, <2>3, <2>6, <2>7
    <3> QED
      BY <3>1, SameSequence, Zenon
  <2> QED
    BY <2>2, <2>5, <2>8
<1> QED
  BY <1>3, <1>4, <1>5

\* FileJobs sees the card as it is whenever no copy is open, and otherwise
\* everywhere but at the destination of that copy.
LEMMA SeenData ==
  ASSUME NEW q, NEW d \in [Path -> Node]
  PROVE  /\ ~InCopy(q) => SeenOf(q, d) = d
         /\ InCopy(q) => SeenOf(q, d) = [d EXCEPT ![Head(q).dst] = Jobs!Pending]
         /\ \A p \in Path : d[p].kind # "pending"
<1>1. \A n \in Node : n.kind # "pending"
  BY DEF Node
<1> QED
  BY <1>1 DEF SeenOf, InCopy

\* What FileJobs sees of the current state.
Waits == WaitsOf(queue)
Seen  == SeenOf(queue, disk)

\* The steps of FileJobs in those names, w and s before the step, v and r
\* after it.
GivesUp(w, s, v, r) ==
  /\ w # <<>>
  /\ v = Tail(w)
  /\ LET j == Head(w)
     IN  /\ Jobs!Transfers(j)
         /\ \/ s[j.dst].kind # "pending" /\ r = s
            \/ r = [s EXCEPT ![j.dst] = Jobs!NoFile]
            \/ \E part \in {Jobs!File(SubSeq(s[j.src].data, 1, n)) :
                              n \in 0 .. Len(s[j.src].data)} :
                  r = [s EXCEPT ![j.dst] = part]

Delivers(w, s, v, r) ==
  /\ w # <<>>
  /\ v = Tail(w)
  /\ LET j    == Head(w)
         full == [s EXCEPT ![j.dst] = s[j.src]]
     IN  /\ Jobs!Transfers(j)
         /\ s[j.src].kind = "file"
         /\ \/ r = full
            \/ j.type = "move" /\ r = [full EXCEPT ![j.src] = Jobs!NoFile]

Erases(w, s, v, r) ==
  /\ w # <<>>
  /\ v = Tail(w)
  /\ \/ r = s
     \/ /\ Head(w).type = "delete"
        /\ r = [s EXCEPT ![Head(w).src] = Jobs!NoFile]
  /\ ~Jobs!Transfers(Head(w))

Claims(w, s, v, r) ==
  /\ w # <<>>
  /\ Jobs!Transfers(Head(w))
  /\ s[Head(w).src].kind = "file"
  /\ Head(w).src # Head(w).dst
  /\ r = [s EXCEPT ![Head(w).dst] = Jobs!Pending]
  /\ v = w

ShutsDown(w, s, v, r) ==
  /\ v = <<>>
  /\ \/ r = s
     \/ /\ w # <<>>
        /\ \E part \in {Jobs!File(SubSeq(s[Head(w).src].data, 1, n)) :
                          n \in 0 .. Len(s[Head(w).src].data)} :
              r = [s EXCEPT ![Head(w).dst] = part]

LEMMA JobSteps ==
  /\ GivesUp(Waits, Seen, Waits', Seen') => Jobs!GiveUp
  /\ Delivers(Waits, Seen, Waits', Seen') => Jobs!Deliver
  /\ Erases(Waits, Seen, Waits', Seen') => Jobs!Erase
  /\ Claims(Waits, Seen, Waits', Seen') => Jobs!Claim
  /\ ShutsDown(Waits, Seen, Waits', Seen') => Jobs!Shutdown
<1>1. GivesUp(Waits, Seen, Waits', Seen') => Jobs!GiveUp
  BY Zenon DEF GivesUp, Jobs!GiveUp, Jobs!Prefixes, Jobs!Pending,
     Waits, Seen, WaitsOf, SeenOf, InCopy
<1>2. Delivers(Waits, Seen, Waits', Seen') => Jobs!Deliver
  BY Zenon DEF Delivers, Jobs!Deliver, Jobs!Pending,
     Waits, Seen, WaitsOf, SeenOf, InCopy
<1>3. Erases(Waits, Seen, Waits', Seen') => Jobs!Erase
  BY Zenon DEF Erases, Jobs!Erase, Jobs!Pending,
     Waits, Seen, WaitsOf, SeenOf, InCopy
<1>4. Claims(Waits, Seen, Waits', Seen') => Jobs!Claim
  BY Zenon DEF Claims, Jobs!Claim, Jobs!Pending,
     Waits, Seen, WaitsOf, SeenOf, InCopy
<1>5. ShutsDown(Waits, Seen, Waits', Seen') => Jobs!Shutdown
  BY Zenon DEF ShutsDown, Jobs!Shutdown, Jobs!Prefixes, Jobs!Pending,
     Waits, Seen, WaitsOf, SeenOf, InCopy
<1> QED
  BY <1>1, <1>2, <1>3, <1>4, <1>5

\* The job FileJobs serves is the task at the head, and it sees the card with
\* the destination of that task masked while its copy is open.
LEMMA ServedJob ==
  ASSUME IInv, queue # <<>>, NEW t, t = Head(queue)
  PROVE  /\ Waits # <<>> /\ Head(Waits) = JobOf(t)
         /\ JobOf(t).src = t.src /\ JobOf(t).dst = t.dst
         /\ JobOf(t).type = t.type
         /\ Jobs!Transfers(JobOf(t)) <=> Transfers(t)
         /\ \A p \in Path : disk[p].kind # "pending"
         /\ t.op.st # "live" => Seen = disk
         /\ t.op.st = "live" => /\ Seen = [disk EXCEPT ![t.dst] = Jobs!Pending]
                                /\ Seen[t.src] = disk[t.src]
<1>1. queue \in Seq(Task) /\ disk \in [Path -> Node]
      /\ t.src \in Path /\ t.dst \in Path
  BY HeadFields DEF IInv, TypeOK
<1>2. Waits # <<>> /\ Head(Waits) = JobOf(t)
  BY <1>1, WaitsData DEF Waits
<1>3. /\ JobOf(t).src = t.src /\ JobOf(t).dst = t.dst
      /\ JobOf(t).type = t.type
      /\ Jobs!Transfers(JobOf(t)) <=> Transfers(t)
  BY DEF JobOf, Jobs!Transfers, Transfers
<1>4. /\ t.op.st # "live" => Seen = disk
      /\ t.op.st = "live" => Seen = [disk EXCEPT ![t.dst] = Jobs!Pending]
      /\ \A p \in Path : disk[p].kind # "pending"
  BY <1>1, SeenData DEF Seen, InCopy
<1>5. t.op.st = "live" => t.src # t.dst
  BY DEF IInv, CopiedPrefix
<1>6. t.op.st = "live" => Seen[t.src] = disk[t.src]
  BY <1>1, <1>4, <1>5
<1> QED
  BY <1>2, <1>3, <1>4, <1>6

\* When a task retires its job leaves, and the whole card can be seen: the
\* next task holds no open copy.
LEMMA RetiredJob ==
  ASSUME IInv, Serving, Retire(Head(queue)), disk' \in [Path -> Node]
  PROVE  Waits' = Tail(Waits) /\ Seen' = disk'
<1>1. queue \in Seq(Task) /\ queue # <<>> /\ queue' = Tail(queue)
  BY DEF IInv, TypeOK, Serving, Retire
<1>2. Tail(queue) \in Seq(Task) /\ ~InCopy(Tail(queue))
  <2>1. /\ Tail(queue) \in Seq(Task) /\ Len(Tail(queue)) = Len(queue) - 1
        /\ \A i \in 1 .. Len(queue) - 1 : Tail(queue)[i] = queue[i + 1]
    BY <1>1, HeadTail
  <2>2. ASSUME Tail(queue) # <<>> PROVE Head(Tail(queue)).op.st # "live"
    <3>1. Len(Tail(queue)) >= 1 /\ Head(Tail(queue)) = Tail(queue)[1]
      BY <2>1, <2>2, HeadTail
    <3>2. 2 \in 2 .. Len(queue) /\ Tail(queue)[1] = queue[2]
      BY <1>1, <2>1, <3>1, HeadTail
    <3> QED
      BY <3>1, <3>2 DEF IInv, OneOpenCopy
  <2> QED
    BY <2>1, <2>2 DEF InCopy
<1>3. Waits' = WaitsOf(Tail(queue))
  BY <1>1 DEF Waits
<1>4. Seen' = SeenOf(Tail(queue), disk')
  BY <1>1 DEF Seen
<1> QED
  BY <1>1, <1>2, <1>3, <1>4, WaitsData, SeenData DEF Waits

\* A copy or move that leaves a prefix of its source behind has given up.
LEMMA PrefixGivesUp ==
  ASSUME IInv, Serving, NEW t, t = Head(queue), Transfers(t), Retire(t),
         disk' \in [Path -> Node],
         NEW n \in 0 .. Len(disk[t.src].data),
         disk' = [disk EXCEPT ![t.dst] = File(SubSeq(disk[t.src].data, 1, n))]
  PROVE  Jobs!GiveUp
<1>1. queue # <<>> /\ disk \in [Path -> Node]
  BY DEF Serving, IInv, TypeOK
<1>2. Waits' = Tail(Waits) /\ Seen' = disk'
  BY RetiredJob
<1>3. /\ Waits # <<>> /\ Head(Waits) = JobOf(t)
      /\ JobOf(t).src = t.src /\ JobOf(t).dst = t.dst
      /\ Jobs!Transfers(JobOf(t))
  BY <1>1, ServedJob
<1>4. /\ Seen' = [Seen EXCEPT ![t.dst] = File(SubSeq(disk[t.src].data, 1, n))]
      /\ Seen[t.src] = disk[t.src]
  <2>1. CASE t.op.st = "live"
    <3>1. /\ Seen = [disk EXCEPT ![t.dst] = Jobs!Pending]
          /\ Seen[t.src] = disk[t.src]
      BY <1>1, <2>1, ServedJob
    <3> QED
      BY <1>1, <1>2, <3>1
  <2>2. CASE t.op.st # "live"
    <3>1. Seen = disk
      BY <1>1, <2>2, ServedJob
    <3> QED
      BY <1>2, <3>1
  <2> QED
    BY <2>1, <2>2
<1> DEFINE j    == Head(Waits)
           part == Jobs!File(SubSeq(Seen[j.src].data, 1, n))
<1>5. /\ part \in {Jobs!File(SubSeq(Seen[j.src].data, 1, m)) :
                     m \in 0 .. Len(Seen[j.src].data)}
      /\ Seen' = [Seen EXCEPT ![j.dst] = part]
  BY <1>3, <1>4 DEF Jobs!File, File
<1> HIDE DEF part
<1>6. GivesUp(Waits, Seen, Waits', Seen')
  BY <1>2, <1>3, <1>5, Zenon DEF GivesUp
<1> QED
  BY <1>6, JobSteps

\* A copy or move that was refused, ran out of memory, failed to write or
\* was cancelled has given up.
LEMMA FailuresGiveUp ==
  ASSUME ReportedFaultsOnly, IInv, CopyRefused \/ CopyNoMemory \/ CopyAborted
  PROVE  Jobs!GiveUp
<1> DEFINE t == Head(queue)
           d == disk[t.src].data
<1>1. /\ Serving /\ queue # <<>> /\ disk \in [Path -> Node]
      /\ Transfers(t) /\ Retire(t)
  BY DEF IInv, TypeOK, Serving, CopyRefused, CopyNoMemory, CopyAborted
<1>2. t.src \in Path /\ t.dst \in Path /\ t.op.pos \in Nat
  BY <1>1, HeadFields DEF IInv
<1>3. /\ Waits # <<>> /\ Head(Waits) = JobOf(t)
      /\ JobOf(t).src = t.src /\ JobOf(t).dst = t.dst
      /\ Jobs!Transfers(JobOf(t))
  BY <1>1, ServedJob
<1>4. disk' \in [Path -> Node]
  <2>1. IInv'
    BY CopyEndsKeepIInv
  <2> QED
    BY <2>1 DEF IInv, TypeOK
<1>5. Waits' = Tail(Waits) /\ Seen' = disk'
  BY <1>1, <1>4, RetiredJob
<1>6. CASE CopyRefused
  <2>1. Seen = disk /\ Seen[t.dst].kind # "pending" /\ disk' = disk
    BY <1>1, <1>2, <1>6, ServedJob DEF CopyRefused
  <2>2. GivesUp(Waits, Seen, Waits', Seen')
    BY <1>3, <1>5, <2>1 DEF GivesUp
  <2> QED
    BY <2>2, JobSteps
<1>7. ASSUME NEW n \in 0 .. Len(d),
             disk' = [disk EXCEPT ![t.dst] = File(SubSeq(d, 1, n))]
      PROVE  Jobs!GiveUp
  BY <1>1, <1>4, <1>7, PrefixGivesUp
<1>8. ASSUME CanStep(t)
      PROVE  /\ t.src # t.dst /\ d \in Seq(Chunk)
             /\ SubSeq(d, 1, 0) = <<>>
             /\ t.op.st = "null" => Opened(t) =
                  [disk EXCEPT ![t.dst] = File(SubSeq(d, 1, 0))]
  <2>1. t.src # t.dst /\ d \in Seq(Chunk)
    BY <1>1, <1>2, <1>8, OnlyDestinationOpened, NodeData
  <2>2. SubSeq(d, 1, 0) = <<>>
    BY <2>1
  <2> QED
    BY <2>1, <2>2 DEF Opened
<1>9. CASE CopyNoMemory
  <2>1. CanStep(t) /\ t.op.st = "null" /\ disk' = Opened(t)
    BY <1>9 DEF CopyNoMemory, CanStep
  <2>2. 0 \in 0 .. Len(d)
    BY <1>8, <2>1
  <2> QED
    BY <1>7, <1>8, <2>1, <2>2
<1>10. CASE CopyAborted
  <2>1. CanStep(t) /\ t.op.pos < Len(Source(t)) /\ disk' \in Leftovers(t)
    BY <1>10 DEF CopyAborted
  <2>2. /\ Source(t) = d /\ Opened(t)[t.dst].data = SubSeq(d, 1, t.op.pos)
        /\ t.src # t.dst /\ d \in Seq(Chunk)
        /\ Opened(t) \in [Path -> Node] /\ Opened(t)[t.dst].kind = "file"
    BY <1>1, <1>8, <2>1, SteppingHead, OpenedDisk
  <2>3. t.op.pos \in 0 .. Len(d) /\ t.op.pos + 1 \in 0 .. Len(d)
    BY <1>2, <2>1, <2>2
  <2>4. Opened(t) = [disk EXCEPT ![t.dst] = Opened(t)[t.dst]]
    BY <1>1, <1>2, <2>2 DEF Opened
  <2>5. Opened(t)[t.dst] = File(SubSeq(d, 1, t.op.pos))
    BY <1>2, <2>2, NodeData
  <2>6. Written(t) = [Opened(t) EXCEPT ![t.dst] =
                       File(SubSeq(d, 1, t.op.pos + 1))]
    BY <1>2, <2>1, <2>2, ExtendPrefix DEF Written
  <2>7. CASE disk' = [Opened(t) EXCEPT ![t.dst] = NoFile]
    <3>1. Seen' = [Seen EXCEPT ![t.dst] = Jobs!NoFile]
      <4>1. disk' = [disk EXCEPT ![t.dst] = NoFile]
        BY <1>1, <2>4, <2>7
      <4>2. Seen = disk \/ Seen = [disk EXCEPT ![t.dst] = Jobs!Pending]
        BY <1>1, ServedJob
      <4> QED
        BY <1>1, <1>5, <4>1, <4>2 DEF NoFile, Jobs!NoFile
    <3>2. GivesUp(Waits, Seen, Waits', Seen')
      BY <1>3, <1>5, <3>1 DEF GivesUp
    <3> QED
      BY <3>2, JobSteps
  <2>8. CASE disk' = Opened(t)
    BY <1>7, <2>3, <2>4, <2>5, <2>8
  <2>9. CASE disk' = Written(t)
    <3>1. disk' = [disk EXCEPT ![t.dst] = File(SubSeq(d, 1, t.op.pos + 1))]
      BY <1>1, <2>4, <2>6, <2>9
    <3> QED
      BY <1>7, <2>3, <3>1
  <2> QED
    BY <2>1, <2>7, <2>8, <2>9 DEF Leftovers
<1> QED
  BY <1>6, <1>9, <1>10

\* A copy or move that reached the end of its source delivers it.
LEMMA CompletionsDeliver ==
  ASSUME ReportedFaultsOnly, IInv, CopyCompleted \/ MoveCompleted
  PROVE  Jobs!Deliver
<1> DEFINE t    == Head(queue)
           full == [Seen EXCEPT ![t.dst] = Seen[t.src]]
<1>1. /\ Serving /\ queue # <<>> /\ disk \in [Path -> Node]
      /\ Transfers(t) /\ Retire(t) /\ CanStep(t) /\ AtEnd(t)
  BY DEF IInv, TypeOK, Serving, CopyCompleted, MoveCompleted, Transfers
<1>2. t.src \in Path /\ t.dst \in Path
  BY <1>1, HeadFields DEF IInv
<1>3. /\ Waits # <<>> /\ Head(Waits) = JobOf(t)
      /\ JobOf(t).src = t.src /\ JobOf(t).dst = t.dst
      /\ JobOf(t).type = t.type /\ Jobs!Transfers(JobOf(t))
      /\ Seen = disk \/ Seen = [disk EXCEPT ![t.dst] = Jobs!Pending]
  BY <1>1, ServedJob
<1>4. disk' \in [Path -> Node]
  <2>1. IInv'
    BY CopyEndsKeepIInv
  <2> QED
    BY <2>1 DEF IInv, TypeOK
<1>5. Waits' = Tail(Waits) /\ Seen' = disk'
  BY <1>1, <1>4, RetiredJob
<1>6. /\ t.src # t.dst /\ disk[t.src].kind = "file"
      /\ Opened(t)[t.dst] = disk[t.src] /\ Opened(t) \in [Path -> Node]
      /\ Closed(t) = {Opened(t)}
  BY <1>1, OnlyDestinationOpened, WholeAtEnd, OpenedDisk
  DEF Closed, ReportedFaultsOnly
<1>7. Opened(t) = full /\ Seen[t.src].kind = "file"
  <2>1. Opened(t) = [disk EXCEPT ![t.dst] = disk[t.src]]
    BY <1>1, <1>2, <1>6 DEF Opened
  <2> QED
    BY <1>1, <1>2, <1>3, <1>6, <2>1
<1>8. \/ disk' = full
      \/ t.type = "move" /\ disk' = [full EXCEPT ![t.src] = Jobs!NoFile]
  <2>1. CASE CopyCompleted
    BY <1>6, <1>7, <2>1 DEF CopyCompleted
  <2>2. CASE MoveCompleted
    <3>1. t.type = "move" /\ disk' \in Removed(t, Opened(t))
      BY <1>6, <2>2 DEF MoveCompleted
    <3> QED
      BY <1>7, <3>1 DEF Removed, NoFile, Jobs!NoFile
  <2> QED
    BY <2>1, <2>2
<1>9. Delivers(Waits, Seen, Waits', Seen')
  BY <1>3, <1>5, <1>7, <1>8 DEF Delivers
<1> QED
  BY <1>9, JobSteps

\* A delete or an unimplemented task is one job without a copy; it leaves
\* in the frame that serves it because its context is null.
LEMMA OthersErase ==
  ASSUME IInv, NoGarbage, DeleteDone \/ DeleteFailed \/ TodoDone
  PROVE  Jobs!Erase
<1> DEFINE t == Head(queue)
<1>1. /\ Serving /\ queue # <<>> /\ disk \in [Path -> Node] /\ ~Transfers(t)
  BY DEF IInv, TypeOK, Serving, DeleteDone, DeleteFailed, TodoDone, Transfers
<1>2. t.op.st = "null"
  <2>1. t = queue[1] /\ 1 \in 1 .. Len(queue) /\ t.op \in Op
    BY <1>1, HeadTail, HeadFields DEF IInv, TypeOK
  <2>2. t.op.st # "live"
    BY <1>1 DEF IInv, CopiedPrefix
  <2> QED
    BY <2>1, <2>2 DEF NoGarbage, Op, NullOp, GarbageOp
<1>3. Retire(t)
  BY <1>2 DEF DeleteDone, DeleteFailed, TodoDone, LeaveOrStay
<1>4. /\ disk' \in [Path -> Node]
      /\ \/ disk' = disk
         \/ t.type = "delete" /\ disk' = [disk EXCEPT ![t.src] = NoFile]
  <2>1. IInv'
    BY OtherTasksKeepIInv
  <2> QED
    BY <2>1 DEF IInv, TypeOK, DeleteDone, DeleteFailed, TodoDone
<1>5. Waits' = Tail(Waits) /\ Seen' = disk'
  BY <1>1, <1>3, <1>4, RetiredJob
<1>6. /\ Waits # <<>> /\ Head(Waits) = JobOf(t) /\ Seen = disk
      /\ JobOf(t).src = t.src /\ JobOf(t).type = t.type
      /\ ~Jobs!Transfers(JobOf(t))
  BY <1>1, <1>2, ServedJob
<1>7. Erases(Waits, Seen, Waits', Seen')
  BY <1>4, <1>5, <1>6 DEF Erases, NoFile, Jobs!NoFile
<1> QED
  BY <1>7, JobSteps

\* Lists whose tasks differ in their status only are the same jobs.
LEMMA SameWaits ==
  ASSUME NEW q \in Seq(Task), NEW r \in Seq(Task), Len(q) = Len(r),
         \A i \in 1 .. Len(q) : JobOf(q[i]) = JobOf(r[i])
  PROVE  WaitsOf(q) = WaitsOf(r)
  BY DEF WaitsOf

\* The first chunk takes hold of the destination; the others are not seen.
LEMMA ChunkClaims ==
  ASSUME ReportedFaultsOnly, IInv, CopyChunk
  PROVE  Jobs!Claim \/ UNCHANGED <<Waits, Seen>>
<1> DEFINE t == Head(queue)
           p == t.op.pos
<1>1. /\ queue # <<>> /\ queue \in Seq(Task) /\ disk \in [Path -> Node]
      /\ CanStep(t) /\ Transfers(t) /\ disk' = Written(t)
      /\ p < Len(Source(t))
  BY DEF IInv, TypeOK, CopyChunk, Serving
<1>2. PICK total \in Totals(t) :
        queue' = [queue EXCEPT ![1] =
                   [t EXCEPT !.err = FALSE,
                             !.progress = Percent(p + 1, total),
                             !.op = LiveOp(p + 1, total)]]
  BY Zenon DEF CopyChunk
<1> DEFINE u == [t EXCEPT !.err = FALSE,
                          !.progress = Percent(p + 1, total),
                          !.op = LiveOp(p + 1, total)]
<1>3. queue' = [queue EXCEPT ![1] = u]
  BY <1>2
<1>4. /\ queue' \in Seq(Task) /\ disk' \in [Path -> Node]
  <2>1. IInv'
    BY CopyChunkKeepsIInv
  <2> QED
    BY <2>1 DEF IInv, TypeOK
<1>5. /\ t \in Task /\ t = queue[1] /\ t.src \in Path /\ t.dst \in Path
  BY <1>1, HeadFields DEF IInv
<1>6. u.op.st = "live" /\ u.dst = t.dst /\ JobOf(u) = JobOf(t)
  BY <1>5 DEF Task, LiveOp, JobOf
<1> HIDE DEF u
<1>7. /\ queue' # <<>> /\ Len(queue') = Len(queue) /\ Head(queue') = u
      /\ queue'[1] = u
      /\ \A i \in 2 .. Len(queue) : queue'[i] = queue[i]
  <2>1. DOMAIN queue = 1 .. Len(queue) /\ 1 \in 1 .. Len(queue)
    BY <1>1, HeadTail
  <2>2. DOMAIN queue' = 1 .. Len(queue) /\ queue'[1] = u
    BY <1>1, <1>3, <2>1
  <2>3. Len(queue') = Len(queue)
    BY <1>1, <1>4, <2>1, <2>2
  <2>4. u \in Task
    BY <1>4, <2>1, <2>2, <2>3
  <2> QED
    BY <1>1, <1>3, <2>4, ReplaceHead
<1>8. Waits' = Waits
  <2>1. \A i \in 1 .. Len(queue) : JobOf(queue[i]) = JobOf(queue'[i])
    <3> TAKE i \in 1 .. Len(queue)
    <3>1. i = 1 \/ i \in 2 .. Len(queue)
      BY <1>1, HeadTail
    <3> QED
      BY <1>5, <1>6, <1>7, <3>1
  <2>2. WaitsOf(queue) = WaitsOf(queue')
    BY <1>1, <1>4, <1>7, <2>1, SameWaits
  <2> QED
    BY <2>2 DEF Waits
<1>9. Seen' = [disk EXCEPT ![t.dst] = Jobs!Pending]
  <2>1. InCopy(queue') /\ Head(queue').dst = t.dst
    BY <1>6, <1>7 DEF InCopy
  <2>2. Seen' = [disk' EXCEPT ![t.dst] = Jobs!Pending]
    BY <1>4, <2>1, SeenData DEF Seen
  <2>3. \A q \in Path : q # t.dst => disk'[q] = disk[q]
    BY <1>1, OnlyDestinationOpened
  <2> QED
    BY <1>1, <1>4, <1>5, <2>2, <2>3
<1>10. CASE t.op.st = "live"
  BY <1>1, <1>8, <1>9, <1>10, ServedJob
<1>11. CASE t.op.st # "live"
  <2>1. /\ Waits # <<>> /\ Head(Waits) = JobOf(t) /\ Seen = disk
        /\ JobOf(t).src = t.src /\ JobOf(t).dst = t.dst
        /\ Jobs!Transfers(JobOf(t))
    BY <1>1, <1>11, ServedJob
  <2>2. t.src # t.dst /\ disk[t.src].kind = "file"
    BY <1>1, OnlyDestinationOpened
  <2>3. Claims(Waits, Seen, Waits', Seen')
    BY <1>8, <1>9, <2>1, <2>2 DEF Claims
  <2> QED
    BY <2>3, JobSteps
<1> QED
  BY <1>10, <1>11

\* What the user does between two frames: a new job is submitted behind the
\* others, a cancellation is not seen, and the program may end.
LEMMA JobSubmits ==
  ASSUME NEW j, Waits' = Append(Waits, j), Seen' = Seen
  PROVE  Jobs!Submit(j)
  BY Zenon DEF Jobs!Submit, Jobs!Pending, Waits, Seen, WaitsOf, SeenOf

LEMMA AddSubmits ==
  ASSUME IInv, NEW type \in Types, NEW src \in Path, NEW dst \in Path,
         Add(type, src, dst)
  PROVE  \E j \in [id : 1 .. MaxTasks, type : Types, src : Path, dst : Path] :
            Jobs!Submit(j)
<1>1. PICK op \in FreshOps :
        queue' = Append(queue, NewTask(type, src, dst, op))
  BY Zenon DEF Add, Enqueued
<1> DEFINE u == NewTask(type, src, dst, op)
           n == Len(queue)
           J == [id : 1 .. MaxTasks, type : Types, src : Path, dst : Path]
<1>2. /\ queue \in Seq(Task) /\ added \in 0 .. MaxTasks /\ added < MaxTasks
      /\ disk \in [Path -> Node] /\ disk' = disk
  BY DEF IInv, TypeOK, Add
<1>3. op \in Op /\ op.st # "live"
  BY ConstantsAssumption DEF Op, NullOp, GarbageOp
<1>4. u \in Task /\ u.op = op
  BY <1>2, <1>3, ConstantsAssumption DEF NewTask, Task
<1>5. queue' = Append(queue, u) /\ JobOf(u) \in J
  BY <1>1, <1>4 DEF JobOf, Task
<1> HIDE DEF u
<1>6. /\ n \in Nat
      /\ queue' \in Seq(Task) /\ Len(queue') = n + 1 /\ queue' # <<>>
      /\ \A i \in 1 .. n : queue'[i] = queue[i]
      /\ queue'[n + 1] = u
      /\ Head(queue') = queue'[1]
  BY <1>2, <1>4, <1>5
<1>7. Waits' = Append(Waits, JobOf(u))
  <2> HIDE DEF J
  <2>1. \A i \in 1 .. n : queue[i] \in Task
    BY <1>2
  <2>2. Waits \in Seq(J) /\ Len(Waits) = n
        /\ \A i \in 1 .. n : Waits[i] = JobOf(queue[i])
    <3>1. Waits \in Seq(J)
      BY <1>2, WaitsData DEF Waits, J
    <3> QED
      BY <1>2, <3>1 DEF Waits, WaitsOf
  <2>3. Waits' \in Seq(J) /\ Len(Waits') = n + 1
        /\ \A i \in 1 .. n + 1 : Waits'[i] = JobOf(queue'[i])
    <3>1. Waits' \in Seq(J)
      BY <1>6, WaitsData DEF Waits, J
    <3> QED
      BY <1>6, <3>1 DEF Waits, WaitsOf
  <2>4. /\ Append(Waits, JobOf(u)) \in Seq(J)
        /\ Len(Append(Waits, JobOf(u))) = n + 1
        /\ \A i \in 1 .. n : Append(Waits, JobOf(u))[i] = Waits[i]
        /\ Append(Waits, JobOf(u))[n + 1] = JobOf(u)
    BY <1>5, <1>6, <2>2
  <2>5. \A i \in 1 .. n + 1 : Waits'[i] = Append(Waits, JobOf(u))[i]
    <3> TAKE i \in 1 .. n + 1
    <3>1. i \in 1 .. n \/ i = n + 1
      BY <1>6
    <3> QED
      BY <1>6, <2>2, <2>3, <2>4, <3>1
  <2> QED
    BY <2>3, <2>4, <2>5, SameSequence
<1>8. Seen' = Seen
  <2>1. CASE queue = <<>>
    <3>1. ~InCopy(queue) /\ ~InCopy(queue')
      BY <1>3, <1>4, <1>6, <2>1 DEF InCopy
    <3> QED
      BY <1>2, <3>1, SeenData DEF Seen
  <2>2. CASE queue # <<>>
    <3>1. Head(queue') = Head(queue) /\ queue' # <<>>
      BY <1>2, <1>6, <2>2, HeadTail
    <3> QED
      BY <1>2, <2>2, <3>1 DEF Seen, SeenOf
  <2> QED
    BY <2>1, <2>2
<1> QED
  BY <1>5, <1>7, <1>8, JobSubmits

\* A step that changes cancel flags only is not seen.
LEMMA CancelUnseen ==
  ASSUME IInv, CancelAll \/ CancelPending \/ CancelCurrent
  PROVE  UNCHANGED <<Waits, Seen>>
<1>1. queue # <<>> /\ queue \in Seq(Task) /\ disk' = disk
  BY DEF CancelAll, CancelPending, CancelCurrent, CancelFrom, Serving,
         IInv, TypeOK
<1>2. ASSUME NEW t \in Task
      PROVE  /\ [t EXCEPT !.cancel = TRUE] \in Task
             /\ [t EXCEPT !.cancel = TRUE].op = t.op
             /\ [t EXCEPT !.cancel = TRUE].dst = t.dst
             /\ JobOf([t EXCEPT !.cancel = TRUE]) = JobOf(t)
  BY DEF Task, JobOf
<1>3. \A i \in 1 .. Len(queue) : queue[i] \in Task
  BY <1>1
<1> DEFINE Same == /\ queue' \in Seq(Task) /\ Len(queue') = Len(queue)
                   /\ \A i \in 1 .. Len(queue) :
                        /\ queue'[i].op = queue[i].op
                        /\ queue'[i].dst = queue[i].dst
                        /\ JobOf(queue'[i]) = JobOf(queue[i])
<1>4. Same
  <2>1. ASSUME NEW first \in {1, 2}, CancelFrom(first)
        PROVE  Same
    <3>1. queue' = [i \in 1 .. Len(queue) |->
                      IF i >= first THEN [queue[i] EXCEPT !.cancel = TRUE]
                      ELSE queue[i]]
      BY <2>1 DEF CancelFrom
    <3> QED
      BY <1>1, <1>2, <1>3, <3>1
  <2>2. CASE CancelCurrent
    <3> DEFINE u == [queue[1] EXCEPT !.cancel = TRUE]
    <3>1. queue' = [queue EXCEPT ![1] = u]
      BY <2>2 DEF CancelCurrent
    <3>2. /\ u \in Task /\ u.op = queue[1].op /\ u.dst = queue[1].dst
          /\ JobOf(u) = JobOf(queue[1])
      BY <1>1, <1>2, <1>3, HeadTail
    <3> HIDE DEF u
    <3>3. \A i \in 1 .. Len(queue) : i = 1 \/ i \in 2 .. Len(queue)
      BY <1>1, HeadTail
    <3> QED
      BY <1>1, <3>1, <3>2, <3>3, ReplaceHead
  <2> QED
    BY <2>1, <2>2 DEF CancelAll, CancelPending
<1>5. Waits' = Waits
  <2>1. WaitsOf(queue) = WaitsOf(queue')
    BY <1>1, <1>4, SameWaits
  <2> QED
    BY <2>1 DEF Waits
<1>6. Seen' = Seen
  <2>1. /\ queue' # <<>> /\ Head(queue') = queue'[1] /\ Head(queue) = queue[1]
        /\ 1 \in 1 .. Len(queue)
    BY <1>1, <1>4, HeadTail
  <2>2. Head(queue').op = Head(queue).op /\ Head(queue').dst = Head(queue).dst
    BY <1>4, <2>1
  <2> QED
    BY <1>1, <2>1, <2>2 DEF Seen, SeenOf
<1> QED
  BY <1>5, <1>6

\* The program ends: what a copy in progress had written stays.
LEMMA ExitShutsDown ==
  ASSUME IInv, Exit
  PROVE  Jobs!Shutdown
<1>1. queue' = <<>> /\ disk' = disk /\ disk \in [Path -> Node]
      /\ queue \in Seq(Task)
  BY DEF Exit, IInv, TypeOK
<1>2. Waits' = <<>> /\ Seen' = disk
  <2>1. Waits' = WaitsOf(<<>>) /\ Seen' = SeenOf(<<>>, disk)
    BY <1>1 DEF Waits, Seen
  <2>2. <<>> \in Seq(Task) /\ ~InCopy(<<>>)
    BY DEF InCopy
  <2> QED
    BY <1>1, <2>1, <2>2, WaitsData, SeenData
<1>3. CASE ~InCopy(queue)
  <2>1. Seen = disk
    BY <1>1, <1>3, SeenData DEF Seen
  <2>2. ShutsDown(Waits, Seen, Waits', Seen')
    BY <1>2, <2>1 DEF ShutsDown
  <2> QED
    BY <2>2, JobSteps
<1>4. CASE InCopy(queue)
  <2> DEFINE t    == Head(queue)
             j    == Head(Waits)
             part == Jobs!File(SubSeq(Seen[j.src].data, 1, t.op.pos))
  <2>1. /\ queue # <<>> /\ t.op.st = "live" /\ t.dst \in Path
    BY <1>4, HeadFields DEF InCopy, IInv
  <2>2. /\ Waits # <<>> /\ j = JobOf(t)
        /\ JobOf(t).src = t.src /\ JobOf(t).dst = t.dst
        /\ Seen = [disk EXCEPT ![t.dst] = Jobs!Pending]
        /\ Seen[t.src] = disk[t.src]
    BY <2>1, ServedJob
  <2>3. /\ t.op.pos \in 1 .. Len(disk[t.src].data)
        /\ disk[t.dst] = File(SubSeq(disk[t.src].data, 1, t.op.pos))
        /\ Len(disk[t.src].data) \in Nat
    <3>1. disk[t.src].kind = "file" /\ t.src \in Path
      BY <2>1, HeadFields DEF IInv, CopiedPrefix
    <3>2. disk[t.src].data \in Seq(Chunk)
      BY <1>1, <3>1, NodeData
    <3> QED
      BY <2>1, <3>2 DEF IInv, CopiedPrefix
  <2>4. /\ part \in {Jobs!File(SubSeq(Seen[j.src].data, 1, n)) :
                       n \in 0 .. Len(Seen[j.src].data)}
        /\ part = disk[t.dst]
    <3>1. Seen[j.src] = disk[t.src]
      BY <2>2
    <3>2. t.op.pos \in 0 .. Len(Seen[j.src].data)
      BY <2>3, <3>1
    <3>3. part = disk[t.dst]
      BY <2>3, <3>1 DEF Jobs!File, File
    <3> QED
      BY <3>2, <3>3
  <2> HIDE DEF part
  <2>5. Seen' = [Seen EXCEPT ![j.dst] = part]
    BY <1>1, <1>2, <2>1, <2>2, <2>4
  <2>6. ShutsDown(Waits, Seen, Waits', Seen')
    BY <1>2, <2>2, <2>4, <2>5, Zenon DEF ShutsDown
  <2> QED
    BY <2>6, JobSteps
<1> QED
  BY <1>3, <1>4

\* Contexts stay clean: only task_queue_add could bring garbage in.
LEMMA StepNoGarbage ==
  ASSUME CleanContexts, IInv, NoGarbage, Next
  PROVE  NoGarbage'
<1> DEFINE t == Head(queue)
<1>1. queue \in Seq(Task)
  BY DEF IInv, TypeOK
<1>2. ASSUME queue # <<>>, Retire(t) PROVE NoGarbage'
  <2>1. /\ Len(queue') = Len(queue) - 1 /\ Len(queue) \in Nat
        /\ \A i \in 1 .. Len(queue) - 1 : queue'[i] = queue[i + 1]
    BY <1>1, <1>2, HeadTail DEF Retire
  <2> QED
    BY <2>1 DEF NoGarbage
<1>3. ASSUME Len(queue') = Len(queue),
             \A i \in 1 .. Len(queue) : queue'[i].op.st \in {"live", queue[i].op.st}
      PROVE  NoGarbage'
  BY <1>3 DEF NoGarbage
<1>4. CASE CopyRefused \/ CopyNoMemory \/ CopyAborted
             \/ CopyCompleted \/ MoveCompleted \/ TodoDone
  BY <1>2, <1>4 DEF CopyRefused, CopyNoMemory, CopyAborted, CopyCompleted,
                    MoveCompleted, TodoDone, Serving
<1>5. ASSUME queue # <<>>, NEW u, queue' = [queue EXCEPT ![1] = u],
             u.op.st \in {"live", queue[1].op.st}
      PROVE  NoGarbage'
  <2>1. Len(queue') = Len(queue) /\ queue'[1] = u
        /\ \A i \in 1 .. Len(queue) : i # 1 => queue'[i] = queue[i]
    BY <1>1, <1>5, HeadTail
  <2> QED
    BY <1>3, <1>5, <2>1
<1>6. CASE CopyChunk
  <2>1. queue # <<>> /\ t \in Task
    BY <1>1, <1>6, HeadTail DEF CopyChunk, Serving
  <2>2. PICK total \in Totals(t) :
          queue' = [queue EXCEPT ![1] =
                     [t EXCEPT !.err = FALSE,
                               !.progress = Percent(t.op.pos + 1, total),
                               !.op = LiveOp(t.op.pos + 1, total)]]
    BY <1>6, Zenon DEF CopyChunk
  <2>3. [t EXCEPT !.err = FALSE,
                  !.progress = Percent(t.op.pos + 1, total),
                  !.op = LiveOp(t.op.pos + 1, total)].op.st = "live"
    BY <2>1 DEF Task, LiveOp
  <2> QED
    BY <1>5, <2>1, <2>2, <2>3, Zenon
<1>7. CASE DeleteDone \/ DeleteFailed
  <2>1. queue # <<>> /\ t = queue[1] /\ t \in Task
    BY <1>1, <1>7, HeadTail DEF DeleteDone, DeleteFailed, Serving
  <2>2. CASE Retire(t)
    BY <1>2, <2>1, <2>2
  <2>3. ASSUME NEW failed, NEW value,
               queue' = [queue EXCEPT ![1] =
                           [t EXCEPT !.err = failed, !.progress = value]]
        PROVE  NoGarbage'
    <3>1. [t EXCEPT !.err = failed, !.progress = value].op = t.op
      BY <2>1 DEF Task
    <3> QED
      BY <1>5, <2>1, <2>3, <3>1
  <2> QED
    BY <1>7, <2>2, <2>3, Zenon DEF DeleteDone, DeleteFailed, LeaveOrStay
<1>8. CASE CopyCrashes
  BY <1>8 DEF CopyCrashes, NoGarbage
<1>9. ASSUME NEW type \in Types, NEW src \in Path, NEW dst \in Path,
             Add(type, src, dst)
      PROVE  NoGarbage'
  <2>1. PICK op \in FreshOps :
          queue' = Append(queue, NewTask(type, src, dst, op))
    BY <1>9, Zenon DEF Add, Enqueued
  <2>2. op.st # "garbage"
    BY ConstantsAssumption DEF CleanContexts, NullOp, GarbageOp
  <2> DEFINE u == NewTask(type, src, dst, op)
  <2>3. u.op = op /\ queue' = Append(queue, u)
    BY <2>1 DEF NewTask
  <2> HIDE DEF u
  <2>4. /\ Len(queue') = Len(queue) + 1 /\ queue'[Len(queue) + 1] = u
        /\ \A i \in 1 .. Len(queue) : queue'[i] = queue[i]
    BY <1>1, <2>3
  <2>5. \A i \in 1 .. Len(queue') : i \in 1 .. Len(queue) \/ i = Len(queue) + 1
    BY <1>1, <2>4
  <2> QED
    BY <2>2, <2>3, <2>4, <2>5 DEF NoGarbage
<1>10. CASE CancelAll \/ CancelPending \/ CancelCurrent
  <2>1. \A i \in 1 .. Len(queue) : queue[i] \in Task
    BY <1>1
  <2>2. \A s \in Task : [s EXCEPT !.cancel = TRUE].op = s.op
    BY DEF Task
  <2>3. ASSUME NEW first, CancelFrom(first) PROVE NoGarbage'
    <3>1. queue' = [i \in 1 .. Len(queue) |->
                      IF i >= first THEN [queue[i] EXCEPT !.cancel = TRUE]
                      ELSE queue[i]]
      BY <2>3 DEF CancelFrom
    <3>2. Len(queue') = Len(queue)
      BY <1>1, <3>1
    <3>3. \A i \in 1 .. Len(queue) : queue'[i].op = queue[i].op
      BY <2>1, <2>2, <3>1
    <3> QED
      BY <1>3, <3>2, <3>3
  <2>4. CASE CancelCurrent
    <3>1. queue # <<>> /\ queue[1] \in Task
          /\ queue' = [queue EXCEPT ![1] = [queue[1] EXCEPT !.cancel = TRUE]]
      BY <1>1, <2>4, HeadTail DEF CancelCurrent, Serving
    <3> QED
      BY <1>5, <2>2, <3>1
  <2> QED
    BY <1>10, <2>3, <2>4 DEF CancelAll, CancelPending
<1>11. CASE Exit
  BY <1>11 DEF Exit, NoGarbage
<1> QED
  BY <1>4, <1>6, <1>7, <1>8, <1>9, <1>10, <1>11 DEF Next, Process, User

\* A queue without garbage in it.
CleanInv == IInv /\ NoGarbage

\* The list and the card at first are those of no jobs.
LEMMA InitPromised == Init => CleanInv /\ Jobs!Init
<1>1. Init => CleanInv
  BY InitIInv DEF Init, NoGarbage, CleanInv
<1>2. \A n \in Node : n.kind # "pending"
  BY DEF Node
<1>3. Init => Jobs!Init
  BY <1>2, ConstantsAssumption DEF Init, Jobs!Init
<1> QED
  BY <1>1, <1>3

\* Nothing of the jobs is seen in any other variable.
LEMMA SeenOnly == UNCHANGED <<queue, disk>> => UNCHANGED Jobs!vars
<1>1. UNCHANGED <<Waits, Seen>> => UNCHANGED Jobs!vars
  BY Zenon DEF Jobs!vars, Jobs!Pending, Waits, Seen, WaitsOf, SeenOf
<1>2. UNCHANGED <<queue, disk>> => UNCHANGED <<Waits, Seen>>
  BY DEF Waits, Seen
<1> QED
  BY <1>1, <1>2

\* Every step of the queue is one of the jobs, or not seen in them.
LEMMA StepPromised ==
  ASSUME ReportedFaultsOnly, CleanContexts
  PROVE  CleanInv /\ [Next]_vars => CleanInv' /\ [Jobs!Next]_(Jobs!vars)
<1>1. CleanInv /\ [Next]_vars => CleanInv'
  <2>1. CASE UNCHANGED vars
    BY <2>1, StepIInv DEF vars, NoGarbage, CleanInv
  <2> QED
    BY <2>1, StepIInv, StepNoGarbage DEF CleanInv
<1>2. ASSUME IInv, NoGarbage, Next
      PROVE  Jobs!Next \/ UNCHANGED <<Waits, Seen>>
  <2>1. CASE CopyRefused \/ CopyNoMemory \/ CopyAborted
    BY <1>2, <2>1, FailuresGiveUp DEF Jobs!Next
  <2>2. CASE CopyChunk
    BY <1>2, <2>2, ChunkClaims DEF Jobs!Next
  <2>3. CASE CopyCompleted \/ MoveCompleted
    BY <1>2, <2>3, CompletionsDeliver DEF Jobs!Next
  <2>4. CASE DeleteDone \/ DeleteFailed \/ TodoDone
    BY <1>2, <2>4, OthersErase DEF Jobs!Next
  <2>5. CASE CopyCrashes
    <3>1. queue # <<>> /\ Head(queue).op.st = "garbage"
      BY <2>5 DEF CopyCrashes, Serving
    <3>2. Head(queue) = queue[1] /\ 1 \in 1 .. Len(queue)
      BY <1>2, <3>1, HeadTail DEF IInv, TypeOK
    <3> QED
      BY <1>2, <3>1, <3>2 DEF NoGarbage
  <2>6. ASSUME NEW type \in Types, NEW src \in Path, NEW dst \in Path,
               Add(type, src, dst)
        PROVE  Jobs!Next
    BY <1>2, <2>6, AddSubmits DEF Jobs!Next
  <2>7. CASE CancelAll \/ CancelPending \/ CancelCurrent
    BY <1>2, <2>7, CancelUnseen
  <2>8. CASE Exit
    BY <1>2, <2>8, ExitShutsDown DEF Jobs!Next
  <2> QED
    BY <1>2, <2>1, <2>2, <2>3, <2>4, <2>5, <2>6, <2>7, <2>8
    DEF Next, Process, User
<1>3. UNCHANGED <<Waits, Seen>> => UNCHANGED Jobs!vars
  BY Zenon DEF Jobs!vars, Jobs!Pending, Waits, Seen, WaitsOf, SeenOf
<1>4. UNCHANGED vars => UNCHANGED Jobs!vars
  BY SeenOnly DEF vars
<1> QED
  BY <1>1, <1>2, <1>3, <1>4 DEF CleanInv

\* What the files hold and the order in which they are served is what module
\* FileJobs promises: jobs leave first in, first out; each delivers its source
\* whole or gives up leaving at most a prefix of it; and no half-written file
\* can be seen except at the destination of the job being served.
THEOREM FileJobsImplemented ==
  ASSUME ReportedFaultsOnly, CleanContexts
  PROVE  Spec => ImplementsFileJobs
BY InitPromised, StepPromised, PTL DEF Spec, ImplementsFileJobs, Jobs!Spec

-----------------------------------------------------------------------------
(* The aggregate progress.  It is a recursive function over the positions  *)
(* of the list; what it computes is proved by looking at the first         *)
(* position where the claim fails.                                         *)

LEMMA LessIsWellFounded ==
  IsWellFoundedOn({p \in Nat \X Nat : p[1] < p[2]}, Nat)
  BY NatLessThanWellFounded, Zenon DEF OpToRel

\* A non-empty set of natural numbers has a least element.
LEMMA Least ==
  ASSUME NEW S, S \subseteq Nat, S # {}
  PROVE  \E i \in S : \A j \in S : i <= j
<1>1. PICK i \in S : \A j \in S : <<j, i>> \notin {p \in Nat \X Nat : p[1] < p[2]}
  BY LessIsWellFounded, WFMin
<1>2. \A j \in S : i <= j
  <2> TAKE j \in S
  <2>1. i \in Nat /\ j \in Nat /\ <<j, i>> \notin {p \in Nat \X Nat : p[1] < p[2]}
    BY <1>1
  <2>2. ~(j < i)
    BY <2>1
  <2> QED
    BY <2>1, <2>2
<1> QED
  BY <1>2

\* The sums of the first 0 .. n elements of v.
IsSum(f, v, n) ==
  f = [i \in 0 .. n |-> IF i = 0 THEN 0 ELSE f[i - 1] + v[i]]

LEMMA SumExists ==
  ASSUME NEW n \in Nat, NEW v
  PROVE  \E f : IsSum(f, v, n)
<1> DEFINE S == {m \in Nat : ~ \E f : IsSum(f, v, m)}
<1> SUFFICES ASSUME S # {} PROVE FALSE
  OBVIOUS
<1>1. PICK m \in S : \A k \in S : m <= k
  BY Least
<1>2. m \in Nat /\ ~ \E f : IsSum(f, v, m)
  OBVIOUS
<1>3. CASE m = 0
  <2> DEFINE f == [i \in 0 .. 0 |-> 0]
  <2>1. IsSum(f, v, 0)
    BY DEF IsSum
  <2> QED
    BY <1>2, <1>3, <2>1
<1>4. CASE m # 0
  <2>1. m - 1 \in Nat /\ m - 1 \notin S
    BY <1>1, <1>2, <1>4
  <2>2. PICK g : IsSum(g, v, m - 1)
    BY <2>1
  <2>3. \A i \in 0 .. m - 1 : g[i] = IF i = 0 THEN 0 ELSE g[i - 1] + v[i]
    BY <2>2 DEF IsSum
  <2> DEFINE f == [i \in 0 .. m |-> IF i = m THEN g[m - 1] + v[m] ELSE g[i]]
  <2>4. \A i \in 0 .. m : f[i] = IF i = 0 THEN 0 ELSE f[i - 1] + v[i]
    <3> TAKE i \in 0 .. m
    <3>1. CASE i = m
      BY <1>2, <1>4, <3>1
    <3>2. CASE i # m
      BY <1>2, <2>3, <3>2
    <3> QED
      BY <3>1, <3>2
  <2>5. IsSum(f, v, m)
    BY <2>4, Zenon DEF IsSum
  <2> QED
    BY <1>2, <2>5
<1> QED
  BY <1>3, <1>4

\* One more percentage keeps a sum within bounds.
LEMMA OneMore ==
  ASSUME NEW x \in Int, NEW y \in Int, NEW z \in Int, NEW m \in Nat,
         x <= 100 * (m - 1) - 100 + z, y <= 100
  PROVE  x + y <= 100 * m - 100 + z
  OBVIOUS

\* Each partial sum of percentages is a number of at most a hundred per
\* element, and short of that by what any one element is short.
LEMMA SumBound ==
  ASSUME NEW n \in Nat, NEW v, NEW f, IsSum(f, v, n),
         \A i \in 1 .. n : v[i] \in 0 .. 100
  PROVE  \A i \in 0 .. n :
            /\ f[i] \in Nat /\ f[i] <= 100 * i
            /\ \A k \in 1 .. i : f[i] <= 100 * i - 100 + v[k]
<1> DEFINE P(i) == /\ f[i] \in Nat /\ f[i] <= 100 * i
                   /\ \A k \in 1 .. i : f[i] <= 100 * i - 100 + v[k]
           S == {i \in 0 .. n : ~P(i)}
<1> SUFFICES ASSUME S # {} PROVE FALSE
  BY Zenon
<1>1. PICK m \in S : \A k \in S : m <= k
  <2>1. S \subseteq Nat
    <3> HIDE DEF P
    <3> QED
      OBVIOUS
  <2> HIDE DEF S
  <2> QED
    BY <2>1, Least
<1>2. m \in 0 .. n /\ ~P(m)
  BY Zenon
<1>3. \A i \in 0 .. n : f[i] = IF i = 0 THEN 0 ELSE f[i - 1] + v[i]
  BY DEF IsSum
<1>4. CASE m = 0
  BY <1>2, <1>3, <1>4
<1>5. CASE m # 0
  <2>1. m - 1 \in 0 .. n /\ m - 1 \notin S
    BY <1>1, <1>2, <1>5
  <2>2. P(m - 1)
    BY <2>1, Zenon
  <2>3. f[m] = f[m - 1] + v[m] /\ v[m] \in 0 .. 100 /\ m \in Nat
    BY <1>2, <1>3, <1>5
  <2>4. f[m] \in Nat /\ f[m] <= 100 * m
    BY <2>2, <2>3
  <2>5. ASSUME NEW k \in 1 .. m PROVE f[m] <= 100 * m - 100 + v[k]
    <3>1. CASE k = m
      BY <2>2, <2>3, <3>1
    <3>2. CASE k # m
      <4>1. k \in 1 .. m - 1 /\ v[k] \in 0 .. 100
        BY <1>2, <2>3, <3>2
      <4>2. f[m - 1] \in Nat /\ f[m - 1] <= 100 * (m - 1) - 100 + v[k]
        BY <2>2, <4>1
      <4>3. f[m - 1] \in Int /\ v[m] \in Int /\ v[m] <= 100 /\ v[k] \in Int
        BY <2>3, <4>1, <4>2
      <4>4. f[m - 1] + v[m] <= 100 * m - 100 + v[k]
        BY <2>3, <4>2, <4>3, OneMore
      <4> QED
        BY <2>3, <4>4
    <3> QED
      BY <3>1, <3>2
  <2> QED
    BY <1>2, <2>4, <2>5
<1> QED
  BY <1>4, <1>5

\* The mean shown on screen is a percentage, and it is a hundred only when
\* every queued task is at a hundred: rounding never hides a task.
THEOREM AggregateHonestHolds == Spec => []AggregateHonest
<1>1. TypeOK => AggregateHonest
  <2> SUFFICES ASSUME TypeOK, queue # <<>> PROVE AggregateHonest
    BY DEF AggregateHonest, AggregateProgress
  <2> DEFINE n == Len(queue)
             v == [i \in 1 .. n |-> queue[i].progress]
             sum == CHOOSE f : f = [i \in 0 .. n |->
                      IF i = 0 THEN 0 ELSE f[i - 1] + queue[i].progress]
  <2>1. n \in Nat /\ n >= 1
    BY HeadTail DEF TypeOK
  <2>2. \A i \in 1 .. n : queue[i].progress \in 0 .. 100
    <3> TAKE i \in 1 .. n
    <3>1. queue[i] \in Task
      BY DEF TypeOK
    <3> QED
      BY <3>1 DEF Task
  <2>3. AggregateProgress = (sum[n] * 100) \div (100 * n)
    BY DEF AggregateProgress
  <2>4. IsSum(sum, v, n)
    <3>1. PICK f : IsSum(f, v, n)
      BY <2>1, SumExists
    <3>2. f = [i \in 0 .. n |-> IF i = 0 THEN 0 ELSE f[i - 1] + queue[i].progress]
      <4>1. \A i \in 0 .. n : i # 0 => v[i] = queue[i].progress
        BY <2>1
      <4> HIDE DEF v
      <4>2. [i \in 0 .. n |-> IF i = 0 THEN 0 ELSE f[i - 1] + v[i]] =
            [i \in 0 .. n |-> IF i = 0 THEN 0 ELSE f[i - 1] + queue[i].progress]
        BY <4>1
      <4> QED
        BY <3>1, <4>2 DEF IsSum
    <3>3. sum = [i \in 0 .. n |->
                   IF i = 0 THEN 0 ELSE sum[i - 1] + queue[i].progress]
      BY <3>2, Zenon
    <3> HIDE DEF sum
    <3> QED
      BY <2>1, <3>3 DEF IsSum
  <2> HIDE DEF sum
  <2>5. /\ sum[n] \in Nat /\ sum[n] <= 100 * n
        /\ \A k \in 1 .. n : sum[n] <= 100 * n - 100 + queue[k].progress
    <3>1. \A i \in 1 .. n : v[i] \in 0 .. 100 /\ v[i] = queue[i].progress
      BY <2>2
    <3> HIDE DEF v
    <3>2. n \in 0 .. n
      BY <2>1
    <3> QED
      BY <2>1, <2>4, <3>1, <3>2, SumBound
  <2> HIDE DEF n
  <2>6. (sum[n] * 100) \div (100 * n) \in 0 .. 100
    <3> DEFINE x == sum[n]
               d == 100 * n
    <3>1. x \in Nat /\ d \in Nat /\ d > 0 /\ x <= d
      BY <2>1, <2>5
    <3> HIDE DEF x, d
    <3>2. d = 0 \/ x <= d
      BY <3>1
    <3>3. Percent(x, d) \in 0 .. 100
      BY <3>1, <3>2, PercentBound
    <3> QED
      BY <3>1, <3>3 DEF Percent, x, d
  <2>7. ASSUME (sum[n] * 100) \div (100 * n) = 100 PROVE sum[n] >= 100 * n
    <3> DEFINE x == sum[n] * 100
               d == 100 * n
    <3>1. x \in Nat /\ d \in Nat /\ d > 0 /\ x \div d = 100
      BY <2>1, <2>5, <2>7
    <3>2. (x \div d) * d <= x
      BY <3>1
    <3> QED
      BY <2>1, <2>5, <3>1, <3>2
  <2>8. ASSUME sum[n] >= 100 * n, NEW i \in 1 .. n
        PROVE  queue[i].progress = 100
    <3>1. sum[n] <= 100 * n - 100 + queue[i].progress
      BY <2>5
    <3>2. queue[i].progress \in 0 .. 100
      BY <2>2
    <3>3. \A x, y, z \in Int : x >= z /\ x <= z - 100 + y => y >= 100
      OBVIOUS
    <3>4. sum[n] \in Int /\ 100 * n \in Int /\ queue[i].progress \in Int
      BY <2>1, <2>5, <3>2
    <3>5. queue[i].progress >= 100
      BY <2>8, <3>1, <3>3, <3>4
    <3>6. \A y \in 0 .. 100 : y >= 100 => y = 100
      OBVIOUS
    <3> QED
      BY <3>2, <3>5, <3>6, Zenon
  <2> QED
    BY <2>3, <2>6, <2>7, <2>8 DEF AggregateHonest, n
<1> QED
  BY <1>1, TypeCorrect, PTL
=============================================================================
