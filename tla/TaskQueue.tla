----------------------------- MODULE TaskQueue -----------------------------
(***************************************************************************)
(* The background task queue (core/task_queue.c) with the incremental file *)
(* copy it drives (fs_copy_begin / step / abort / finish, file/fs_ops.c).  *)
(*                                                                         *)
(* The program is single threaded.  Once per frame the main loop, or the   *)
(* modal loop in front of it, calls task_queue_process, which performs one *)
(* step of the task at the head of a singly linked list; between two such  *)
(* calls the user interface adds tasks, asks for their cancellation, or    *)
(* ends the program.  A copy or a move takes many frames, so every one of  *)
(* those operations can meet a copy that is half done.                     *)
(*                                                                         *)
(* Data is a sequence of chunks, a chunk being what one fs_copy_step moves *)
(* (32 KiB).  The environment's faults are a parameter, so that a run says *)
(* which of them it admits.                                                *)
(***************************************************************************)
EXTENDS Naturals, Sequences

CONSTANTS
  Path,      \* the paths tasks name
  Chunk,     \* the chunks files are made of
  Disks,     \* what the SD card may hold at start
  MaxTasks,  \* bound: how many tasks are ever added
  Faults,    \* the faults the environment may produce, a subset of AllFaults
  FreshOps   \* what a malloc'ed Task may hold in op_ctx, which
             \* task_queue_add leaves uninitialised

\* "refuse": a path is rejected, or memory or fopen fails before the
\*           destination is opened;   "nomem": memory fails after it;
\* "stat":   the size of the source is not known;
\* "read", "write", "remove": the call fails;
\* "close":  fclose cannot write out the data still buffered;
\* "shared": a file open for reading can be opened for writing.
AllFaults ==
  {"refuse", "nomem", "stat", "read", "write", "remove", "close", "shared"}

NoFile     == [kind |-> "none", data |-> <<>>]
Folder     == [kind |-> "dir",  data |-> <<>>]     \* an empty folder
FullFolder == [kind |-> "full", data |-> <<>>]     \* one with entries
File(data) == [kind |-> "file", data |-> data]

Node ==
  [kind : {"none", "dir", "full"}, data : {<<>>}] \cup
  [kind : {"file"}, data : Seq(Chunk)]

\* op_ctx: a null pointer, garbage, or an open copy that has moved pos
\* chunks of the total it found when it began.
NullOp           == [st |-> "null", pos |-> 0, total |-> 0]
GarbageOp        == [st |-> "garbage", pos |-> 0, total |-> 0]
LiveOp(p, total) == [st |-> "live", pos |-> p, total |-> total]
Op == {NullOp, GarbageOp} \cup [st : {"live"}, pos : Nat, total : Nat]

\* "todo" stands for the task types whose case in task_execute is empty.
Types == {"copy", "move", "delete", "todo"}

Task ==
  [id : 1 .. MaxTasks, type : Types, src : Path, dst : Path,
   cancel : BOOLEAN, err : BOOLEAN, progress : 0 .. 100, op : Op]

ASSUME ConstantsAssumption ==
  /\ MaxTasks \in Nat
  /\ Faults \subseteq AllFaults
  /\ FreshOps \subseteq {NullOp, GarbageOp}
  /\ Disks \subseteq [Path -> Node]

VARIABLES
  queue,     \* the list from task_queue_head; its head is the current task
  disk,      \* what each path holds
  handles,   \* the ids of the tasks whose copy has its two files open
  added,     \* how many tasks were ever added: the source of ids
  app        \* "running", "exited", or "crashed"

vars == <<queue, disk, handles, added, app>>

-----------------------------------------------------------------------------
(* The file operations, on the task t at the head of the queue.            *)

Transfers(t) == t.type \in {"copy", "move"}

Readable(t) == disk[t.src].kind = "file"

Writable(t) ==
  /\ disk[t.dst].kind \in {"none", "file"}
  /\ t.src # t.dst \/ "shared" \in Faults

\* Mutant of Opened: the destination is opened without being emptied.
OpenedInPlace(t) == disk

\* fs_copy_begin opens the source "rb", then the destination "wb", which
\* empties it.  A task that holds a context has done so in an earlier frame.
Opened(t) ==
  IF t.op.st = "live" THEN disk ELSE [disk EXCEPT ![t.dst] = File(<<>>)]

CanStep(t) ==
  \/ t.op.st = "live"
  \/ t.op.st = "null" /\ Readable(t) /\ Writable(t)

Source(t) == Opened(t)[t.src].data

\* The size stat reports after both files are open, or 0 when it fails.
Totals(t) ==
  IF t.op.st = "live" THEN {t.op.total}
  ELSE {Len(Source(t))} \cup (IF "stat" \in Faults THEN {0} ELSE {})

\* Mutant of Percent: the chunk about to be moved is counted twice.
PercentAhead(p, total) == IF total = 0 THEN 0 ELSE ((p + 1) * 100) \div total

\* Progress after p chunks of total: untouched, hence 0, without a total.
Percent(p, total) == IF total = 0 THEN 0 ELSE (p * 100) \div total

\* The disk after one more chunk was written to the destination.
Written(t) ==
  [Opened(t) EXCEPT ![t.dst] =
     File(Append(Opened(t)[t.dst].data, Source(t)[t.op.pos + 1]))]

\* fs_copy_abort removes the destination, and does not notice if it cannot.
Leftovers(t) ==
  {[Opened(t) EXCEPT ![t.dst] = NoFile]} \cup
  (IF "remove" \in Faults THEN {Opened(t), Written(t)} ELSE {})

\* fs_copy_finish ignores what fclose returns.
Closed(t) ==
  LET d == Opened(t)[t.dst].data
  IN  {Opened(t)} \cup
      (IF "close" \in Faults /\ d # <<>>
       THEN {[Opened(t) EXCEPT ![t.dst] = File(SubSeq(d, 1, Len(d) - 1))]}
       ELSE {})

\* remove(task->src_path) at the end of a move.
Removed(t, d) ==
  {[d EXCEPT ![t.src] = NoFile]} \cup
  (IF "remove" \in Faults THEN {d} ELSE {})

\* Mutant of AtEnd: the copy stops one chunk short.
AtEndEarly(t) == t.op.pos + 1 >= Len(Source(t))

\* A fread that returns nothing is taken for the end of the source.
AtEnd(t) == t.op.pos >= Len(Source(t)) \/ "read" \in Faults

\* Mutant of Cancelled: the flag is looked at before the first chunk only.
CancelledUnlessFirst(t) == t.cancel /\ t.op.pos > 0

\* The flag is looked at after each chunk that was written.
Cancelled(t) == t.cancel

-----------------------------------------------------------------------------
(* task_queue_process: one action per way a frame can go.                  *)

Serving == app = "running" /\ queue # <<>>

\* Mutant of Retire: the files of the copy stay open.
RetireLeaking(t) == queue' = Tail(queue) /\ UNCHANGED <<handles, added, app>>

\* The task left the switch with a null op_ctx: it is unlinked and freed,
\* and its error with it.
Retire(t) ==
  /\ queue' = Tail(queue)
  /\ handles' = handles \ {t.id}
  /\ UNCHANGED <<added, app>>

\* fs_copy_begin fails before it touches the destination.
CopyRefused ==
  /\ Serving
  /\ LET t == Head(queue)
     IN  /\ Transfers(t)
         /\ t.op.st = "null"
         /\ ~Readable(t) \/ ~Writable(t) \/ "refuse" \in Faults
         /\ Retire(t)
  /\ UNCHANGED disk

\* fs_copy_begin runs out of memory with both files open: it closes them
\* and leaves the destination empty.
CopyNoMemory ==
  /\ Serving
  /\ "nomem" \in Faults
  /\ LET t == Head(queue)
     IN  /\ Transfers(t)
         /\ t.op.st = "null" /\ Readable(t) /\ Writable(t)
         /\ disk' = Opened(t)
         /\ Retire(t)

\* fs_copy_step moves a chunk and nobody asked for cancellation: the task
\* stays at the head.
CopyChunk ==
  /\ Serving
  /\ LET t == Head(queue)
     IN  /\ Transfers(t) /\ CanStep(t)
         /\ t.op.pos < Len(Source(t))
         /\ ~Cancelled(t)
         /\ disk' = Written(t)
         /\ handles' = handles \cup {t.id}
         /\ \E total \in Totals(t) :
              queue' = [queue EXCEPT ![1] =
                [t EXCEPT !.err = FALSE,
                          !.progress = Percent(t.op.pos + 1, total),
                          !.op = LiveOp(t.op.pos + 1, total)]]
  /\ UNCHANGED <<added, app>>

\* The write fails, or it succeeds and cancellation was asked for:
\* fs_copy_abort closes the files and removes the destination.
CopyAborted ==
  /\ Serving
  /\ LET t == Head(queue)
     IN  /\ Transfers(t) /\ CanStep(t)
         /\ t.op.pos < Len(Source(t))
         /\ Cancelled(t) \/ "write" \in Faults
         /\ disk' \in Leftovers(t)
         /\ Retire(t)

\* The end of the source: a copy is done.
CopyCompleted ==
  /\ Serving
  /\ LET t == Head(queue)
     IN  /\ t.type = "copy" /\ CanStep(t) /\ AtEnd(t)
         /\ disk' \in Closed(t)
         /\ Retire(t)

\* The end of the source: a move removes it.
MoveCompleted ==
  /\ Serving
  /\ LET t == Head(queue)
     IN  /\ t.type = "move" /\ CanStep(t) /\ AtEnd(t)
         /\ \E d \in Closed(t) : disk' \in Removed(t, d)
         /\ Retire(t)

\* Whether or not the delete succeeded, the task leaves only if its op_ctx
\* is null; task_execute never reads op_ctx nor cancel for a delete.
LeaveOrStay(t, failed) ==
  IF t.op.st = "null"
  THEN Retire(t)
  ELSE /\ queue' = [queue EXCEPT ![1] =
             [t EXCEPT !.err = failed, !.progress = IF failed THEN 0 ELSE 100]]
       /\ UNCHANGED <<handles, added, app>>

DeleteDone ==
  /\ Serving
  /\ LET t == Head(queue)
     IN  /\ t.type = "delete"
         /\ disk[t.src].kind \in {"file", "dir"}
         /\ disk' = [disk EXCEPT ![t.src] = NoFile]
         /\ LeaveOrStay(t, FALSE)

DeleteFailed ==
  /\ Serving
  /\ LET t == Head(queue)
     IN  /\ t.type = "delete"
         /\ \/ disk[t.src].kind \in {"none", "full"}
            \/ Faults \cap {"refuse", "remove"} # {}
         /\ LeaveOrStay(t, TRUE)
  /\ UNCHANGED disk

\* An unimplemented task does nothing; with garbage in op_ctx it does so
\* in every frame.
TodoDone ==
  /\ Serving
  /\ LET t == Head(queue)
     IN  /\ t.type = "todo"
         /\ t.op.st = "null"
         /\ Retire(t)
  /\ UNCHANGED disk

\* fs_copy_step follows a garbage pointer.
CopyCrashes ==
  /\ Serving
  /\ Transfers(Head(queue)) /\ Head(queue).op.st = "garbage"
  /\ app' = "crashed"
  /\ UNCHANGED <<queue, disk, handles, added>>

Process ==
  \/ CopyRefused \/ CopyNoMemory \/ CopyChunk \/ CopyAborted
  \/ CopyCompleted \/ MoveCompleted
  \/ DeleteDone \/ DeleteFailed \/ TodoDone \/ CopyCrashes

-----------------------------------------------------------------------------
(* What happens between two frames.                                        *)

NewTask(type, src, dst, op) ==
  [id |-> added + 1, type |-> type, src |-> src, dst |-> dst,
   cancel |-> FALSE, err |-> FALSE, progress |-> 0, op |-> op]

\* Mutant of Enqueued: the new task goes in front.
EnqueuedFirst(t) == <<t>> \o queue

\* task_queue_add walks to the last task and links the new one after it.
Enqueued(t) == Append(queue, t)

\* task_queue_add; a task with one path has it as src and dst.
Add(type, src, dst) ==
  /\ app = "running"
  /\ added < MaxTasks
  /\ type \in {"copy", "move"} \/ src = dst
  /\ \E op \in FreshOps :
        queue' = Enqueued(NewTask(type, src, dst, op))
  /\ added' = added + 1
  /\ UNCHANGED <<disk, handles, app>>

CancelFrom(first) ==
  /\ Serving
  /\ queue' = [i \in 1 .. Len(queue) |->
                 IF i >= first THEN [queue[i] EXCEPT !.cancel = TRUE]
                 ELSE queue[i]]
  /\ UNCHANGED <<disk, handles, added, app>>

CancelAll == CancelFrom(1)

CancelPending == CancelFrom(2)

\* The minus button of the file explorer.
CancelCurrent ==
  /\ Serving
  /\ queue' = [queue EXCEPT ![1] = [@ EXCEPT !.cancel = TRUE]]
  /\ UNCHANGED <<disk, handles, added, app>>

\* app_exit calls task_queue_clear, which frees every task and closes
\* nothing.
Exit ==
  /\ app = "running"
  /\ app' = "exited"
  /\ queue' = <<>>
  /\ UNCHANGED <<disk, handles, added>>

User ==
  \/ \E type \in Types, src, dst \in Path : Add(type, src, dst)
  \/ CancelAll \/ CancelPending \/ CancelCurrent
  \/ Exit

-----------------------------------------------------------------------------

Init ==
  /\ queue = <<>>
  /\ disk \in Disks
  /\ handles = {}
  /\ added = 0
  /\ app = "running"

Next == Process \/ User

Spec == Init /\ [][Next]_vars

\* The frame loop runs for as long as the program does; the user owes
\* nothing.
FairSpec == Spec /\ WF_vars(Process)

-----------------------------------------------------------------------------
(* task_queue_get_aggregate_progress: the mean progress of the queue.      *)

\* Mutant of AggregateProgress: only the current task counts.
ProgressOfHead == IF queue = <<>> THEN 100 ELSE Head(queue).progress

AggregateProgress ==
  LET sum[i \in 0 .. Len(queue)] ==
        IF i = 0 THEN 0 ELSE sum[i - 1] + queue[i].progress
  IN  IF queue = <<>> THEN 100
      ELSE (sum[Len(queue)] * 100) \div (100 * Len(queue))

-----------------------------------------------------------------------------
(* Properties.                                                             *)

\* Every variable has its type; in particular the percentage computed from
\* a chunk count and the size stat reported stays within 0..100.
TypeOK ==
  /\ queue \in Seq(Task)
  /\ disk \in [Path -> Node]
  /\ handles \subseteq 1 .. MaxTasks
  /\ added \in 0 .. MaxTasks
  /\ app \in {"running", "exited", "crashed"}

\* Only the task at the head ever holds an open copy, and as long as the
\* program lives the open files are exactly that copy's: whichever way a
\* copy ends (completed, failed, cancelled) its handles are closed, and no
\* task is freed while it holds some.
OneOpenCopy ==
  /\ \A i \in 2 .. Len(queue) : queue[i].op.st # "live"
  /\ app # "exited" =>
       handles = {queue[i].id : i \in {j \in 1 .. Len(queue) :
                                         queue[j].op.st = "live"}}

\* A copy in progress can be resumed in any later frame: its source is still
\* there, and its destination holds exactly the chunks counted so far,
\* whatever was queued, cancelled or added in between.
CopiedPrefix ==
  queue # <<>> /\ Head(queue).op.st = "live" =>
    LET t == Head(queue)
    IN  /\ Transfers(t)
        /\ t.src # t.dst
        /\ disk[t.src].kind = "file"
        /\ t.op.pos \in 1 .. Len(disk[t.src].data)
        /\ t.op.total \in {0, Len(disk[t.src].data)}
        /\ disk[t.dst] = File(SubSeq(disk[t.src].data, 1, t.op.pos))

\* No step changes a path unless the task being served names it: as the
\* target of a delete, as the destination of a copy or move, or as the
\* source of a move whose destination then holds all the source held.
NoSilentLoss ==
  [][\A p \in Path : disk'[p] # disk[p] =>
       /\ Serving
       /\ LET t == Head(queue)
          IN  \/ t.type = "delete" /\ t.src = p
              \/ Transfers(t) /\ t.dst = p /\ t.src # p
              \/ /\ t.type = "move" /\ t.src = p /\ t.dst # p
                 /\ disk'[t.dst] = disk[p]]_vars

\* A cancelled copy or move does not linger: the first frame that writes
\* anything for it also ends it.
CancelTakesEffect ==
  [][Serving /\ Transfers(Head(queue)) /\ Head(queue).cancel /\ disk' # disk
       => queue' = Tail(queue)]_vars

\* The mean shown to the user reaches 100 only when nothing is queued or
\* every queued task has written all it had to.
AggregateHonest ==
  /\ AggregateProgress \in 0 .. 100
  /\ AggregateProgress = 100 =>
       \A i \in 1 .. Len(queue) : queue[i].progress = 100

Ids == {queue[i].id : i \in 1 .. Len(queue)}

\* Every queued task is eventually served and freed, so nothing queued
\* behind it waits forever.
EveryTaskLeaves == \A n \in 1 .. MaxTasks : n \in Ids ~> n \notin Ids

\* A delete that has come to the head of the queue is carried out, or fails,
\* and leaves ("either completed or errored, advance", task_queue.c:219).
DeletesLeave ==
  \A n \in 1 .. MaxTasks :
    Serving /\ Head(queue).type = "delete" /\ Head(queue).id = n
      ~> n \notin Ids

-----------------------------------------------------------------------------
(* The queue implements the abstract file jobs: a destination is pending   *)
(* while the copy that writes it is open.                                  *)
JobOf(t) == [id |-> t.id, type |-> t.type, src |-> t.src, dst |-> t.dst]

Jobs == INSTANCE FileJobs WITH
  Job     <- [id : 1 .. MaxTasks, type : Types, src : Path, dst : Path],
  waiting <- [i \in 1 .. Len(queue) |-> JobOf(queue[i])],
  store   <- [p \in Path |->
               IF /\ queue # <<>>
                  /\ Head(queue).op.st = "live"
                  /\ Head(queue).dst = p
               THEN [kind |-> "pending", data |-> <<>>]
               ELSE disk[p]]

\* Jobs are served first in, first out, each one delivers its source whole
\* or gives up, and no half-written file is ever seen outside the
\* destination of the job being served.
ImplementsFileJobs == Jobs!Spec
=============================================================================
