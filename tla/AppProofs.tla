----------------------------- MODULE AppProofs -----------------------------
(***************************************************************************)
(* What module App guarantees for every set of paths, chunks and urls,     *)
(* every initial card, every number of tasks and every set of faults.      *)
(*                                                                         *)
(* The queue is the one of module TaskQueue, and what is proved of it      *)
(* there carries over: its theorems are instantiated here, and each step   *)
(* of the application is one of the queue's or leaves it alone, except     *)
(* that the store may end the program.                                     *)
(***************************************************************************)
EXTENDS App, TLAPS

P == INSTANCE TaskQueueProofs

-----------------------------------------------------------------------------
(* The queue of module App is the queue the theorems are about.            *)

\* What the theorems assume of the constants, the application assumes too.
LEMMA SameAssumption ==
  /\ MaxTasks \in Nat
  /\ Faults \subseteq P!AllFaults
  /\ FreshOps \subseteq {P!NullOp, P!GarbageOp}
  /\ Disks \subseteq [Path -> P!Node]
BY QueueAssumption
   DEF Q!AllFaults, P!AllFaults, Q!NullOp, P!NullOp, Q!GarbageOp, P!GarbageOp,
       Q!Node, P!Node

\* A frame's step of the task being served.
LEMMA SameEnds ==
  /\ Q!CopyRefused => P!CopyRefused
  /\ Q!CopyNoMemory => P!CopyNoMemory
  /\ Q!CopyAborted => P!CopyAborted
  /\ Q!CopyCompleted => P!CopyCompleted
  /\ Q!MoveCompleted => P!MoveCompleted
<1> USE DEF Q!Serving, P!Serving, Q!Transfers, P!Transfers, Q!Retire, P!Retire,
            Q!Readable, P!Readable, Q!Writable, P!Writable, Q!CanStep, P!CanStep,
            Q!Opened, P!Opened, Q!Source, P!Source, Q!File, P!File,
            Q!NoFile, P!NoFile
<1>1. Q!CopyRefused => P!CopyRefused
  BY Zenon DEF Q!CopyRefused, P!CopyRefused
<1>2. Q!CopyNoMemory => P!CopyNoMemory
  BY Zenon DEF Q!CopyNoMemory, P!CopyNoMemory
<1>3. Q!CopyAborted => P!CopyAborted
  BY Zenon DEF Q!CopyAborted, P!CopyAborted, Q!Cancelled, P!Cancelled,
               Q!Leftovers, P!Leftovers, Q!Written, P!Written
<1>4. Q!CopyCompleted => P!CopyCompleted
  BY Zenon DEF Q!CopyCompleted, P!CopyCompleted, Q!AtEnd, P!AtEnd, Q!Closed, P!Closed
<1>5. Q!MoveCompleted => P!MoveCompleted
  BY Zenon DEF Q!MoveCompleted, P!MoveCompleted, Q!AtEnd, P!AtEnd, Q!Closed, P!Closed,
               Q!Removed, P!Removed
<1> QED
  BY <1>1, <1>2, <1>3, <1>4, <1>5

LEMMA SameChunk == Q!CopyChunk => P!CopyChunk
BY Zenon
   DEF Q!CopyChunk, P!CopyChunk, Q!Serving, P!Serving, Q!Transfers, P!Transfers,
       Q!Readable, P!Readable, Q!Writable, P!Writable, Q!CanStep, P!CanStep,
       Q!Source, P!Source, Q!Opened, P!Opened, Q!Totals, P!Totals,
       Q!Cancelled, P!Cancelled, Q!Written, P!Written, Q!File, P!File,
       Q!LiveOp, P!LiveOp, Q!Percent, P!Percent

LEMMA SameOthers ==
  /\ Q!DeleteDone => P!DeleteDone
  /\ Q!DeleteFailed => P!DeleteFailed
  /\ Q!TodoDone => P!TodoDone
  /\ Q!CopyCrashes => P!CopyCrashes
BY DEF Q!DeleteDone, P!DeleteDone, Q!DeleteFailed, P!DeleteFailed,
       Q!TodoDone, P!TodoDone, Q!CopyCrashes, P!CopyCrashes,
       Q!Serving, P!Serving, Q!Transfers, P!Transfers, Q!Retire, P!Retire,
       Q!LeaveOrStay, P!LeaveOrStay, Q!NoFile, P!NoFile

LEMMA SameProcess == Q!Process => P!Process
BY SameEnds, SameChunk, SameOthers DEF Q!Process, P!Process

\* What is done to the queue between two frames.
LEMMA SameAdd ==
  ASSUME NEW type, NEW src, NEW dst, Q!Add(type, src, dst)
  PROVE  P!Add(type, src, dst)
BY Zenon DEF Q!Add, P!Add, Q!Enqueued, P!Enqueued, Q!NewTask, P!NewTask

LEMMA SameCancel == Q!CancelCurrent => P!CancelCurrent
BY Zenon DEF Q!CancelCurrent, P!CancelCurrent, Q!Serving, P!Serving

LEMMA SameInit == Q!Init => P!Init
BY DEF Q!Init, P!Init

LEMMA SameTypes == P!TypeOK => Q!TypeOK
BY Zenon
   DEF Q!TypeOK, P!TypeOK, Q!Task, P!Task, Q!Node, P!Node, Q!Op, P!Op,
       Q!NullOp, P!NullOp, Q!GarbageOp, P!GarbageOp, Q!Types, P!Types

\* The abstract jobs.
LEMMA SameJobs ==
  /\ P!Jobs!Init => Q!Jobs!Init
  /\ [P!Jobs!Next]_(P!Jobs!vars) => [Q!Jobs!Next]_(Q!Jobs!vars)
<1>1. P!Jobs!Init => Q!Jobs!Init
  BY Zenon DEF Q!Jobs!Init, P!Jobs!Init, Q!JobOf, P!JobOf
<1>2. P!Jobs!Next => Q!Jobs!Next
  BY Zenon
     DEF Q!Jobs!Next, P!Jobs!Next, Q!Jobs!Submit, P!Jobs!Submit,
         Q!Jobs!Claim, P!Jobs!Claim, Q!Jobs!Deliver, P!Jobs!Deliver,
         Q!Jobs!GiveUp, P!Jobs!GiveUp, Q!Jobs!Erase, P!Jobs!Erase,
         Q!Jobs!Shutdown, P!Jobs!Shutdown, Q!Jobs!Transfers, P!Jobs!Transfers,
         Q!Jobs!Prefixes, P!Jobs!Prefixes, Q!Jobs!File, P!Jobs!File,
         Q!Jobs!Pending, P!Jobs!Pending, Q!Jobs!NoFile, P!Jobs!NoFile,
         Q!JobOf, P!JobOf, Q!Types, P!Types
<1>3. UNCHANGED P!Jobs!vars => UNCHANGED Q!Jobs!vars
  BY Zenon DEF P!Jobs!vars, Q!Jobs!vars, Q!JobOf, P!JobOf
<1> QED
  BY <1>1, <1>2, <1>3

-----------------------------------------------------------------------------
(* The steps of the application.                                           *)

\* Only the loops that serve the queue, the explorer and the store touch it.
LEMMA QueueStep ==
  ASSUME [Next]_vars
  PROVE  [P!Next]_(P!vars) \/ StoreCrashes
<1>1. ASSUME NEW type \in Q!Types, NEW src \in Path, NEW dst \in Path,
             Q!Add(type, src, dst)
      PROVE  P!Next
  <2>1. P!Add(type, src, dst) /\ type \in P!Types
    BY <1>1, SameAdd DEF Q!Types, P!Types
  <2> QED
    BY <2>1 DEF P!Next, P!User
<1>2. UNCHANGED jobs => UNCHANGED P!vars
  BY DEF jobs, P!vars
<1>3. CASE Serve
  BY <1>2, <1>3, SameProcess DEF Serve, Served, P!Next
<1>4. CASE CancelTask
  BY <1>4, SameCancel DEF CancelTask, P!Next, P!User
<1>5. CASE BulkAdd
  <2>1. PICK type \in {"copy", "move", "delete"}, src \in Path, dst \in Path :
          Q!Add(type, src, dst)
    BY <1>5 DEF BulkAdd
  <2> QED
    BY <1>1, <2>1 DEF Q!Types
<1>6. CASE StoreSelect
  <2>1. PICK url \in Urls : Q!Add("todo", url, url)
    BY <1>6 DEF StoreSelect
  <2> QED
    BY <1>1, <2>1, StoreAssumption DEF Q!Types
<1>7. CASE HomeKeys \/ OpenSettings \/ (\E s \in Screens \ {"home"} : Open(s))
             \/ ExplorerKeys \/ LeaveExplorer \/ ExplorerDone \/ Return
  BY <1>2, <1>7 DEF HomeKeys, OpenSettings, Open, ExplorerKeys, LeaveExplorer,
                    ExplorerDone, Return
<1>8. CASE StoreIdle \/ StoreRefresh \/ StoreBack \/ StoreStays \/ StoreExits
  BY <1>2, <1>8 DEF StoreIdle, StoreRefresh, StoreBack, StoreStays, StoreExits
<1>9. CASE UNCHANGED vars
  BY <1>2, <1>9 DEF vars
<1> QED
  BY <1>3, <1>4, <1>5, <1>6, <1>7, <1>8, <1>9 DEF Next, Frame

\* A store that ends the program leaves everything but that as it was.
LEMMA CrashKeepsQueue ==
  ASSUME P!IInv, StoreCrashes
  PROVE  P!IInv' /\ UNCHANGED <<queue, disk>>
<1>1. /\ UNCHANGED <<queue, disk, handles, added>>
      /\ app = "running" /\ app' = "crashed"
  BY DEF StoreCrashes
<1>2. P!TypeOK'
  BY <1>1 DEF P!IInv, P!TypeOK
<1>3. P!OneOpenCopy'
  BY <1>1 DEF P!IInv, P!OneOpenCopy
<1>4. P!CopiedPrefix'
  BY <1>1 DEF P!IInv, P!CopiedPrefix
<1> QED
  BY <1>1, <1>2, <1>3, <1>4 DEF P!IInv

LEMMA QueueKept == P!IInv /\ [Next]_vars => P!IInv'
BY SameAssumption, QueueStep, CrashKeepsQueue, P!StepIInv

\* The application's own variables.
OwnTypes ==
  /\ screen \in Screens
  /\ phase \in {"serve", "keys", "bulk", "check"}
  /\ tab \in Tabs
  /\ cache \in {"none", "live", "freed"}
  /\ list \in {"null", "cache"}
  /\ list = "cache" => cache # "none"
  /\ downloading \in BOOLEAN

LEMMA OwnTypesKept == OwnTypes /\ [Next]_vars => OwnTypes'
<1> SUFFICES ASSUME OwnTypes, [Next]_vars PROVE OwnTypes'
  OBVIOUS
<1>1. CASE Serve \/ CancelTask \/ BulkAdd \/ ExplorerKeys \/ LeaveExplorer
             \/ ExplorerDone \/ Return \/ OpenSettings
  BY <1>1 DEF Serve, CancelTask, BulkAdd, ExplorerKeys, LeaveExplorer, ExplorerDone,
              Return, OpenSettings, Go, store, OwnTypes, Screens, Serving
<1>2. CASE HomeKeys \/ (\E s \in Screens \ {"home"} : Open(s))
  BY <1>2 DEF HomeKeys, Open, SwitchTab, Go, store, OwnTypes, Screens, Tabs
<1>3. CASE StoreIdle \/ StoreSelect \/ StoreBack
  BY <1>3 DEF StoreIdle, StoreSelect, StoreBack, Go, store, OwnTypes, Screens, Tabs
<1>4. CASE StoreRefresh
  BY <1>4 DEF StoreRefresh, Go, OwnTypes, Screens
<1>5. CASE StoreStays
  BY <1>5, Zenon DEF StoreStays, FlagChecked, Go, OwnTypes, Screens
<1>6. CASE StoreExits
  BY <1>6 DEF StoreExits, FlagChecked, Go, OwnTypes, Screens
<1>7. CASE StoreCrashes \/ UNCHANGED vars
  BY <1>7 DEF StoreCrashes, vars, store, OwnTypes
<1> QED
  BY <1>1, <1>2, <1>3, <1>4, <1>5, <1>6, <1>7 DEF Next, Frame

-----------------------------------------------------------------------------
(* The theorems.                                                           *)

\* Queue and screens keep their types in every loop the user can be in; the
\* store shows a list only if there is or was a catalog (core/app.c,
\* features/hbstore_ui.c).
THEOREM TypeCorrect == Spec => []TypeOK
<1>1. Init => P!IInv /\ OwnTypes
  <2>1. Init => P!IInv
    BY SameAssumption, SameInit, P!InitIInv DEF Init
  <2>2. Init => OwnTypes
    BY DEF Init, OwnTypes, Screens, Tabs
  <2> QED
    BY <2>1, <2>2
<1>2. P!IInv /\ OwnTypes => TypeOK
  BY SameTypes DEF P!IInv, OwnTypes, TypeOK
<1> QED
  BY <1>1, <1>2, QueueKept, OwnTypesKept, PTL DEF Spec

\* Whatever screens submit tasks and whichever serve them, the queue they share
\* does its jobs one at a time in the order they came (core/app.c).
THEOREM QueueImplementsFileJobsHolds ==
  ASSUME P!ReportedFaultsOnly, P!CleanContexts
  PROVE  Spec => QueueImplementsFileJobs
<1>1. Init => P!CleanInv /\ P!Jobs!Init
  BY SameAssumption, SameInit, P!InitPromised DEF Init
<1>2. P!CleanInv /\ [Next]_vars => P!CleanInv' /\ [P!Jobs!Next]_(P!Jobs!vars)
  <2> SUFFICES ASSUME P!CleanInv, [Next]_vars
               PROVE  P!CleanInv' /\ [P!Jobs!Next]_(P!Jobs!vars)
    OBVIOUS
  <2>1. CASE [P!Next]_(P!vars)
    BY <2>1, SameAssumption, P!StepPromised
  <2>2. CASE StoreCrashes
    <3>1. P!IInv' /\ UNCHANGED <<queue, disk>>
      BY <2>2, CrashKeepsQueue DEF P!CleanInv
    <3>2. P!CleanInv'
      BY <3>1 DEF P!CleanInv, P!NoGarbage
    <3> QED
      BY <3>1, <3>2, SameAssumption, P!SeenOnly
  <2> QED
    BY <2>1, <2>2, QueueStep
<1> QED
  BY <1>1, <1>2, SameJobs, PTL DEF Spec, QueueImplementsFileJobs,
     Q!ImplementsFileJobs, Q!Jobs!Spec
=============================================================================
