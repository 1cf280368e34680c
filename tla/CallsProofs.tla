---------------------------- MODULE CallsProofs ----------------------------
(***************************************************************************)
(* What holds whenever a call of module Storage has returned, and what a   *)
(* backup, a restore and an export of the firmware have copied by then.    *)
(***************************************************************************)
EXTENDS StorageProofs

-----------------------------------------------------------------------------
(* Packages.                                                               *)

\* The fields of a call.
WorkFields == {"op", "stage", "file", "id", "entry", "pos", "left", "rc", "spilled"}

\* The only placeholder an installation has is that of the entry it writes.
OwnPlaceholder ==
  work.op = "install" /\ ~work.spilled =>
    placeholders \subseteq IF work.stage = "write" THEN {0, work.entry} ELSE {0}

\* A dump's contents are counted one by one: the one being copied when it ends.
Counted ==
  work.op = "dump" =>
    /\ work.pos \in Nat
    /\ work.stage \in {"content", "header"} => work.pos = Len(dumped.parts)
    /\ work.stage = "data" => work.pos + 1 = Len(dumped.parts)
    /\ work.stage = "done" /\ ~work.spilled => dumped.count = Len(dumped.parts)

\* What a dump may be.
Dump == [count : Nat, parts : Seq(Nat)]

\* Nothing is open between calls, and a socket exactly while the server runs.
Shut == (P!Idle => open = {}) /\ (server.socket <=> server.running)

\* What holds of packages at every step.
PackagesInv ==
  /\ DOMAIN work = WorkFields
  /\ dumped \in Dump
  /\ OwnPlaceholder
  /\ Counted
  /\ Shut

IPackages == running = "packages" => PackagesInv

\* Every step of the packages' part keeps its invariant.
LEMMA PackagesStep ==
  ASSUME IPackages, running = "packages", P!Next
  PROVE  PackagesInv'
<1>1. PackagesInv /\ DOMAIN work = WorkFields
  BY DEF IPackages, PackagesInv
<1>2. P!Idle <=> work.stage = "done"
  BY DEF P!Idle
<1>3. /\ DOMAIN P!NoWork = WorkFields /\ P!NoWork.op = "none" /\ P!NoWork.stage = "done"
      /\ P!NoWork.pos = 0 /\ P!NoWork.entry = 0 /\ P!NoWork.spilled = FALSE
  BY DEF P!NoWork, WorkFields
\* A step of a call.
<1>4. ASSUME DOMAIN work' = WorkFields, work'.op \notin {"install", "dump"}, UNCHANGED dumped, Shut'
      PROVE  PackagesInv'
  BY <1>1, <1>4 DEF PackagesInv, OwnPlaceholder, Counted
<1>5. CASE P!InstallStart
  <2>1. CASE P!Finish(P!Failed(P!NoWork)) /\ UNCHANGED <<placeholders, open>>
    <3>1. DOMAIN work' = WorkFields /\ work'.op = "none" /\ work'.stage = "done"
      BY <1>3, <2>1 DEF P!Finish, P!Failed, WorkFields
    <3> QED
      BY <1>1, <1>4, <1>5, <2>1, <3>1 DEF P!InstallStart, PackagesInv, Shut, P!Idle
  <2>2. CASE \E f \in Files, i \in Ids :
               /\ P!Step([P!NoWork EXCEPT !.op = "install", !.stage = "entry", !.file = f, !.id = i])
               /\ open' = {"storage", "file"}
               /\ placeholders' = IF placeholders = {} THEN {} ELSE {0}
    <3>1. DOMAIN work' = WorkFields /\ work'.op = "install" /\ work'.stage = "entry"
      BY <1>3, <2>2 DEF P!Step, WorkFields
    <3>2. placeholders' \subseteq {0} /\ UNCHANGED <<dumped, server>>
      BY <1>5, <2>2 DEF P!InstallStart
    <3> QED
      BY <1>1, <3>1, <3>2 DEF PackagesInv, OwnPlaceholder, Counted, Shut, P!Idle
  <2> QED
    BY <1>5, <2>1, <2>2 DEF P!InstallStart
<1>6. CASE P!InstallEnd
  <2>1. /\ DOMAIN work' = WorkFields /\ work'.op = "install" /\ work'.stage = "done"
        /\ work'.spilled = work.spilled /\ work.op = "install" /\ work.stage = "entry"
    BY <1>1, <1>6 DEF P!InstallEnd, P!Finish, WorkFields
  <2> QED
    BY <1>1, <1>6, <2>1 DEF P!InstallEnd, PackagesInv, OwnPlaceholder, Counted, Shut, P!Idle
\* A step of an installation.
<1>7. ASSUME DOMAIN work' = WorkFields, work'.op = "install", work'.stage # "done", UNCHANGED <<dumped, server>>,
             OwnPlaceholder'
      PROVE  PackagesInv'
  BY <1>1, <1>7 DEF PackagesInv, Counted, Shut, P!Idle
<1>8. CASE P!InstallEntry
  <2> DEFINE w == [work EXCEPT !.entry = @ + 1, !.pos = @ + 1]
  <2>1. /\ DOMAIN w = WorkFields /\ w.op = "install" /\ w.stage = "entry"
        /\ w.spilled = work.spilled /\ work.op = "install" /\ work.stage = "entry"
    BY <1>1, <1>8 DEF P!InstallEntry, WorkFields
  <2> HIDE DEF w
  <2>2. \/ /\ UNCHANGED placeholders
           /\ work' = w \/ work' = [w EXCEPT !.rc = "err"]
        \/ /\ placeholders' = placeholders \cup {w.entry}
           /\ work' = [w EXCEPT !.stage = "write", !.left = w.file.sizes[w.entry], !.rc = "ok"]
    BY <1>8 DEF P!InstallEntry, P!Step, P!Failed, w
  <2>3. CASE UNCHANGED placeholders /\ (work' = w \/ work' = [w EXCEPT !.rc = "err"])
    <3>1. /\ DOMAIN work' = WorkFields /\ work'.op = "install" /\ work'.stage = "entry"
          /\ work'.spilled = work.spilled
      BY <2>1, <2>3 DEF WorkFields
    <3> QED
      BY <1>1, <1>7, <1>8, <2>1, <2>3, <3>1 DEF P!InstallEntry, PackagesInv, OwnPlaceholder
  <2>4. CASE /\ placeholders' = placeholders \cup {w.entry}
             /\ work' = [w EXCEPT !.stage = "write", !.left = w.file.sizes[w.entry], !.rc = "ok"]
    <3>1. /\ DOMAIN work' = WorkFields /\ work'.op = "install" /\ work'.stage = "write"
          /\ work'.spilled = work.spilled /\ work'.entry = w.entry
      BY <2>1, <2>4 DEF WorkFields
    <3> QED
      BY <1>1, <1>7, <1>8, <2>1, <2>4, <3>1 DEF P!InstallEntry, PackagesInv, OwnPlaceholder
  <2> QED
    BY <2>2, <2>3, <2>4
<1>9. ASSUME work.op = "install", work.stage = "write", P!Discard(work), UNCHANGED <<dumped, server>>
      PROVE  PackagesInv'
  <2>1. /\ DOMAIN work' = WorkFields /\ work'.op = "install" /\ work'.stage = "entry"
        /\ \/ work'.spilled = TRUE
           \/ work'.spilled = work.spilled /\ placeholders' = placeholders \ {work.entry}
    BY <1>1, <1>9 DEF P!Discard, P!Step, P!Failed, WorkFields
  <2> QED
    BY <1>1, <1>7, <1>9, <2>1 DEF PackagesInv, OwnPlaceholder
<1>10. CASE P!InstallWrite
  <2>1. CASE P!Step([work EXCEPT !.left = @ - 1, !.pos = @ + 1]) /\ UNCHANGED placeholders
    <3>1. /\ DOMAIN work' = WorkFields /\ work'.op = "install" /\ work'.stage = "write"
          /\ work'.spilled = work.spilled /\ work'.entry = work.entry
          /\ work.op = "install" /\ work.stage = "write"
      BY <1>1, <1>10, <2>1 DEF P!InstallWrite, P!Step, WorkFields
    <3> QED
      BY <1>1, <1>7, <1>10, <2>1, <3>1 DEF P!InstallWrite, PackagesInv, OwnPlaceholder
  <2> QED
    BY <1>9, <1>10, <2>1 DEF P!InstallWrite
<1>11. CASE P!InstallRegister
  <2>1. CASE /\ placeholders' = placeholders \ {work.entry}
             /\ P!Step([work EXCEPT !.stage = "entry", !.rc = "ok"])
    <3>1. /\ DOMAIN work' = WorkFields /\ work'.op = "install" /\ work'.stage = "entry"
          /\ work'.spilled = work.spilled /\ work.op = "install" /\ work.stage = "write"
      BY <1>1, <1>11, <2>1 DEF P!InstallRegister, P!Step, WorkFields
    <3> QED
      BY <1>1, <1>7, <1>11, <2>1, <3>1 DEF P!InstallRegister, PackagesInv, OwnPlaceholder
  <2> QED
    BY <1>9, <1>11, <2>1 DEF P!InstallRegister
\* A step of a dump.
<1>12. ASSUME DOMAIN work' = WorkFields, work'.op = "dump", dumped' \in Dump, Counted', Shut'
       PROVE  PackagesInv'
  BY <1>12 DEF PackagesInv, OwnPlaceholder
<1>13. CASE P!DumpStart
  <2>1. CASE P!Finish(P!Failed(P!NoWork)) /\ UNCHANGED <<dumped, open>>
    <3>1. DOMAIN work' = WorkFields /\ work'.op = "none" /\ work'.stage = "done"
      BY <1>3, <2>1 DEF P!Finish, P!Failed, WorkFields
    <3> QED
      BY <1>1, <1>4, <1>13, <2>1, <3>1 DEF P!DumpStart, PackagesInv, Shut, P!Idle
  <2>2. CASE \E t \in Titles :
               /\ dumped' = [count |-> 0, parts |-> <<>>]
               /\ open' = {"meta", "storage", "file"}
               /\ \E stage \in {"content", "header"} :
                    P!Step([P!NoWork EXCEPT !.op = "dump", !.stage = stage,
                                            !.rc = IF stage = "content" THEN "ok" ELSE "err",
                                            !.file = [sizes |-> t, length |-> 0]])
    <3>1. /\ DOMAIN work' = WorkFields /\ work'.op = "dump" /\ work'.stage \in {"content", "header"}
          /\ work'.pos = 0
      BY <1>3, <2>2 DEF P!Step, WorkFields
    <3>2. dumped' \in Dump /\ Len(dumped'.parts) = 0 /\ UNCHANGED server
      <4>1. <<>> \in Seq(Nat) /\ Len(<<>>) = 0
        OBVIOUS
      <4>2. dumped' = [count |-> 0, parts |-> <<>>] /\ UNCHANGED server
        BY <1>13, <2>2 DEF P!DumpStart
      <4> QED
        BY <4>1, <4>2 DEF Dump
    <3> QED
      BY <1>1, <1>12, <3>1, <3>2 DEF PackagesInv, Counted, Shut, P!Idle
  <2> QED
    BY <1>13, <2>1, <2>2 DEF P!DumpStart
<1>14. CASE P!DumpContent
  <2>1. work.op = "dump" /\ work.stage = "content" /\ UNCHANGED server
    BY <1>14 DEF P!DumpContent
  <2>2. work.pos = Len(dumped.parts) /\ work.pos \in Nat /\ dumped \in Dump
    BY <1>1, <2>1 DEF PackagesInv, Counted
  <2>3. CASE P!DumpSkip
    <3>1. /\ DOMAIN work' = WorkFields /\ work'.op = "dump" /\ work'.stage = "content"
          /\ work'.pos = work.pos /\ dumped' = dumped
      BY <1>1, <2>1, <2>3 DEF P!DumpSkip, P!Step, P!Failed, WorkFields
    <3> QED
      BY <1>1, <1>12, <2>1, <2>2, <3>1 DEF PackagesInv, Counted, Shut, P!Idle
  <2>4. CASE P!DumpBegin
    <3>1. /\ DOMAIN work' = WorkFields /\ work'.op = "dump" /\ work'.stage = "data"
          /\ work'.pos = work.pos /\ dumped' = [dumped EXCEPT !.parts = Append(@, 0)]
      BY <1>1, <2>1, <2>4 DEF P!DumpBegin, P!Step, WorkFields
    <3>2. dumped' \in Dump /\ Len(dumped'.parts) = Len(dumped.parts) + 1
      <4>1. /\ Append(dumped.parts, 0) \in Seq(Nat)
            /\ Len(Append(dumped.parts, 0)) = Len(dumped.parts) + 1
        BY <2>2 DEF Dump
      <4>2. dumped' = [dumped EXCEPT !.parts = Append(dumped.parts, 0)]
        BY <2>2, <3>1 DEF Dump
      <4> QED
        BY <2>2, <4>1, <4>2 DEF Dump
    <3> QED
      BY <1>1, <1>12, <2>1, <2>2, <3>1, <3>2 DEF PackagesInv, Counted, Shut, P!Idle
  <2>5. CASE P!Step([work EXCEPT !.stage = "header"]) /\ UNCHANGED dumped
    <3>1. /\ DOMAIN work' = WorkFields /\ work'.op = "dump" /\ work'.stage = "header"
          /\ work'.pos = work.pos /\ dumped' = dumped
      BY <1>1, <2>1, <2>5 DEF P!Step, WorkFields
    <3> QED
      BY <1>1, <1>12, <2>1, <2>2, <3>1 DEF PackagesInv, Counted, Shut, P!Idle
  <2> QED
    BY <1>14, <2>3, <2>4, <2>5 DEF P!DumpContent
<1>15. CASE P!DumpData
  <2>1. work.op = "dump" /\ work.stage = "data" /\ UNCHANGED server
    BY <1>15 DEF P!DumpData
  <2>2. work.pos + 1 = Len(dumped.parts) /\ work.pos \in Nat /\ dumped \in Dump
    BY <1>1, <2>1 DEF PackagesInv, Counted
  <2>3. CASE /\ P!Step([work EXCEPT !.left = @ - 1])
             /\ \/ dumped' = [dumped EXCEPT !.parts[Len(dumped.parts)] = @ + 1]
                \/ UNCHANGED dumped
    <3>1. /\ DOMAIN work' = WorkFields /\ work'.op = "dump" /\ work'.stage = "data"
          /\ work'.pos = work.pos
      BY <1>1, <2>1, <2>3 DEF P!Step, WorkFields
    <3>2. dumped' \in Dump /\ Len(dumped'.parts) = Len(dumped.parts)
      <4> DEFINE n == Len(dumped.parts)
      <4>1. dumped.parts \in Seq(Nat) /\ n \in 1 .. Len(dumped.parts) /\ dumped.parts[n] \in Nat
        BY <2>2 DEF Dump
      <4>2. /\ [dumped.parts EXCEPT ![n] = @ + 1] \in Seq(Nat)
            /\ Len([dumped.parts EXCEPT ![n] = @ + 1]) = Len(dumped.parts)
        BY <4>1
      <4>3. dumped' = dumped \/ dumped' = [dumped EXCEPT !.parts = [dumped.parts EXCEPT ![n] = @ + 1]]
        BY <2>2, <2>3 DEF Dump
      <4> QED
        BY <2>2, <4>2, <4>3 DEF Dump
    <3> QED
      BY <1>1, <1>12, <2>1, <2>2, <3>1, <3>2 DEF PackagesInv, Counted, Shut, P!Idle
  <2>4. CASE \E rc \in IF work.left > 0 THEN {"err"} ELSE {work.rc} :
               /\ P!Step([work EXCEPT !.stage = "content", !.pos = @ + 1, !.rc = rc])
               /\ UNCHANGED dumped
    <3>1. /\ DOMAIN work' = WorkFields /\ work'.op = "dump" /\ work'.stage = "content"
          /\ work'.pos = work.pos + 1 /\ dumped' = dumped
      BY <1>1, <2>1, <2>4 DEF P!Step, WorkFields
    <3> QED
      BY <1>1, <1>12, <2>1, <2>2, <3>1 DEF PackagesInv, Counted, Shut, P!Idle
  <2> QED
    BY <1>15, <2>3, <2>4 DEF P!DumpData
<1>16. CASE P!DumpEnd
  <2>1. /\ work.op = "dump" /\ work.stage = "header" /\ open' = {} /\ UNCHANGED server
        /\ work.pos = Len(dumped.parts) /\ work.pos \in Nat /\ dumped \in Dump
    BY <1>1, <1>16 DEF P!DumpEnd, PackagesInv, Counted
  <2>2. CASE dumped' = [dumped EXCEPT !.count = work.pos] /\ P!Finish(work)
    <3>1. /\ DOMAIN work' = WorkFields /\ work'.op = "dump" /\ work'.stage = "done"
          /\ work'.pos = work.pos
      BY <1>1, <2>1, <2>2 DEF P!Finish, WorkFields
    <3>2. dumped' \in Dump /\ dumped'.count = work.pos /\ dumped'.parts = dumped.parts
      BY <2>1, <2>2 DEF Dump
    <3> QED
      BY <1>1, <1>12, <2>1, <3>1, <3>2 DEF PackagesInv, Counted, Shut
  <2>3. CASE UNCHANGED dumped /\ P!Finish([work EXCEPT !.spilled = TRUE])
    <3>1. /\ DOMAIN work' = WorkFields /\ work'.op = "dump" /\ work'.stage = "done"
          /\ work'.pos = work.pos /\ work'.spilled = TRUE
      BY <1>1, <2>1, <2>3 DEF P!Finish, WorkFields
    <3> QED
      BY <1>1, <1>12, <2>1, <2>3, <3>1 DEF PackagesInv, Counted, Shut
  <2> QED
    BY <1>16, <2>2, <2>3 DEF P!DumpEnd
<1>17. CASE P!ServerStart \/ P!ServerStop
  <2>1. UNCHANGED <<placeholders, dumped, open, work>> /\ (server'.socket <=> server'.running)
    BY <1>17 DEF P!ServerStart, P!ServerStop
  <2> QED
    BY <1>1, <2>1 DEF PackagesInv, OwnPlaceholder, Counted, Shut, P!Idle
<1>18. CASE P!Kill
  <2>1. DOMAIN work' = WorkFields /\ work'.op = "none"
    BY <1>3, <1>18 DEF P!Kill, P!Finish, WorkFields
  <2> QED
    BY <1>4, <1>18, <2>1 DEF P!Kill, Shut
<1> QED
  BY <1>5, <1>6, <1>8, <1>10, <1>11, <1>13, <1>14, <1>15, <1>16, <1>17, <1>18 DEF P!Next

\* The packages' invariant.
LEMMA PackagesKept == Spec => []IPackages
<1>1. Init => IPackages
  <2> SUFFICES ASSUME P!Init PROVE PackagesInv
    BY DEF Init, IPackages
  <2>1. DOMAIN work = WorkFields /\ work.op = "none" /\ work.stage = "done"
    BY DEF P!Init, P!NoWork, WorkFields
  <2>2. dumped \in Dump
    <3>1. <<>> \in Seq(Nat)
      OBVIOUS
    <3> QED
      BY <3>1 DEF P!Init, Dump
  <2> QED
    BY <2>1, <2>2 DEF P!Init, PackagesInv, OwnPlaceholder, Counted, Shut
<1>2. IPackages /\ [Next]_vars => IPackages'
  <2> SUFFICES ASSUME IPackages, [Next]_vars, running' = "packages"
               PROVE  PackagesInv'
    BY DEF IPackages
  <2>1. CASE running = "packages" /\ P!Next
    BY <2>1, PackagesStep
  <2>2. CASE UNCHANGED vars
    BY <2>2 DEF IPackages, vars, packagesVars, PackagesInv, OwnPlaceholder, Counted, Shut, P!Idle
  <2> QED
    BY <2>1, <2>2 DEF Next, Others
<1> QED
  BY <1>1, <1>2, PTL DEF Spec

\* An installation leaves no placeholder of its own, whichever step of it failed.
THEOREM PlaceholdersSettledHolds == Spec => []PlaceholdersSettled
<1>1. IPackages => PlaceholdersSettled
  BY DEF IPackages, PackagesInv, OwnPlaceholder, PlaceholdersSettled, P!PlaceholdersSettled, P!Idle
<1> QED
  BY PackagesKept, <1>1, PTL

-----------------------------------------------------------------------------
(* Images of partitions.                                                   *)

\* The fields of a call.
JobFields == {"op", "stage", "todo", "part", "at", "rc", "clean", "before"}

\* An image file and its configuration.
Image == [file : [kind : {"none", "file"}, data : Seq(Block)], ini : BOOLEAN]

\* What is in an image, and how much.
Dumped == image.file.data
Size   == Len(image.file.data)

\* A dump is a beginning of the partition until it is whole, and afterwards
\* too if its end was lost when it was closed.
Dumping ==
  job.op = "dump" =>
    /\ job.stage = "copy" =>
         Size <= Len(nand) /\ image.file = I!File(SubSeq(nand, 1, Size))
    /\ job.stage = "end" => job.rc # "ok"
    /\ job.stage = "done" /\ job.rc = "ok" =>
         /\ Size <= Len(nand) /\ image.file = I!File(SubSeq(nand, 1, Size))
         /\ job.clean => Size = Len(nand)

\* The partition holds the image before block k and what was there from it on.
RestoredTo(k) ==
  \A i \in 1 .. Len(nand) : nand[i] = IF i < k THEN Dumped[i] ELSE job.before[i]

\* A restore has a first block it has not written.
Restoring ==
  job.op = "restore" =>
    /\ job.before \in Seq(Block) /\ Len(job.before) = Len(nand) /\ Size <= Len(nand)
    /\ job.stage = "copy" =>
         \E k \in 1 .. Size + 1 : job.todo = k .. Size /\ RestoredTo(k)
    /\ job.stage = "end" => job.rc # "ok"
    /\ job.stage = "done" /\ job.rc = "ok" => RestoredTo(Size + 1)

\* No file is open between calls.
Shutdown == I!Idle => handles = {}

\* File systems are opened by attempts to mount the partition.
Mounts ==
  /\ DOMAIN mounted = {"ready", "open", "half"} /\ mounted.open \in Nat /\ mounted.half \in Nat
  /\ mounted.open = mounted.half + (IF mounted.ready THEN 1 ELSE 0)

\* What holds of images at every step.
ImagesInv ==
  /\ DOMAIN job = JobFields
  /\ nand \in Seq(Block)
  /\ image \in Image
  /\ Dumping
  /\ Restoring
  /\ Shutdown

IImages == running = "images" => ImagesInv /\ Mounts

\* Every step of the images' part accounts for the file systems it opens.
LEMMA MountsStep ==
  ASSUME Mounts, I!Next
  PROVE  Mounts'
<1>1. CASE UNCHANGED mounted
  BY <1>1 DEF Mounts
<1>2. CASE I!FirmwareInit
  <2>1. CASE mounted' = [mounted EXCEPT !.ready = TRUE, !.open = @ + 1] /\ ~mounted.ready
    BY <2>1 DEF Mounts
  <2>2. CASE mounted' = [mounted EXCEPT !.open = @ + 1, !.half = @ + 1]
    <3>1. /\ DOMAIN mounted' = {"ready", "open", "half"} /\ mounted'.ready = mounted.ready
          /\ mounted'.half = mounted.half + 1 /\ mounted'.open = mounted.open + 1
      BY <2>2 DEF Mounts
    <3> QED
      BY <3>1 DEF Mounts
  <2> QED
    BY <1>1, <1>2, <2>1, <2>2 DEF I!FirmwareInit
<1>3. CASE I!FirmwareExit
  <2>1. /\ mounted.ready /\ mounted' = [mounted EXCEPT !.ready = FALSE, !.open = @ - 1]
        /\ mounted.open = mounted.half + 1
    BY <1>3 DEF I!FirmwareExit, Mounts
  <2>2. /\ DOMAIN mounted' = {"ready", "open", "half"}
        /\ mounted'.ready = FALSE /\ mounted'.half = mounted.half /\ mounted'.open = mounted.half
    BY <2>1 DEF Mounts
  <2> QED
    BY <2>1, <2>2 DEF Mounts
<1>4. CASE I!Kill
  BY <1>4 DEF I!Kill, I!NotMounted, Mounts
<1> QED
  BY <1>1, <1>2, <1>3, <1>4
  DEF I!Next, I!DumpStart, I!DumpBlock, I!DumpEnd, I!RestoreStart, I!RestoreBlock, I!RestoreEnd,
      I!ExportStart, I!ExportFile, I!ExportBlock, I!ExportEnd,
      I!ExtractFile, I!ListContents, I!Verify, I!Unwritten, I!SystemWrites

\* Every step of the images' part keeps its invariant.
LEMMA ImagesStep ==
  ASSUME IImages, running = "images", I!Next
  PROVE  ImagesInv'
<1>1. ImagesInv /\ DOMAIN job = JobFields
  BY DEF IImages, ImagesInv
<1>2. /\ DOMAIN I!NoJob = JobFields /\ I!NoJob.op = "none" /\ I!NoJob.stage = "done"
      /\ I!NoJob.rc = "ok"
  BY DEF I!NoJob, JobFields
\* A call that is neither.
<1>3. ASSUME DOMAIN job' = JobFields, job'.op \notin {"dump", "restore"},
             nand' \in Seq(Block), UNCHANGED image, Shutdown'
      PROVE  ImagesInv'
  BY <1>1, <1>3 DEF ImagesInv, Dumping, Restoring
\* A call that fails at once, or has nothing to do.
<1>4. ASSUME NEW j, j = I!NoJob \/ j = I!Failed(I!NoJob), I!Finish(j), nand' \in Seq(Block), UNCHANGED image
      PROVE  ImagesInv'
  <2>1. DOMAIN job' = JobFields /\ job'.op = "none" /\ handles' = {}
    BY <1>2, <1>4 DEF I!Finish, I!Failed, JobFields
  <2> QED
    BY <1>3, <1>4, <2>1 DEF Shutdown
<1>5. CASE I!DumpStart
  <2>1. nand' = nand /\ nand \in Seq(Block)
    BY <1>1, <1>5 DEF I!DumpStart, ImagesInv
  <2>2. CASE I!Finish(I!Failed(I!NoJob)) /\ UNCHANGED image
    BY <1>4, <2>1, <2>2
  <2>3. CASE /\ image' = [image EXCEPT !.file = I!File(<<>>)]
             /\ I!Run([I!NoJob EXCEPT !.op = "dump", !.stage = "copy"])
    <3>1. DOMAIN job' = JobFields /\ job'.op = "dump" /\ job'.stage = "copy"
      BY <1>2, <2>3 DEF I!Run, JobFields
    <3>2. <<>> \in Seq(Block) /\ Len(<<>>) = 0 /\ SubSeq(nand, 1, 0) = <<>>
      BY <2>1
    <3>3. image' \in Image /\ image'.file = I!File(<<>>) /\ image'.file.data = <<>>
      BY <1>1, <2>3, <3>2 DEF ImagesInv, Image, I!File
    <3>4. Size' = 0 /\ nand' = nand /\ SubSeq(nand', 1, Size') = <<>>
      BY <2>1, <3>2, <3>3 DEF Size
    <3>5. Size' <= Len(nand') /\ image'.file = I!File(SubSeq(nand', 1, Size'))
      <4>1. Size' <= Len(nand')
        <5>1. 0 <= Len(nand)
          BY <2>1
        <5> QED
          BY <3>4, <5>1
      <4>2. image'.file = I!File(SubSeq(nand', 1, Size'))
        BY <3>3, <3>4
      <4> QED
        BY <4>1, <4>2
    <3>6. Dumping'
      BY <3>1, <3>5 DEF Dumping
    <3> QED
      BY <2>1, <3>1, <3>3, <3>6 DEF ImagesInv, Restoring, Shutdown, I!Idle
  <2> QED
    BY <1>5, <2>2, <2>3 DEF I!DumpStart
<1>6. CASE I!DumpBlock
  <2>1. /\ job.op = "dump" /\ job.stage = "copy" /\ nand' = nand /\ handles' = handles
        /\ Size < Len(nand) /\ nand \in Seq(Block) /\ image \in Image
    BY <1>1, <1>6 DEF I!DumpBlock, ImagesInv, Size
  <2>2. image.file = I!File(SubSeq(nand, 1, Size)) /\ Size \in Nat
    BY <1>1, <2>1 DEF ImagesInv, Dumping, Image, Size
  <2>3. CASE image' = [image EXCEPT !.file = I!File(Append(@.data, nand[Size + 1]))] /\ UNCHANGED job
    <3>1. image.file.data = SubSeq(nand, 1, Size)
      BY <2>2 DEF I!File
    <3> DEFINE s == SubSeq(nand, 1, Size + 1)
    <3>2. Append(image.file.data, nand[Size + 1]) = s /\ s \in Seq(Block) /\ Len(s) = Size + 1
      BY <2>1, <2>2, <3>1, ExtendPrefix
    <3> HIDE DEF s
    <3>3. image' = [image EXCEPT !.file = I!File(s)]
      BY <2>1, <2>3, <3>2 DEF Image
    <3>4. image' \in Image /\ image'.file = I!File(s) /\ image'.file.data = s
      BY <2>1, <3>2, <3>3 DEF Image, I!File
    <3>5. Size' = Size + 1
      BY <3>2, <3>4 DEF Size
    <3> QED
      BY <1>1, <2>1, <2>2, <2>3, <3>4, <3>5 DEF ImagesInv, Dumping, Restoring, Shutdown, I!Idle, s
  <2>4. CASE UNCHANGED image /\ I!Run([I!Failed(job) EXCEPT !.stage = "end"])
    <3>1. DOMAIN job' = JobFields /\ job'.op = "dump" /\ job'.stage = "end" /\ job'.rc = "err"
      BY <1>1, <2>1, <2>4 DEF I!Run, I!Failed, JobFields
    <3> QED
      BY <1>1, <2>1, <2>4, <3>1 DEF ImagesInv, Dumping, Restoring, Shutdown, I!Idle
  <2> QED
    BY <1>6, <2>3, <2>4 DEF I!DumpBlock, Size
<1>7. CASE I!DumpEnd
  <2>1. /\ job.op = "dump" /\ nand' = nand
        /\ job.stage = "end" \/ (job.stage = "copy" /\ Size = Len(nand))
    BY <1>7 DEF I!DumpEnd, Size
  <2>2. nand \in Seq(Block) /\ image \in Image /\ Dumped \in Seq(Block)
    BY <1>1 DEF ImagesInv, Image, Dumped
  <2>3. PICK f \in I!ClosedImages, ini \in {image.ini, image.ini \/ job.rc = "ok"} :
          /\ image' = [file |-> f, ini |-> ini]
          /\ I!Finish([job EXCEPT !.clean = @ /\ f = image.file])
    BY <1>7 DEF I!DumpEnd
  <2>4. /\ DOMAIN job' = JobFields /\ job'.op = "dump" /\ job'.stage = "done" /\ job'.rc = job.rc
        /\ handles' = {} /\ (job'.clean => f = image.file)
    BY <1>1, <2>1, <2>3 DEF I!Finish, JobFields
  <2>5. f = image.file \/ (Size # 0 /\ f = I!File(SubSeq(Dumped, 1, Size - 1)))
    BY <2>2, <2>3 DEF I!ClosedImages, Dumped, Size
  <2>6. image' \in Image /\ image'.file = f
    <3>1. ini \in BOOLEAN
      <4>1. image.ini \in BOOLEAN
        BY <2>2 DEF Image
      <4>2. ini = image.ini \/ ini = (image.ini \/ job.rc = "ok")
        BY <2>3
      <4> QED
        BY <4>1, <4>2, Zenon
    <3>2. f \in [kind : {"none", "file"}, data : Seq(Block)]
      <4>1. image.file \in [kind : {"none", "file"}, data : Seq(Block)]
        BY <2>2 DEF Image
      <4>2. Size # 0 => SubSeq(Dumped, 1, Size - 1) \in Seq(Block)
        BY <2>2 DEF Size, Dumped
      <4> QED
        <5>1. CASE f = image.file
          BY <4>1, <5>1
        <5>2. CASE Size # 0 /\ f = I!File(SubSeq(Dumped, 1, Size - 1))
          BY <4>2, <5>2 DEF I!File
        <5> QED
          BY <2>5, <5>1, <5>2
    <3> QED
      BY <2>3, <3>1, <3>2 DEF Image
  <2>7. ASSUME job.rc = "ok"
        PROVE  /\ Size' <= Len(nand) /\ f = I!File(SubSeq(nand, 1, Size'))
               /\ f = image.file => Size' = Len(nand)
    <3>1. job.stage = "copy" /\ Size = Len(nand) /\ image.file = I!File(SubSeq(nand, 1, Size))
      BY <1>1, <2>1, <2>7 DEF ImagesInv, Dumping
    <3>2. CASE f = image.file
      BY <2>2, <2>6, <3>1, <3>2 DEF Size
    <3>3. CASE f # image.file
      <4>1. Dumped = SubSeq(nand, 1, Size) /\ Size \in Nat /\ Size # 0
        BY <2>2, <2>5, <3>1, <3>3 DEF I!File, Dumped
      <4>2. SubSeq(Dumped, 1, Size - 1) = SubSeq(nand, 1, Size - 1) /\ Len(SubSeq(nand, 1, Size - 1)) = Size - 1
        BY <2>2, <3>1, <4>1
      <4>3. f = I!File(SubSeq(nand, 1, Size - 1)) /\ Size' = Size - 1
        BY <2>5, <2>6, <3>3, <4>2 DEF I!File, Size
      <4> QED
        BY <3>1, <3>3, <4>1, <4>3
    <3> QED
      BY <3>2, <3>3
  <2>8. Dumping'
    BY <2>1, <2>4, <2>6, <2>7 DEF Dumping
  <2> QED
    BY <2>1, <2>2, <2>4, <2>6, <2>8 DEF ImagesInv, Restoring, Shutdown
<1>8. CASE I!RestoreStart
  <2>1. nand' = nand /\ image' = image /\ nand \in Seq(Block) /\ image \in Image
    BY <1>1, <1>8 DEF I!RestoreStart, ImagesInv
  <2>2. CASE I!Finish(I!Failed(I!NoJob))
    BY <1>4, <2>1, <2>2
  <2>3. CASE /\ I!Fits
             /\ I!Run([I!NoJob EXCEPT !.op = "restore", !.stage = "copy", !.before = nand,
                                      !.todo = 1 .. Len(image.file.data)])
    <3>1. /\ DOMAIN job' = JobFields /\ job'.op = "restore" /\ job'.stage = "copy" /\ job'.before = nand
          /\ job'.todo = 1 .. Size
      BY <1>2, <2>3 DEF I!Run, JobFields, Size
    <3>2. Size \in Nat /\ Size <= Len(nand) /\ Size' = Size
      BY <2>1, <2>3 DEF Size, I!Fits, Image
    <3>3. RestoredTo(1)'
      BY <2>1, <3>1 DEF RestoredTo
    <3>4. 1 \in 1 .. Size + 1
      BY <3>2
    <3> QED
      BY <2>1, <3>1, <3>2, <3>3, <3>4 DEF ImagesInv, Dumping, Restoring, Shutdown, I!Idle
  <2> QED
    BY <1>8, <2>2, <2>3 DEF I!RestoreStart
<1>9. CASE I!RestoreBlock
  <2> DEFINE n == CHOOSE i \in job.todo : \A m \in job.todo : i <= m
  <2>1. /\ job.op = "restore" /\ job.stage = "copy" /\ job.todo # {} /\ image' = image /\ handles' = handles
        /\ nand \in Seq(Block) /\ image \in Image /\ Size \in Nat /\ Size' = Size
        /\ job.before \in Seq(Block) /\ Len(job.before) = Len(nand) /\ Size <= Len(nand)
    BY <1>1, <1>9 DEF I!RestoreBlock, ImagesInv, Restoring, Image, Size
  <2>2. \/ nand' = [nand EXCEPT ![n] = image.file.data[n]] /\ I!Run([job EXCEPT !.todo = @ \ {n}])
        \/ UNCHANGED nand /\ I!Run([I!Failed(job) EXCEPT !.stage = "end"])
    BY <1>9 DEF I!RestoreBlock
  <2>3. PICK k \in 1 .. Size + 1 : job.todo = k .. Size /\ RestoredTo(k)
    BY <1>1, <2>1 DEF ImagesInv, Restoring
  <2>4. n = k /\ k <= Size
    <3>1. k \in job.todo /\ \A m \in job.todo : k <= m
      BY <2>1, <2>3
    <3>2. n \in job.todo /\ \A m \in job.todo : n <= m
      BY <3>1
    <3> QED
      BY <2>3, <3>1, <3>2
  <2> HIDE DEF n
  <2>5. CASE nand' = [nand EXCEPT ![n] = image.file.data[n]] /\ I!Run([job EXCEPT !.todo = @ \ {n}])
    <3>1. /\ DOMAIN job' = JobFields /\ job'.op = "restore" /\ job'.stage = "copy" /\ job'.before = job.before
          /\ job'.todo = job.todo \ {k}
      BY <1>1, <2>1, <2>4, <2>5 DEF I!Run, JobFields
    <3>2. job'.todo = k + 1 .. Size /\ k + 1 \in 1 .. Size + 1
      <4>1. k \in Nat /\ Size \in Nat /\ k <= Size /\ k >= 1
        BY <2>1, <2>3, <2>4
      <4>2. job'.todo = (k .. Size) \ {k}
        BY <2>3, <3>1
      <4>3. (k .. Size) \ {k} = k + 1 .. Size
        BY <4>1
      <4>4. k + 1 \in 1 .. Size + 1
        BY <4>1
      <4> QED
        BY <4>2, <4>3, <4>4
    <3>3. Dumped[k] \in Block /\ k \in 1 .. Len(nand) /\ Dumped' = Dumped
      BY <2>1, <2>3, <2>4 DEF Dumped, Size, Image
    <3>4. nand' = [nand EXCEPT ![k] = Dumped[k]]
      BY <2>4, <2>5 DEF Dumped
    <3>5. /\ nand' \in Seq(Block) /\ Len(nand') = Len(nand)
          /\ \A i \in 1 .. Len(nand) : nand'[i] = IF i = k THEN Dumped[k] ELSE nand[i]
      BY <2>1, <3>3, <3>4
    <3>6. RestoredTo(k + 1)'
      BY <2>1, <2>3, <3>1, <3>3, <3>5 DEF RestoredTo
    <3> QED
      BY <1>1, <2>1, <3>1, <3>2, <3>5, <3>6 DEF ImagesInv, Dumping, Restoring, Shutdown, I!Idle
  <2>6. CASE UNCHANGED nand /\ I!Run([I!Failed(job) EXCEPT !.stage = "end"])
    <3>1. /\ DOMAIN job' = JobFields /\ job'.op = "restore" /\ job'.stage = "end" /\ job'.rc = "err"
          /\ job'.before = job.before
      BY <1>1, <2>1, <2>6 DEF I!Run, I!Failed, JobFields
    <3> QED
      BY <1>1, <2>1, <2>6, <3>1 DEF ImagesInv, Dumping, Restoring, Shutdown, I!Idle
  <2> QED
    BY <2>2, <2>5, <2>6
<1>10. CASE I!RestoreEnd
  <2>1. /\ job.op = "restore" /\ nand' = nand /\ image' = image
        /\ nand \in Seq(Block) /\ image \in Image /\ Size \in Nat /\ Size' = Size
        /\ job.before \in Seq(Block) /\ Len(job.before) = Len(nand) /\ Size <= Len(nand)
    BY <1>1, <1>10 DEF I!RestoreEnd, ImagesInv, Restoring, Image, Size
  <2>2. \/ job.stage = "end" /\ job.rc # "ok" /\ I!Finish(job)
        \/ job.stage = "copy" /\ job.todo = {} /\ (I!Finish(job) \/ I!Finish(I!Failed(job)))
    BY <1>1, <1>10 DEF I!RestoreEnd, ImagesInv, Restoring
  <2>3. /\ DOMAIN job' = JobFields /\ job'.op = "restore" /\ job'.stage = "done" /\ job'.before = job.before
        /\ job'.rc = "ok" => job.rc = "ok"
        /\ handles' = {}
    BY <1>1, <2>1, <2>2 DEF I!Finish, I!Failed, JobFields
  <2>4. job'.rc = "ok" => RestoredTo(Size + 1)'
    <3>1. SUFFICES ASSUME job'.rc = "ok" PROVE RestoredTo(Size + 1)'
      OBVIOUS
    <3>2. job.stage = "copy" /\ job.todo = {}
      BY <2>2, <2>3, <3>1
    <3>3. PICK k \in 1 .. Size + 1 : job.todo = k .. Size /\ RestoredTo(k)
      BY <1>1, <2>1, <3>2 DEF ImagesInv, Restoring
    <3>4. k = Size + 1
      <4>1. k \in Nat /\ Size \in Nat /\ k <= Size + 1
        BY <2>1, <3>3
      <4>2. k <= Size => k \in k .. Size
        BY <4>1
      <4>3. ~(k <= Size)
        BY <3>2, <3>3, <4>2
      <4> QED
        BY <4>1, <4>3
    <3> QED
      BY <2>1, <2>3, <3>3, <3>4 DEF RestoredTo, Dumped
  <2> QED
    BY <2>1, <2>3, <2>4 DEF ImagesInv, Dumping, Restoring, Shutdown
<1>11. CASE I!FirmwareInit \/ I!FirmwareExit
  BY <1>1, <1>11
  DEF I!FirmwareInit, I!FirmwareExit, ImagesInv, Dumping, Restoring, RestoredTo, Dumped, Size, Shutdown, I!Idle
<1>12. CASE I!ExportStart \/ I!ExportFile \/ I!ExportBlock \/ I!ExportEnd
  <2>1. nand' = nand /\ image' = image /\ nand \in Seq(Block)
    BY <1>1, <1>12 DEF I!ExportStart, I!ExportFile, I!ExportBlock, I!ExportEnd, ImagesInv
  <2>2. DOMAIN job' = JobFields /\ job'.op = "export" /\ (job'.stage = "done" => handles' = {})
    <3>1. CASE I!ExportStart
      BY <1>2, <3>1 DEF I!ExportStart, I!Run, JobFields
    <3>2. CASE I!ExportFile
      <4>1. PICK p \in job.todo : \E c \in {[job EXCEPT !.todo = @ \ {p}]} :
              \/ job' = [c EXCEPT !.clean = @ /\ firmware[p] = I!None]
              \/ job' = [c EXCEPT !.clean = FALSE]
              \/ job' = [c EXCEPT !.stage = "copy", !.part = p, !.at = 0]
        BY <3>2 DEF I!ExportFile, I!Run
      <4> DEFINE c == [job EXCEPT !.todo = @ \ {p}]
      <4>2. DOMAIN c = JobFields /\ c.op = "export" /\ c.stage = "next"
        BY <1>1, <3>2 DEF I!ExportFile, JobFields
      <4> HIDE DEF c
      <4>3. \/ job' = [c EXCEPT !.clean = @ /\ firmware[p] = I!None]
            \/ job' = [c EXCEPT !.clean = FALSE]
            \/ job' = [c EXCEPT !.stage = "copy", !.part = p, !.at = 0]
        BY <4>1 DEF c
      <4> QED
        BY <4>2, <4>3 DEF JobFields
    <3>3. CASE I!ExportBlock
      BY <1>1, <3>3 DEF I!ExportBlock, I!CopyEnds, I!Run, JobFields
    <3>4. CASE I!ExportEnd
      BY <1>1, <3>4 DEF I!ExportEnd, I!Finish, JobFields
    <3> QED
      BY <1>12, <3>1, <3>2, <3>3, <3>4
  <2> QED
    BY <1>3, <2>1, <2>2 DEF Shutdown, I!Idle
<1>13. CASE I!ExtractFile \/ I!ListContents \/ I!Verify \/ I!Unwritten
  <2>1. nand' = nand /\ image' = image /\ nand \in Seq(Block)
    BY <1>1, <1>13 DEF I!ExtractFile, I!ListContents, I!Verify, I!Unwritten, ImagesInv
  <2>2. /\ handles' = {}
        /\ \E op \in {"extract", "list", "verify", "unwritten"}, rc \in {"ok", "err"} :
             \E j \in {I!NoJob, I!Failed(I!NoJob)} :
               \/ job' = [[j EXCEPT !.op = op] EXCEPT !.stage = "done"]
               \/ job' = [[j EXCEPT !.op = op, !.rc = rc] EXCEPT !.stage = "done"]
    BY <1>13 DEF I!ExtractFile, I!ListContents, I!Verify, I!Unwritten, I!Finish
  <2>3. \A j \in {I!NoJob, I!Failed(I!NoJob)} : DOMAIN j = JobFields
    BY <1>2 DEF I!Failed, JobFields
  <2>4. DOMAIN job' = JobFields /\ job'.op \in {"extract", "list", "verify", "unwritten"}
    BY <2>2, <2>3 DEF JobFields
  <2> QED
    BY <1>3, <2>1, <2>2, <2>4 DEF Shutdown
<1>14. CASE I!SystemWrites
  <2>1. I!Finish(I!NoJob) /\ nand' \in Seq(Block) /\ image' = image
    BY <1>14, NandsAssumption DEF I!SystemWrites
  <2> QED
    BY <1>4, <2>1
<1>15. CASE I!Kill
  <2>1. I!Finish(I!NoJob) /\ nand' \in Seq(Block) /\ image' = image
    BY <1>1, <1>15 DEF I!Kill, ImagesInv
  <2> QED
    BY <1>4, <2>1
<1> QED
  BY <1>5, <1>6, <1>7, <1>8, <1>9, <1>10, <1>11, <1>12, <1>13, <1>14, <1>15 DEF I!Next

\* The images' invariant.
LEMMA ImagesKept == Spec => []IImages
<1>1. Init => IImages
  <2> SUFFICES ASSUME I!Init PROVE ImagesInv /\ Mounts
    BY DEF Init, IImages
  <2>1. DOMAIN job = JobFields /\ job.op = "none" /\ handles = {}
    BY DEF I!Init, I!NoJob, JobFields
  <2>2. nand \in Seq(Block)
    BY NandsAssumption DEF I!Init
  <2>3. image \in Image
    <3>1. <<>> \in Seq(Block)
      OBVIOUS
    <3> QED
      BY <3>1 DEF I!Init, I!None, Image
  <2>4. Mounts
    BY DEF I!Init, I!NotMounted, Mounts
  <2> QED
    BY <2>1, <2>2, <2>3, <2>4 DEF ImagesInv, Dumping, Restoring, Shutdown
<1>2. IImages /\ [Next]_vars => IImages'
  <2> SUFFICES ASSUME IImages, [Next]_vars, running' = "images"
               PROVE  ImagesInv' /\ Mounts'
    BY DEF IImages
  <2>1. CASE running = "images" /\ I!Next
    BY <2>1, ImagesStep, MountsStep DEF IImages
  <2>2. CASE UNCHANGED vars
    BY <2>2 DEF IImages, vars, imagesVars, ImagesInv, Dumping, Restoring, RestoredTo, Dumped, Size,
                Shutdown, Mounts, I!Idle
  <2> QED
    BY <2>1, <2>2 DEF Next, Others
<1> QED
  BY <1>1, <1>2, PTL DEF Spec

\* A partition that holds the whole image and is as it was behind it.
LEMMA RestoredWhole ==
  ASSUME ImagesInv, job.op = "restore", RestoredTo(Size + 1)
  PROVE  nand = Dumped \o SubSeq(job.before, Size + 1, Len(job.before))
<1> DEFINE r == SubSeq(job.before, Size + 1, Len(job.before))
<1>1. /\ nand \in Seq(Block) /\ Dumped \in Seq(Block) /\ Size = Len(Dumped) /\ Size \in Nat
      /\ job.before \in Seq(Block) /\ Len(job.before) = Len(nand) /\ Size <= Len(nand)
  BY DEF ImagesInv, Restoring, Image, Dumped, Size
<1>2. /\ r \in Seq(Block) /\ Len(r) = Len(nand) - Size
      /\ \A i \in 1 .. Len(nand) - Size : r[i] = job.before[Size + i]
  BY <1>1
<1> HIDE DEF r
<1>3. /\ Dumped \o r \in Seq(Block) /\ Len(Dumped \o r) = Len(nand)
      /\ \A i \in 1 .. Len(nand) : (Dumped \o r)[i] = IF i <= Size THEN Dumped[i] ELSE r[i - Size]
  BY <1>1, <1>2, ConcatProperties
<1>4. \A i \in 1 .. Len(nand) : (Dumped \o r)[i] = nand[i]
  BY <1>1, <1>2, <1>3 DEF RestoredTo
<1>5. Dumped \o r = nand
  BY <1>1, <1>3, <1>4, SeqEqual
<1> QED
  BY <1>5 DEF r

-----------------------------------------------------------------------------
(* Saves.                                                                  *)

\* The fields of a list of titles.
ListingFields == {"stage", "count", "filled", "missed", "rc"}

\* Between calls only the reader of the loop over all saves is open.
Closed ==
  /\ held \subseteq S!Own \cup {"reader"}
  /\ "reader" \in held => all.op = "backup"
  /\ call.stage \in {"done", "mount"} => held \subseteq {"reader"}

\* No more entries of a list are filled or passed over than were announced,
\* and all of them when it is returned as a success.
Filling ==
  /\ listing.count \in Nat /\ listing.filled \in Nat /\ listing.missed \in Nat
  /\ listing.filled + listing.missed <= listing.count
  /\ listing.stage = "done" /\ listing.rc = "ok" => listing.filled + listing.missed = listing.count

\* A loop over all saves has one reader, which is open or was left open.
Leaks ==
  /\ leaked \in [readers : Nat, loops : Nat]
  /\ leaked.readers + (IF "reader" \in held THEN 1 ELSE 0) <= leaked.loops

\* What holds of a call, the loop over titles and their list at every step.
CallsInv ==
  /\ DOMAIN call = CallFields /\ DOMAIN all = {"op", "left"} /\ DOMAIN listing = ListingFields
  /\ Closed
  /\ Filling

ICalls == running = "saves" => CallsInv /\ Leaks

\* Every step of the saves' part accounts for the readers it opens.
LEMMA LeaksStep ==
  ASSUME CallsInv, Leaks, S!Next
  PROVE  Leaks'
<1>1. CASE leaked' = leaked /\ ("reader" \in held' => "reader" \in held)
  BY <1>1 DEF Leaks
<1>2. CASE S!Mount
  <2>1. CASE S!Return(S!Failed(call)) /\ UNCHANGED leaked
    BY <1>1, <2>1 DEF S!Return
  <2>2. CASE /\ leaked' = [leaked EXCEPT !.readers = IF "reader" \in held THEN @ + 1 ELSE @]
             /\ "reader" \notin held'
    BY <2>2 DEF Leaks
  <2> QED
    BY <1>2, <2>1, <2>2 DEF S!Mount
<1>3. CASE S!StartAll
  <2>1. CASE UNCHANGED <<held, leaked>>
    BY <1>1, <2>1
  <2>2. CASE leaked' = [leaked EXCEPT !.loops = @ + 1]
    <3>1. "reader" \notin held
      BY <1>3 DEF S!StartAll, S!Resting, CallsInv, Closed
    <3> QED
      BY <2>2, <3>1 DEF Leaks
  <2> QED
    BY <1>3, <2>1, <2>2 DEF S!StartAll
<1>4. CASE S!Kill
  BY <1>4 DEF S!Kill, S!NoLeak, Leaks
<1>5. CASE S!BackupEntry \/ S!RestoreEntry
  <2>1. UNCHANGED leaked /\ held' \subseteq held \cup {"src", "dst"}
    BY <1>5 DEF S!BackupEntry, S!RestoreEntry, S!RestoreDir, S!RestoreFile
  <2> QED
    BY <1>1, <2>1
<1>6. CASE S!BackupChunk \/ S!RestoreChunk
  BY <1>1, <1>6 DEF S!BackupChunk, S!RestoreChunk, S!CopyEnds
<1>7. CASE S!BackupOpen \/ S!BackupEnd \/ S!RestoreOpen \/ S!RestoreEnd
  BY <1>1, <1>7 DEF S!BackupOpen, S!BackupEnd, S!RestoreOpen, S!RestoreEnd, S!Return
<1> QED
  BY <1>1, <1>2, <1>3, <1>4, <1>5, <1>6, <1>7
  DEF S!Next, S!Start, S!AllNext, S!AllEnd, S!ListCount, S!ListFill, S!Play

\* Every step of the saves' part keeps its invariant.
LEMMA CallsStep ==
  ASSUME ICalls, running = "saves", S!Next
  PROVE  CallsInv'
<1>1. CallsInv /\ DOMAIN call = CallFields
  BY DEF ICalls, CallsInv
<1>2. S!Own = {"save", "dir", "src", "dst"}
  BY DEF S!Own
\* A call that returns has closed all it opened.
<1>3. ASSUME NEW c, DOMAIN c = CallFields, S!Return(c), UNCHANGED <<all, listing>>
      PROVE  CallsInv'
  <2>1. DOMAIN call' = CallFields
    BY <1>3 DEF S!Return, S!At
  <2>2. held' = held \ {"save", "dir", "src", "dst"}
    BY <1>2, <1>3 DEF S!Return
  <2>3. Closed'
    BY <1>1, <1>2, <1>3, <2>2 DEF CallsInv, Closed, Filling
  <2> QED
    BY <1>1, <1>3, <2>1, <2>3 DEF CallsInv, Filling
\* A call that goes on may open what it closes in the end.
<1>4. ASSUME DOMAIN call' = CallFields, call'.stage \notin {"done", "mount"},
             held' \subseteq held \cup {"save", "dir", "src", "dst"}, UNCHANGED <<all, listing>>
      PROVE  CallsInv'
  <2>1. Closed'
    BY <1>1, <1>2, <1>4 DEF CallsInv, Closed, Filling
  <2> QED
    BY <1>1, <1>4, <2>1 DEF CallsInv, Filling
<1>5. DOMAIN S!Failed(call) = CallFields
  BY <1>1 DEF S!Failed
\* A call that begins, or fails to.
<1>6. ASSUME NEW op, NEW t
      PROVE  /\ DOMAIN S!Begun(op, t) = CallFields /\ S!Begun(op, t).stage = "mount"
             /\ DOMAIN S!At(S!Begun(op, t), "done") = CallFields
             /\ DOMAIN S!At(S!Failed(S!Begun(op, t)), "done") = CallFields
  <2>1. DOMAIN S!Begun(op, t) = CallFields /\ S!Begun(op, t).stage = "mount"
    BY DEF S!Begun, CallFields
  <2> QED
    BY <2>1 DEF S!Failed, S!At
<1>7. CASE \E op \in {"backup", "restore"}, t \in Title : S!Start(op, t)
  <2>1. /\ DOMAIN call' = CallFields /\ UNCHANGED <<held, all, listing>> /\ call.stage = "done"
    BY <1>6, <1>7 DEF S!Start, S!Resting, S!Idle
  <2> QED
    BY <1>1, <2>1 DEF CallsInv, Closed, Filling
<1>8. CASE S!Mount
  <2>1. call.stage = "mount" /\ UNCHANGED <<all, listing>> /\ held \subseteq {"reader"}
    BY <1>1, <1>8 DEF S!Mount, CallsInv, Closed
  <2>2. CASE S!Return(S!Failed(call))
    BY <1>3, <1>5, <2>1, <2>2
  <2>3. CASE held' = held \ {"reader"} /\ call' = S!At(S!Failed(call), "done")
    <3>1. DOMAIN call' = CallFields /\ held' = {}
      BY <1>5, <2>1, <2>3 DEF S!At
    <3> QED
      BY <1>1, <2>1, <3>1 DEF CallsInv, Closed, Filling
  <2>4. CASE held' \subseteq (held \ {"reader"}) \cup {"save"} /\ call' = S!At(call, "open")
    <3>1. DOMAIN call' = CallFields /\ call'.stage = "open" /\ held' \subseteq {"save"}
      BY <1>1, <2>1, <2>4 DEF S!At, CallFields
    <3> QED
      BY <1>4, <2>1, <3>1
  <2> QED
    BY <1>8, <2>2, <2>3, <2>4 DEF S!Mount
<1>9. CASE S!BackupOpen \/ S!RestoreOpen
  <2>1. UNCHANGED <<all, listing>>
    BY <1>9 DEF S!BackupOpen, S!RestoreOpen
  <2>2. CASE S!Return(S!Failed(call))
    BY <1>3, <1>5, <2>1, <2>2
  <2>3. CASE /\ held' = held \cup {"dir"}
             /\ \E todo \in {{n \in Name : saves[call.title][n] # S!None},
                             {n \in Name : backup[call.title].entry[n] # S!None}} :
                  call' = [S!At(call, "next") EXCEPT !.todo = todo]
    <3>1. DOMAIN call' = CallFields /\ call'.stage = "next"
      BY <1>1, <2>3 DEF S!At, CallFields
    <3> QED
      BY <1>4, <2>1, <2>3, <3>1
  <2> QED
    BY <1>9, <2>2, <2>3 DEF S!BackupOpen, S!RestoreOpen
<1>10. CASE S!BackupEnd \/ S!RestoreEnd
  <2>1. UNCHANGED <<all, listing>>
    BY <1>10 DEF S!BackupEnd, S!RestoreEnd
  <2>2. DOMAIN [call EXCEPT !.rc = "ok"] = CallFields
    BY <1>1
  <2> QED
    BY <1>1, <1>3, <1>5, <1>10, <2>1, <2>2 DEF S!BackupEnd, S!RestoreEnd
<1>11. CASE S!BackupEntry \/ S!RestoreEntry
  <2>1. /\ UNCHANGED <<all, listing>> /\ held' \subseteq held \cup {"src", "dst"}
        /\ call.stage = "next"
    BY <1>11 DEF S!BackupEntry, S!RestoreEntry, S!RestoreDir, S!RestoreFile
  <2>2. PICK n \in call.todo : \E c \in {[call EXCEPT !.todo = @ \ {n}]} :
          \/ call' = c
          \/ call' = [c EXCEPT !.clean = FALSE]
          \/ call' = S!Failed(c)
          \/ call' = [c EXCEPT !.rc = "ok"]
          \/ call' = [c EXCEPT !.rc = "ok", !.clean = FALSE]
          \/ call' = [S!At(c, "copy") EXCEPT !.file = n, !.rc = "ok"]
    <3>1. CASE S!BackupEntry
      BY <3>1 DEF S!BackupEntry
    <3>2. CASE S!RestoreEntry
      BY <3>2 DEF S!RestoreEntry, S!RestoreDir, S!RestoreFile
    <3> QED
      BY <1>11, <3>1, <3>2
  <2> DEFINE c == [call EXCEPT !.todo = @ \ {n}]
  <2>3. DOMAIN c = CallFields /\ c.stage = "next"
    BY <1>1, <2>1 DEF CallFields
  <2> HIDE DEF c
  <2>4. \/ call' = c
        \/ call' = [c EXCEPT !.clean = FALSE]
        \/ call' = S!Failed(c)
        \/ call' = [c EXCEPT !.rc = "ok"]
        \/ call' = [c EXCEPT !.rc = "ok", !.clean = FALSE]
        \/ call' = [S!At(c, "copy") EXCEPT !.file = n, !.rc = "ok"]
    BY <2>2 DEF c
  <2>5. DOMAIN call' = CallFields /\ call'.stage \in {"next", "copy"}
    BY <2>3, <2>4 DEF S!Failed, S!At, CallFields
  <2> QED
    BY <1>4, <2>1, <2>5
<1>12. CASE S!BackupChunk \/ S!RestoreChunk
  <2>1. UNCHANGED <<all, listing>> /\ call.stage = "copy"
    BY <1>12 DEF S!BackupChunk, S!RestoreChunk
  <2>2. CASE UNCHANGED <<call, held>>
    BY <1>1, <1>4, <2>1, <2>2
  <2>3. ASSUME NEW c, DOMAIN c = CallFields, S!CopyEnds(c)
        PROVE  CallsInv'
    <3>1. DOMAIN call' = CallFields /\ call'.stage = "next" /\ held' \subseteq held
      BY <2>3 DEF S!CopyEnds, S!At, CallFields
    <3> QED
      BY <1>4, <2>1, <3>1
  <2>4. /\ DOMAIN [call EXCEPT !.rc = "ok"] = CallFields
        /\ \A r \in {"ok", "err"} : DOMAIN [call EXCEPT !.rc = r, !.clean = FALSE] = CallFields
    BY <1>1
  <2>5. CASE S!BackupChunk
    BY <1>1, <1>5, <2>2, <2>3, <2>5 DEF S!BackupChunk
  <2>6. CASE S!RestoreChunk
    BY <2>2, <2>3, <2>4, <2>6 DEF S!RestoreChunk
  <2> QED
    BY <1>12, <2>5, <2>6
<1>13. CASE S!StartAll
  <2>1. /\ DOMAIN call' = CallFields /\ DOMAIN all' = {"op", "left"} /\ UNCHANGED listing
        /\ call.stage = "done" /\ all.op = "none"
        /\ \/ held' = held \cup {"reader"} /\ all'.op = "backup"
           \/ held' = held
    BY <1>6, <1>13 DEF S!StartAll, S!Resting, S!Idle
  <2> QED
    BY <1>1, <2>1 DEF CallsInv, Closed, Filling
<1>14. CASE S!AllNext
  <2>1. /\ DOMAIN call' = CallFields /\ DOMAIN all' = {"op", "left"} /\ all'.op = all.op
        /\ UNCHANGED <<listing, held>> /\ call.stage = "done"
    BY <1>1, <1>6, <1>14 DEF S!AllNext, S!Idle, CallsInv
  <2> QED
    BY <1>1, <2>1 DEF CallsInv, Closed, Filling
<1>15. CASE S!AllEnd
  <2>1. DOMAIN all' = {"op", "left"} /\ held' = held \ {"reader"} /\ UNCHANGED <<call, listing>>
    BY <1>15 DEF S!AllEnd, S!NoLoop
  <2> QED
    BY <1>1, <2>1 DEF CallsInv, Closed, Filling
<1>16. CASE S!ListCount \/ S!ListFill
  <2>1. UNCHANGED <<held, all, call>>
    BY <1>16 DEF S!ListCount, S!ListFill
  <2>2. CASE S!ListCount
    <3>1. CASE listing' = S!Unlisted
      BY <1>1, <2>1, <3>1 DEF S!Unlisted, ListingFields, CallsInv, Closed, Filling
    <3>2. ASSUME NEW n \in 0 .. S!Cardinality(DOMAIN saves),
                 listing' = [S!Unlisted EXCEPT !.stage = "fill", !.count = n, !.rc = "ok"]
          PROVE  CallsInv'
      <4>1. n \in Nat
        OBVIOUS
      <4> QED
        <5>1. /\ DOMAIN listing' = ListingFields /\ listing'.stage = "fill" /\ listing'.count = n
              /\ listing'.filled = 0 /\ listing'.missed = 0
          BY <3>2 DEF S!Unlisted, ListingFields
        <5>2. Filling'
          BY <4>1, <5>1 DEF Filling
        <5> QED
          BY <1>1, <2>1, <5>1, <5>2 DEF CallsInv, Closed
    <3>3. \/ listing' = S!Unlisted
          \/ \E n \in 0 .. S!Cardinality(DOMAIN saves) :
               listing' = [S!Unlisted EXCEPT !.stage = "fill", !.count = n, !.rc = "ok"]
      BY <2>2, Zenon DEF S!ListCount
    <3> QED
      BY <3>1, <3>2, <3>3
  <2>3. CASE S!ListFill
    <3>1. DOMAIN listing = ListingFields /\ listing.stage = "fill" /\ Filling
      BY <1>1, <2>3 DEF S!ListFill, CallsInv
    <3>2. \/ S!ListGoesOn /\ listing' = [listing EXCEPT !.filled = @ + 1]
          \/ S!ListGoesOn /\ listing' = [listing EXCEPT !.missed = @ + 1]
          \/ /\ S!ListGoesOn
             /\ listing' = [[listing EXCEPT !.missed = listing.count - listing.filled] EXCEPT !.stage = "done"]
          \/ ~S!ListGoesOn /\ listing' = [listing EXCEPT !.stage = "done"]
          \/ listing' = [[listing EXCEPT !.rc = "err"] EXCEPT !.stage = "done"]
      BY <2>3 DEF S!ListFill, S!ListEnds
    <3>3. DOMAIN listing' = ListingFields
      BY <3>1, <3>2
    <3>4. Filling'
      <4>1. CASE \/ S!ListGoesOn /\ listing' = [listing EXCEPT !.filled = @ + 1]
                 \/ S!ListGoesOn /\ listing' = [listing EXCEPT !.missed = @ + 1]
        BY <3>1, <4>1 DEF S!ListGoesOn, ListingFields, Filling
      <4>2. CASE /\ S!ListGoesOn
                 /\ listing' = [[listing EXCEPT !.missed = listing.count - listing.filled] EXCEPT !.stage = "done"]
        <5>1. /\ listing'.count = listing.count /\ listing'.filled = listing.filled
              /\ listing'.missed = listing.count - listing.filled
          BY <3>1, <4>2 DEF ListingFields
        <5> QED
          BY <3>1, <4>2, <5>1 DEF S!ListGoesOn, Filling
      <4>3. CASE \/ ~S!ListGoesOn /\ listing' = [listing EXCEPT !.stage = "done"]
                 \/ listing' = [[listing EXCEPT !.rc = "err"] EXCEPT !.stage = "done"]
        <5>1. /\ listing'.count = listing.count /\ listing'.filled = listing.filled
              /\ listing'.missed = listing.missed
              /\ listing'.rc = "ok" => ~S!ListGoesOn
          BY <3>1, <4>3 DEF ListingFields
        <5> QED
          BY <3>1, <5>1 DEF S!ListGoesOn, Filling
      <4> QED
        BY <3>2, <4>1, <4>2, <4>3
    <3> QED
      BY <1>1, <2>1, <3>3, <3>4 DEF CallsInv, Closed
  <2> QED
    BY <1>16, <2>2, <2>3
<1>17. CASE S!Kill
  <2>1. DOMAIN call' = CallFields /\ held' = {} /\ all' = S!NoLoop /\ listing' = S!Unlisted
    BY <1>6, <1>17 DEF S!Kill
  <2>2. DOMAIN all' = {"op", "left"} /\ DOMAIN listing' = ListingFields /\ Filling'
    BY <2>1 DEF S!NoLoop, S!Unlisted, ListingFields, Filling
  <2> QED
    BY <2>1, <2>2 DEF CallsInv, Closed, Filling
<1>18. CASE S!Play
  <2>1. DOMAIN call' = CallFields /\ call'.stage = call.stage /\ UNCHANGED <<held, all, listing>>
    BY <1>1, <1>18 DEF S!Play, CallFields
  <2> QED
    BY <1>1, <2>1 DEF CallsInv, Closed, Filling
<1> QED
  BY <1>7, <1>8, <1>9, <1>10, <1>11, <1>12, <1>13, <1>14, <1>15, <1>16, <1>17, <1>18 DEF S!Next

\* The saves' invariant.
LEMMA CallsKept == Spec => []ICalls
<1>1. Init => ICalls
  <2> SUFFICES ASSUME S!Init PROVE CallsInv /\ Leaks
    BY DEF Init, ICalls
  <2>1. DOMAIN call = CallFields /\ held = {}
    BY DEF S!Init, CallFields
  <2>2. DOMAIN all = {"op", "left"} /\ DOMAIN listing = ListingFields /\ Filling
    BY DEF S!Init, S!NoLoop, S!Unlisted, ListingFields, Filling
  <2>3. Leaks
    BY DEF S!Init, S!NoLeak, Leaks
  <2> QED
    BY <2>1, <2>2, <2>3 DEF CallsInv, Closed
<1>2. ICalls /\ [Next]_vars => ICalls'
  <2> SUFFICES ASSUME ICalls, [Next]_vars, running' = "saves"
               PROVE  CallsInv' /\ Leaks'
    BY DEF ICalls
  <2>1. CASE running = "saves" /\ S!Next
    BY <2>1, CallsStep, LeaksStep DEF ICalls
  <2>2. CASE UNCHANGED vars
    BY <2>2 DEF ICalls, vars, savesVars, CallsInv, Closed, Filling, Leaks
  <2> QED
    BY <2>1, <2>2 DEF Next, Others
<1> QED
  BY <1>1, <1>2, PTL DEF Spec

-----------------------------------------------------------------------------
(* All three.                                                              *)

\* A restore of a partition that reports success is whole, and so is a dump but
\* for what closing it lost; the header of a dumped title counts what is in it,
\* and a list of titles what is filled or was passed over.
THEOREM ReportsTrueHolds == Spec => []ReportsTrue
<1>1. IPackages /\ IImages /\ ICalls => ReportsTrue
  <2> SUFFICES ASSUME IPackages, IImages, ICalls PROVE ReportsTrue
    OBVIOUS
  <2>1. ASSUME running = "images" PROVE I!ReportedCopyWhole
    <3>1. ImagesInv
      BY <2>1 DEF IImages
    <3>2. ASSUME I!Idle, job.rc = "ok", job.op = "dump"
          PROVE  /\ Len(image.file.data) <= Len(nand)
                 /\ image.file = I!File(SubSeq(nand, 1, Len(image.file.data)))
                 /\ job.clean => Len(image.file.data) = Len(nand)
      BY <3>1, <3>2 DEF ImagesInv, Dumping, Size, I!Idle
    <3>3. ASSUME I!Idle, job.rc = "ok", job.op = "restore"
          PROVE  nand = image.file.data \o SubSeq(job.before, Len(image.file.data) + 1, Len(job.before))
      <4>1. RestoredTo(Size + 1)
        BY <3>1, <3>3 DEF ImagesInv, Restoring, I!Idle
      <4> QED
        BY <3>1, <3>3, <4>1, RestoredWhole DEF Dumped, Size
    <3> QED
      BY <3>2, <3>3 DEF I!ReportedCopyWhole
  <2>2. ASSUME running = "packages" PROVE P!HeaderCounts
    BY <2>2 DEF IPackages, PackagesInv, Counted, P!HeaderCounts, P!Idle
  <2>3. ASSUME running = "saves" PROVE S!ListingFilled
    BY <2>3 DEF ICalls, CallsInv, Filling, S!ListingFilled, S!Resting
  <2> QED
    BY <2>1, <2>2, <2>3 DEF ReportsTrue
<1> QED
  BY PackagesKept, ImagesKept, CallsKept, <1>1, PTL

\* Whichever way a call ended, nothing it opened is open after it but what the
\* program leaks in two places, and that is counted: a reader for each backup of
\* all saves at most, and a file system for each attempt to mount the firmware
\* that failed half way.
THEOREM NothingOpenHolds == Spec => []NothingOpen
<1>1. IPackages /\ IImages /\ ICalls => NothingOpen
  <2> SUFFICES ASSUME IPackages, IImages, ICalls PROVE NothingOpen
    OBVIOUS
  <2>1. ASSUME running = "packages" PROVE P!NothingOpen
    BY <2>1 DEF IPackages, PackagesInv, Shut, P!NothingOpen
  <2>2. ASSUME running = "images" PROVE I!NothingOpen
    BY <2>2 DEF IImages, ImagesInv, Shutdown, Mounts, I!NothingOpen
  <2>3. ASSUME running = "saves" PROVE S!NothingOpen
    <3>1. CallsInv /\ Leaks
      BY <2>3 DEF ICalls
    <3>2. ASSUME S!Resting PROVE held = {}
      BY <3>1, <3>2 DEF CallsInv, Closed, S!Resting, S!Idle
    <3> QED
      BY <3>1, <3>2 DEF Leaks, S!NothingOpen
  <2> QED
    BY <2>1, <2>2, <2>3 DEF NothingOpen
<1> QED
  BY PackagesKept, ImagesKept, CallsKept, <1>1, PTL


-----------------------------------------------------------------------------
(* Whole copies: the export of the firmware.                               *)

\* What a file of the firmware may be.
Source == [kind : {"none", "file"}, data : Seq(Piece)]

\* The file an export is copying is none of those it is through with.
Through(p) == p \in Parts \ job.todo /\ (job.stage = "copy" => p # job.part)

\* As long as nothing failed, an export has what it is through with, and a
\* beginning of what it copies.
Exporting ==
  job.op = "export" /\ job.clean =>
    /\ job.stage \in {"next", "copy", "done"}
    /\ \A p \in Parts \ {Exfat} :
         Through(p) /\ firmware[p] # I!None => package[p] = firmware[p]
    /\ job.stage = "done" => job.todo = {}
    /\ job.stage = "copy" =>
         /\ job.part \in Parts \ job.todo /\ firmware[job.part].kind = "file"
         /\ job.at \in Nat /\ job.at <= Len(firmware[job.part].data)
         /\ package[job.part] = I!File(SubSeq(firmware[job.part].data, 1, job.at))

\* What holds of an export at every step.
ExportInv ==
  /\ DOMAIN job = JobFields /\ job.clean \in BOOLEAN
  /\ job.op = "export" => job.todo \subseteq Parts
  /\ firmware \in [Parts -> Source]
  /\ \A p \in Parts : firmware[p].kind = "none" => firmware[p].data = <<>>
  /\ DOMAIN package = Parts
  /\ Exporting

IExport == running = "images" => ExportInv

\* Every step of the images' part keeps the export's invariant.
LEMMA ExportStep ==
  ASSUME IExport, running = "images", I!Next
  PROVE  ExportInv'
<1>1. ExportInv /\ DOMAIN job = JobFields /\ job.clean \in BOOLEAN /\ DOMAIN package = Parts
  BY DEF IExport, ExportInv
<1>2. firmware' = firmware
  BY DEF I!Next, I!DumpStart, I!DumpBlock, I!DumpEnd, I!RestoreStart, I!RestoreBlock, I!RestoreEnd,
         I!FirmwareInit, I!FirmwareExit, I!ExportStart, I!ExportFile, I!ExportBlock, I!ExportEnd,
         I!ExtractFile, I!ListContents, I!Verify, I!Unwritten, I!SystemWrites, I!Kill
<1>3. /\ DOMAIN I!NoJob = JobFields /\ I!NoJob.op = "none" /\ I!NoJob.clean = TRUE
      /\ DOMAIN I!Failed(I!NoJob) = JobFields /\ I!Failed(I!NoJob).op = "none"
      /\ I!Failed(I!NoJob).clean = FALSE
  BY DEF I!NoJob, I!Failed, JobFields
\* Another call than an export.
<1>4. ASSUME DOMAIN job' = JobFields, job'.clean \in BOOLEAN, job'.op # "export", DOMAIN package' = Parts
      PROVE  ExportInv'
  BY <1>1, <1>2, <1>4 DEF ExportInv, Exporting
\* A step of another call.
<1>5. ASSUME job.op # "export", package' = package,
             \/ job' = job
             \/ \E j \in {job, I!Failed(job)}, s \in {"copy", "end", "done"} : job' = [j EXCEPT !.stage = s]
             \/ \E d \in {job.todo \ {CHOOSE i \in job.todo : \A m \in job.todo : i <= m}} :
                  job' = [job EXCEPT !.todo = d]
      PROVE  ExportInv'
  <2>1. DOMAIN job' = JobFields /\ job'.clean \in BOOLEAN /\ job'.op = job.op
    BY <1>1, <1>5 DEF I!Failed, JobFields
  <2> QED
    BY <1>1, <1>4, <1>5, <2>1
\* A call that is none, or begins as one.
<1>6. ASSUME NEW j, j = I!NoJob \/ j = I!Failed(I!NoJob), DOMAIN package' = Parts,
             NEW op, op # "export", NEW rc,
             \/ job' = [j EXCEPT !.stage = "done"]
             \/ job' = [[j EXCEPT !.op = op] EXCEPT !.stage = "done"]
             \/ job' = [[j EXCEPT !.op = op, !.rc = rc] EXCEPT !.stage = "done"]
      PROVE  ExportInv'
  <2>1. DOMAIN j = JobFields /\ j.clean \in BOOLEAN /\ j.op = "none"
    BY <1>3, <1>6
  <2>2. DOMAIN job' = JobFields /\ job'.clean \in BOOLEAN /\ job'.op # "export"
    BY <1>6, <2>1 DEF JobFields
  <2> QED
    BY <1>4, <1>6, <2>2
<1>7. CASE I!DumpStart
  <2>1. DOMAIN package' = Parts
    BY <1>1, <1>7 DEF I!DumpStart
  <2>2. CASE I!Run([I!NoJob EXCEPT !.op = "dump", !.stage = "copy"])
    <3>1. DOMAIN job' = JobFields /\ job'.clean \in BOOLEAN /\ job'.op = "dump"
      BY <1>3, <2>2 DEF I!Run, JobFields
    <3> QED
      BY <1>4, <2>1, <3>1
  <2> QED
    BY <1>6, <1>7, <2>1, <2>2 DEF I!DumpStart, I!Finish
<1>8. CASE I!RestoreStart
  <2>1. DOMAIN package' = Parts
    BY <1>1, <1>8 DEF I!RestoreStart
  <2>2. CASE I!Run([I!NoJob EXCEPT !.op = "restore", !.stage = "copy", !.before = nand,
                                   !.todo = 1 .. Len(image.file.data)])
    <3>1. DOMAIN job' = JobFields /\ job'.clean \in BOOLEAN /\ job'.op = "restore"
      BY <1>3, <2>2 DEF I!Run, JobFields
    <3> QED
      BY <1>4, <2>1, <3>1
  <2> QED
    BY <1>6, <1>8, <2>1, <2>2 DEF I!RestoreStart, I!Finish
<1>9. CASE I!DumpBlock \/ I!DumpEnd
  <2>1. job.op # "export" /\ package' = package
    BY <1>9 DEF I!DumpBlock, I!DumpEnd
  <2>2. \/ job' = job
        \/ job' = [I!Failed(job) EXCEPT !.stage = "end"]
        \/ \E f \in I!ClosedImages :
             job' = [[job EXCEPT !.clean = @ /\ f = image.file] EXCEPT !.stage = "done"]
    BY <1>9 DEF I!DumpBlock, I!DumpEnd, I!Run, I!Finish
  <2>3. ASSUME NEW f, job' = [[job EXCEPT !.clean = @ /\ f = image.file] EXCEPT !.stage = "done"]
        PROVE  ExportInv'
    <3>1. DOMAIN job' = JobFields /\ job'.op = job.op /\ job'.clean = (job.clean /\ f = image.file)
      BY <1>1, <2>3 DEF JobFields
    <3>2. job'.clean \in BOOLEAN
      BY <3>1, Zenon
    <3> QED
      BY <1>1, <1>4, <2>1, <3>1, <3>2
  <2> QED
    BY <1>5, <2>1, <2>2, <2>3
<1>10. CASE I!RestoreBlock \/ I!RestoreEnd
  <2>1. job.op # "export" /\ package' = package
    BY <1>10 DEF I!RestoreBlock, I!RestoreEnd
  <2>2. \/ job' = [job EXCEPT !.todo = @ \ {CHOOSE i \in job.todo : \A m \in job.todo : i <= m}]
        \/ job' = [I!Failed(job) EXCEPT !.stage = "end"]
        \/ job' = [job EXCEPT !.stage = "done"]
        \/ job' = [I!Failed(job) EXCEPT !.stage = "done"]
    BY <1>10 DEF I!RestoreBlock, I!RestoreEnd, I!Run, I!Finish
  <2>3. job' = [job EXCEPT !.todo = @ \ {CHOOSE i \in job.todo : \A m \in job.todo : i <= m}] =>
          \E d \in {job.todo \ {CHOOSE i \in job.todo : \A m \in job.todo : i <= m}} :
            job' = [job EXCEPT !.todo = d]
    BY <1>1 DEF JobFields
  <2> QED
    BY <1>5, <2>1, <2>2, <2>3
<1>11. CASE I!FirmwareInit \/ I!FirmwareExit
  BY <1>1, <1>11 DEF I!FirmwareInit, I!FirmwareExit, ExportInv, Exporting, Through
<1>12. CASE I!ExportStart
  <2>1. PICK todo \in {Parts, Parts \ {Exfat}} :
          job' = [I!NoJob EXCEPT !.op = "export", !.stage = "next", !.todo = todo]
    BY <1>12 DEF I!ExportStart, I!Run
  <2>2. /\ DOMAIN job' = JobFields /\ job'.clean = TRUE /\ job'.op = "export" /\ job'.stage = "next"
        /\ job'.todo = todo
    BY <1>3, <2>1 DEF JobFields
  <2>3. package' = package
    BY <1>12 DEF I!ExportStart
  <2> QED
    BY <1>1, <1>2, <2>2, <2>3 DEF ExportInv, Exporting, Through
<1>13. CASE I!ExportFile
  <2>1. PICK p \in job.todo : \E c \in {[job EXCEPT !.todo = @ \ {p}]} :
          \/ job' = [c EXCEPT !.clean = @ /\ firmware[p] = I!None] /\ package' = package
          \/ /\ firmware[p] # I!None
             /\ package' = [package EXCEPT ![p] = I!File(<<>>)]
             /\ \/ job' = [c EXCEPT !.clean = FALSE]
                \/ job' = [c EXCEPT !.stage = "copy", !.part = p, !.at = 0]
    BY <1>13 DEF I!ExportFile, I!Run, I!Exported
  <2> DEFINE c == [job EXCEPT !.todo = @ \ {p}]
  <2>2. /\ DOMAIN c = JobFields /\ c.op = "export" /\ c.stage = "next" /\ c.clean = job.clean
        /\ c.todo = job.todo \ {p} /\ job.op = "export" /\ job.stage = "next" /\ p \in Parts
        /\ job.todo \subseteq Parts
    BY <1>1, <1>13 DEF I!ExportFile, ExportInv, JobFields
  <2> HIDE DEF c
  <2>3. CASE job' = [c EXCEPT !.clean = @ /\ firmware[p] = I!None] /\ package' = package
    <3>1. /\ DOMAIN job' = JobFields /\ job'.op = "export" /\ job'.stage = "next"
          /\ job'.clean = (job.clean /\ firmware[p] = I!None) /\ job'.todo = job.todo \ {p}
      BY <2>2, <2>3 DEF JobFields
    <3> QED
      BY <1>1, <1>2, <2>2, <2>3, <3>1 DEF ExportInv, Exporting, Through
  <2>4. CASE /\ package' = [package EXCEPT ![p] = I!File(<<>>)]
             /\ job' = [c EXCEPT !.clean = FALSE]
    <3>1. /\ DOMAIN job' = JobFields /\ job'.op = "export" /\ job'.clean = FALSE /\ job'.todo = job.todo \ {p}
      BY <2>2, <2>4 DEF JobFields
    <3> QED
      BY <1>1, <1>2, <2>2, <2>4, <3>1 DEF ExportInv, Exporting
  <2>5. CASE /\ firmware[p] # I!None
             /\ package' = [package EXCEPT ![p] = I!File(<<>>)]
             /\ job' = [c EXCEPT !.stage = "copy", !.part = p, !.at = 0]
    <3>1. /\ DOMAIN job' = JobFields /\ job'.op = "export" /\ job'.stage = "copy" /\ job'.part = p
          /\ job'.clean = job.clean /\ job'.todo = job.todo \ {p} /\ job'.at = 0
      BY <2>2, <2>5 DEF JobFields
    <3>2. firmware[p] \in Source /\ firmware[p].kind = "file"
      BY <1>1, <2>2, <2>5 DEF ExportInv, Source, I!None
    <3>3. 0 <= Len(firmware[p].data) /\ SubSeq(firmware[p].data, 1, 0) = <<>>
      BY <3>2 DEF Source
    <3>4. package'[p] = I!File(SubSeq(firmware[p].data, 1, 0))
      BY <1>1, <2>2, <2>5, <3>3
    <3>5. \A q \in Parts : q # p => package'[q] = package[q]
      BY <1>1, <2>5
    <3>6. Exporting'
      BY <1>1, <1>2, <2>2, <3>1, <3>2, <3>3, <3>4, <3>5 DEF ExportInv, Exporting, Through
    <3> QED
      BY <1>1, <1>2, <2>2, <2>5, <3>1, <3>6 DEF ExportInv
  <2>6. \/ job' = [c EXCEPT !.clean = @ /\ firmware[p] = I!None] /\ package' = package
        \/ /\ firmware[p] # I!None
           /\ package' = [package EXCEPT ![p] = I!File(<<>>)]
           /\ \/ job' = [c EXCEPT !.clean = FALSE]
              \/ job' = [c EXCEPT !.stage = "copy", !.part = p, !.at = 0]
    BY <2>1 DEF c
  <2> QED
    BY <2>3, <2>4, <2>5, <2>6
<1>14. CASE I!ExportBlock
  <2> DEFINE from == firmware[job.part].data
  <2>1. /\ job.op = "export" /\ job.stage = "copy" /\ job.todo \subseteq Parts
        /\ \/ /\ job.at < Len(from)
              /\ \/ /\ package' = [package EXCEPT ![job.part] = I!File(Append(package[job.part].data, from[job.at + 1]))]
                    /\ job' = [job EXCEPT !.at = @ + 1]
                 \/ package' = package /\ job' = [job EXCEPT !.at = @ + 1, !.clean = FALSE]
           \/ job' = [job EXCEPT !.stage = "next", !.clean = @ /\ job.at = Len(from)] /\ package' = package
           \/ /\ job' = [job EXCEPT !.stage = "next", !.clean = FALSE]
              /\ \E s \in {SubSeq(package[job.part].data, 1, Len(package[job.part].data) - 1)} :
                   package' = [package EXCEPT ![job.part] = I!File(s)]
    BY <1>1, <1>14 DEF I!ExportBlock, I!CopyEnds, I!Run, I!Exported, ExportInv
  <2>2. job.clean =>
          /\ job.part \in Parts \ job.todo /\ firmware[job.part].kind = "file"
          /\ job.at \in Nat /\ job.at <= Len(from) /\ from \in Seq(Piece)
          /\ firmware[job.part] = I!File(from)
          /\ package[job.part] = I!File(SubSeq(from, 1, job.at))
    BY <1>1, <2>1 DEF ExportInv, Exporting, Source, I!File
  <2> HIDE DEF from
  <2>3. CASE /\ job.at < Len(from)
             /\ package' = [package EXCEPT ![job.part] = I!File(Append(package[job.part].data, from[job.at + 1]))]
             /\ job' = [job EXCEPT !.at = @ + 1]
    <3>1. /\ DOMAIN job' = JobFields /\ job'.op = "export" /\ job'.stage = "copy" /\ job'.part = job.part
          /\ job'.clean = job.clean /\ job'.todo = job.todo /\ job'.at = job.at + 1
      BY <1>1, <2>1, <2>3 DEF JobFields
    <3>2. DOMAIN package' = Parts /\ \A q \in Parts : q # job.part => package'[q] = package[q]
      BY <1>1, <2>3
    <3>3. ASSUME job.clean
          PROVE  /\ package'[job.part] = I!File(SubSeq(from, 1, job.at + 1))
                 /\ job.at + 1 \in Nat /\ job.at + 1 <= Len(from)
      <4>1. package[job.part].data = SubSeq(from, 1, job.at)
        BY <2>2, <3>3 DEF I!File
      <4>2. Append(package[job.part].data, from[job.at + 1]) = SubSeq(from, 1, job.at + 1)
        BY <2>2, <2>3, <3>3, <4>1, ExtendPrefix
      <4> QED
        BY <1>1, <2>2, <2>3, <3>3, <4>2
    <3>4. Exporting'
      BY <1>1, <1>2, <2>1, <2>2, <3>1, <3>2, <3>3 DEF ExportInv, Exporting, Through, from
    <3> QED
      BY <1>1, <1>2, <2>1, <3>1, <3>2, <3>4 DEF ExportInv
  <2>4. CASE package' = package /\ job' = [job EXCEPT !.at = @ + 1, !.clean = FALSE]
    <3>1. DOMAIN job' = JobFields /\ job'.op = "export" /\ job'.clean = FALSE /\ job'.todo = job.todo
      BY <1>1, <2>1, <2>4 DEF JobFields
    <3> QED
      BY <1>1, <1>2, <2>1, <2>4, <3>1 DEF ExportInv, Exporting
  <2>5. CASE job' = [job EXCEPT !.stage = "next", !.clean = @ /\ job.at = Len(from)] /\ package' = package
    <3>1. /\ DOMAIN job' = JobFields /\ job'.op = "export" /\ job'.stage = "next"
          /\ job'.clean = (job.clean /\ job.at = Len(from)) /\ job'.todo = job.todo
      BY <1>1, <2>1, <2>5 DEF JobFields
    <3>2. job'.clean => package[job.part] = firmware[job.part]
      <4>1. from \in Seq(Piece) => SubSeq(from, 1, Len(from)) = from
        OBVIOUS
      <4> QED
        BY <2>2, <3>1, <4>1
    <3>3. Exporting'
      BY <1>1, <1>2, <2>1, <2>5, <3>1, <3>2 DEF ExportInv, Exporting, Through
    <3> QED
      BY <1>1, <1>2, <2>1, <2>5, <3>1, <3>3 DEF ExportInv
  <2>6. ASSUME NEW s, package' = [package EXCEPT ![job.part] = I!File(s)],
               job' = [job EXCEPT !.stage = "next", !.clean = FALSE]
        PROVE  ExportInv'
    <3>1. DOMAIN job' = JobFields /\ job'.op = "export" /\ job'.clean = FALSE /\ job'.todo = job.todo
      BY <1>1, <2>1, <2>6 DEF JobFields
    <3> QED
      BY <1>1, <1>2, <2>1, <2>6, <3>1 DEF ExportInv, Exporting
  <2> QED
    BY <2>1, <2>3, <2>4, <2>5, <2>6
<1>15. CASE I!ExportEnd
  <2>1. /\ job.op = "export" /\ job.stage = "next" /\ job.todo = {} /\ package' = package
        /\ job' = [job EXCEPT !.stage = "done"]
    BY <1>15 DEF I!ExportEnd, I!Finish
  <2>2. /\ DOMAIN job' = JobFields /\ job'.op = "export" /\ job'.stage = "done"
        /\ job'.clean = job.clean /\ job'.todo = {}
    BY <1>1, <2>1 DEF JobFields
  <2> QED
    BY <1>1, <1>2, <2>1, <2>2 DEF ExportInv, Exporting, Through
<1>16. CASE I!ExtractFile \/ I!ListContents \/ I!Verify \/ I!Unwritten
  <2>1. DOMAIN package' = Parts
    BY <1>1, <1>16 DEF I!ExtractFile, I!ListContents, I!Verify, I!Unwritten, I!Exported
  <2>2. PICK j \in {I!NoJob, I!Failed(I!NoJob)}, op \in {"extract", "list", "verify", "unwritten"}, rc \in {"ok", "err"} :
          \/ job' = [[j EXCEPT !.op = op] EXCEPT !.stage = "done"]
          \/ job' = [[j EXCEPT !.op = op, !.rc = rc] EXCEPT !.stage = "done"]
    BY <1>16 DEF I!ExtractFile, I!ListContents, I!Verify, I!Unwritten, I!Finish
  <2>3. op # "export"
    BY <2>2
  <2> QED
    BY <1>6, <2>1, <2>2, <2>3
<1>17. CASE I!SystemWrites \/ I!Kill
  <2>1. DOMAIN package' = Parts /\ job' = [I!NoJob EXCEPT !.stage = "done"]
    BY <1>1, <1>17 DEF I!SystemWrites, I!Kill, I!Finish
  <2>2. DOMAIN job' = JobFields /\ job'.op = "none" /\ job'.clean \in BOOLEAN
    BY <1>3, <2>1 DEF JobFields
  <2> QED
    BY <1>4, <2>1, <2>2
<1> QED
  BY <1>7, <1>8, <1>9, <1>10, <1>11, <1>12, <1>13, <1>14, <1>15, <1>16, <1>17 DEF I!Next

-----------------------------------------------------------------------------
(* Whole copies: backup and restore of a save.                             *)

\* What may be in a save, and what in a backup: its folders are empty.
InSave   == {e \in Entry : e.kind = "none" => e.data = <<>>}
InBackup == {e \in InSave : e.kind = "dir" => e.data = <<>>}

SavesType ==
  /\ DOMAIN saves \subseteq Title
  /\ \A t \in DOMAIN saves : saves[t] \in [Name -> InSave]

BackupType == backup \in [Title -> [made : BOOLEAN, entry : [Name -> InBackup]]]

\* A call is about a title, and a backup past its opening about a listed one.
CallType ==
  /\ DOMAIN call = CallFields /\ call.clean \in BOOLEAN /\ call.todo \subseteq Name
  /\ all.left \subseteq Title
  /\ call.op \in {"backup", "restore"} => call.title \in Title
  /\ call.stage = "copy" => call.file \in Name
  /\ call.op = "backup" /\ call.stage \in {"next", "copy"} => S!Listed(call.title)
  /\ call.stage = "open" /\ "save" \in held => S!Listed(call.title)
  /\ call.op = "restore" /\ call.stage \in {"next", "copy"} =>
       \A n \in call.todo : backup[call.title].entry[n] # S!None

\* An entry where the call copies from, and where it copies to.
From(n) == IF call.op = "backup" THEN saves[call.title][n] ELSE backup[call.title].entry[n]
To(n)   == IF call.op = "backup" THEN backup[call.title].entry[n] ELSE saves[call.title][n]

\* An entry is where it should be.
Agree(n) == From(n) # S!None => To(n) = S!Copied(From(n))

\* As long as nothing failed, a call has what it is through with, and a
\* beginning of what it copies.
Copying ==
  call.op \in {"backup", "restore"} /\ call.clean /\ S!Listed(call.title) =>
    /\ call.stage \in {"next", "copy", "done"} =>
         \A n \in Name \ call.todo : (call.stage = "copy" => n # call.file) => Agree(n)
    /\ call.stage = "done" => call.todo = {}
    /\ call.stage = "copy" =>
         /\ call.file \notin call.todo /\ From(call.file).kind = "file"
         /\ Len(To(call.file).data) <= Len(From(call.file).data)
         /\ To(call.file) = S!File(SubSeq(From(call.file).data, 1, Len(To(call.file).data)))

\* What holds of a backup and a restore at every step.
CopyInv == SavesType /\ BackupType /\ CallType /\ Copying

ICopy == running = "saves" => CopyInv

\* Every step of the saves' part keeps the copies' invariant.
LEMMA CopyStep ==
  ASSUME ICalls, ICopy, running = "saves", S!Next
  PROVE  CopyInv'
<1>1. /\ SavesType /\ BackupType /\ CallType /\ Copying
      /\ DOMAIN call = CallFields /\ call.clean \in BOOLEAN /\ call.todo \subseteq Name
      /\ Closed /\ DOMAIN all = {"op", "left"}
  BY DEF ICopy, CopyInv, CallType, ICalls, CallsInv
\* Entries.
<1>2. /\ S!None \in InBackup /\ S!Dir \in InBackup
      /\ \A s \in Seq(Bit) : S!File(s) \in InBackup
  <2>1. <<>> \in Seq(Bit)
    OBVIOUS
  <2> QED
    BY <2>1 DEF S!None, S!Dir, S!File, InBackup, InSave, Entry
<1>3. ASSUME NEW e \in InSave
      PROVE  /\ e.data \in Seq(Bit)
             /\ e # S!None => e.kind \in {"dir", "file"}
             /\ e.kind = "file" => e = S!File(e.data) /\ S!Copied(e) = e
             /\ e.kind = "dir" => S!Copied(e) = S!Dir
             /\ e \in InBackup /\ e.kind = "dir" => e = S!Dir
  BY DEF S!None, S!Dir, S!File, S!Copied, InBackup, InSave, Entry
<1>4. InBackup \subseteq InSave
  BY DEF InBackup
\* An entry of a backup is written.
<1>5. ASSUME NEW t \in Title, NEW n \in Name, NEW e \in InBackup, backup' = S!Put(t, n, e)
      PROVE  /\ BackupType'
             /\ backup'[t].entry[n] = e
             /\ \A m \in Name : m # n => backup'[t].entry[m] = backup[t].entry[m]
  <2>1. backup' = [backup EXCEPT ![t] = [backup[t] EXCEPT !.entry = [backup[t].entry EXCEPT ![n] = e]]]
    BY <1>1, <1>5 DEF S!Put, BackupType
  <2>2. backup[t] \in [made : BOOLEAN, entry : [Name -> InBackup]]
    BY <1>1 DEF BackupType
  <2>3. [backup[t].entry EXCEPT ![n] = e] \in [Name -> InBackup]
    BY <2>2
  <2> QED
    BY <1>1, <2>1, <2>2, <2>3 DEF BackupType
\* An entry of a save is written.
<1>6. ASSUME NEW t, NEW n \in Name, NEW e \in InSave, saves' = S!Restored(t, n, e)
      PROVE  /\ SavesType' /\ DOMAIN saves' = DOMAIN saves
             /\ S!Listed(t) => /\ saves'[t][n] = e
                               /\ \A m \in Name : m # n => saves'[t][m] = saves[t][m]
  <2>1. saves' = [saves EXCEPT ![t] = [saves[t] EXCEPT ![n] = e]]
    BY <1>6 DEF S!Restored
  <2> QED
    BY <1>1, <2>1 DEF SavesType, S!Listed
\* A call of which nothing is claimed.
<1>7. ASSUME SavesType', BackupType', CallType',
             call'.op \notin {"backup", "restore"} \/ call'.clean = FALSE \/ call'.stage \in {"mount", "open"}
      PROVE  CopyInv'
  BY <1>7 DEF CopyInv, Copying
\* A call that failed.
<1>8. ASSUME NEW c, DOMAIN c = CallFields, c.clean \in BOOLEAN
      PROVE  /\ DOMAIN S!Failed(c) = CallFields /\ S!Failed(c).clean = FALSE
             /\ S!Failed(c).op = c.op /\ S!Failed(c).title = c.title
             /\ S!Failed(c).todo = c.todo /\ S!Failed(c).stage = c.stage
  BY <1>8 DEF S!Failed, CallFields
\* A call at another stage.
<1>at. ASSUME NEW c, DOMAIN c = CallFields, NEW s, call' = S!At(c, s)
       PROVE  /\ DOMAIN call' = CallFields /\ call'.clean = c.clean
              /\ call'.op = c.op /\ call'.title = c.title
              /\ call'.todo = c.todo /\ call'.stage = s
  BY <1>at DEF S!At, CallFields
<1>9. ASSUME NEW op, NEW t
      PROVE  /\ DOMAIN S!Begun(op, t) = CallFields /\ S!Begun(op, t).clean \in BOOLEAN
             /\ S!Begun(op, t).op = op /\ S!Begun(op, t).title = t
             /\ S!Begun(op, t).todo = {} /\ S!Begun(op, t).stage = "mount"
  BY DEF S!Begun, CallFields
\* A call that ends without a success.
<1>10. ASSUME UNCHANGED <<saves, backup, all>>, DOMAIN call' = CallFields, call'.clean = FALSE,
              call'.op = call.op, call'.title = call.title, call'.todo \subseteq Name,
              call'.stage = "done"
       PROVE  CopyInv'
  <2>1. SavesType' /\ BackupType'
    BY <1>1, <1>10 DEF SavesType, BackupType
  <2>2. CallType'
    BY <1>1, <1>10 DEF CallType, S!Listed
  <2> QED
    BY <1>7, <1>10, <2>1, <2>2
<1>11. CASE \E op \in {"backup", "restore"}, t \in Title : S!Start(op, t)
  <2>1. PICK op \in {"backup", "restore"}, t \in Title :
          call' = S!Begun(op, t) \/ call' = S!At(S!Failed(S!Begun(op, t)), "done")
    BY <1>11 DEF S!Start
  <2>2. UNCHANGED <<saves, backup, all>>
    BY <1>11 DEF S!Start
  <2>3. /\ DOMAIN call' = CallFields /\ call'.clean \in BOOLEAN /\ call'.title = t /\ call'.todo = {}
        /\ call'.stage = "mount" \/ (call'.stage = "done" /\ call'.clean = FALSE)
    <3> DEFINE b == S!Begun(op, t)
               f == S!Failed(b)
    <3>1. /\ DOMAIN b = CallFields /\ b.clean \in BOOLEAN /\ b.title = t /\ b.todo = {} /\ b.stage = "mount"
      BY <1>9
    <3> HIDE DEF b
    <3>2. DOMAIN f = CallFields /\ f.clean = FALSE /\ f.title = t /\ f.todo = {}
      BY <1>8, <3>1
    <3> HIDE DEF f
    <3>3. call' = b \/ call' = S!At(f, "done")
      BY <2>1 DEF b, f
    <3> QED
      BY <1>at, <3>1, <3>2, <3>3
  <2>4. SavesType' /\ BackupType' /\ CallType'
    BY <1>1, <2>2, <2>3 DEF SavesType, BackupType, CallType
  <2> QED
    BY <1>7, <2>3, <2>4
<1>12. CASE S!Mount
  <2>1. UNCHANGED <<saves, backup, all>> /\ call.stage = "mount"
    BY <1>12 DEF S!Mount
  <2>2. CASE call' = S!At(S!Failed(call), "done")
    <3> DEFINE f == S!Failed(call)
    <3>1. /\ DOMAIN f = CallFields /\ f.clean = FALSE /\ f.op = call.op /\ f.title = call.title
          /\ f.todo = call.todo
      BY <1>1, <1>8
    <3> HIDE DEF f
    <3>2. call' = S!At(f, "done")
      BY <2>2 DEF f
    <3>3. /\ DOMAIN call' = CallFields /\ call'.clean = FALSE /\ call'.op = call.op
          /\ call'.title = call.title /\ call'.todo = call.todo /\ call'.stage = "done"
      BY <1>at, <3>1, <3>2
    <3> QED
      BY <1>1, <1>10, <2>1, <3>3
  <2>3. CASE /\ held' = (held \ {"reader"}) \cup (IF S!Listed(call.title) THEN {"save"} ELSE {})
             /\ call' = S!At(call, "open")
    <3>1. /\ DOMAIN call' = CallFields /\ call'.clean = call.clean /\ call'.op = call.op
          /\ call'.title = call.title /\ call'.todo = call.todo /\ call'.stage = "open"
      BY <1>1, <1>at, <2>3
    <3>2. "save" \in held' => S!Listed(call.title)
      BY <1>1, <2>1, <2>3 DEF Closed
    <3>3. CallType'
      BY <1>1, <2>1, <3>1, <3>2 DEF CallType, S!Listed
    <3>4. SavesType' /\ BackupType'
      BY <1>1, <2>1 DEF SavesType, BackupType
    <3> QED
      BY <1>7, <3>1, <3>3, <3>4
  <2> QED
    BY <1>12, <2>2, <2>3 DEF S!Mount, S!Return
\* A call that returns what failed.
<1>13. ASSUME S!Return(S!Failed(call)), UNCHANGED <<saves, backup, all>>
       PROVE  CopyInv'
  <2> DEFINE f == S!Failed(call)
  <2>1. /\ DOMAIN f = CallFields /\ f.clean = FALSE /\ f.op = call.op /\ f.title = call.title
        /\ f.todo = call.todo
    BY <1>1, <1>8
  <2> HIDE DEF f
  <2>2. call' = S!At(f, "done")
    BY <1>13 DEF S!Return, f
  <2>3. /\ DOMAIN call' = CallFields /\ call'.clean = FALSE /\ call'.op = call.op
        /\ call'.title = call.title /\ call'.todo = call.todo /\ call'.stage = "done"
    BY <1>at, <2>1, <2>2
  <2> QED
    BY <1>1, <1>10, <1>13, <2>3
<1>14. CASE S!BackupOpen
  <2>1. call.op = "backup" /\ call.stage = "open" /\ UNCHANGED <<saves, all>> /\ call.title \in Title
    BY <1>1, <1>14 DEF S!BackupOpen, CallType
  <2>2. BackupType' /\ \A t \in Title : backup'[t].entry = backup[t].entry
    <3>1. backup' = backup \/ backup' = [backup EXCEPT ![call.title] = [backup[call.title] EXCEPT !.made = TRUE]]
      BY <1>1, <1>14, <2>1 DEF S!BackupOpen, S!Made, BackupType
    <3>2. backup[call.title] \in [made : BOOLEAN, entry : [Name -> InBackup]]
      BY <1>1, <2>1 DEF BackupType
    <3>3. /\ [backup[call.title] EXCEPT !.made = TRUE] \in [made : BOOLEAN, entry : [Name -> InBackup]]
          /\ [backup[call.title] EXCEPT !.made = TRUE].entry = backup[call.title].entry
      BY <3>2
    <3> QED
      BY <1>1, <2>1, <3>1, <3>3 DEF BackupType
  <2>3. SavesType'
    BY <1>1, <2>1 DEF SavesType
  <2>4. CASE S!Return(S!Failed(call))
    <3> DEFINE f == S!Failed(call)
    <3>1. /\ DOMAIN f = CallFields /\ f.clean = FALSE /\ f.op = call.op /\ f.title = call.title
          /\ f.todo = call.todo
      BY <1>1, <1>8
    <3> HIDE DEF f
    <3>2. call' = S!At(f, "done")
      BY <2>4 DEF S!Return, f
    <3>3. /\ DOMAIN call' = CallFields /\ call'.clean = FALSE /\ call'.op = call.op
          /\ call'.title = call.title /\ call'.todo = call.todo /\ call'.stage = "done"
      BY <1>at, <3>1, <3>2
    <3>4. CallType'
      BY <1>1, <2>1, <3>3 DEF CallType, S!Listed
    <3> QED
      BY <1>7, <2>2, <2>3, <3>3, <3>4
  <2>5. CASE /\ "save" \in held
             /\ call' = [S!At(call, "next") EXCEPT !.todo = {n \in Name : saves[call.title][n] # S!None}]
    <3>1. /\ DOMAIN call' = CallFields /\ call'.clean = call.clean /\ call'.op = "backup"
          /\ call'.title = call.title /\ call'.stage = "next"
          /\ call'.todo = {n \in Name : saves[call.title][n] # S!None}
      BY <1>1, <2>1, <2>5 DEF S!At, CallFields
    <3>2. S!Listed(call.title)
      BY <1>1, <2>1, <2>5 DEF CallType
    <3>3. CallType'
      BY <1>1, <2>1, <3>1, <3>2 DEF CallType, S!Listed
    <3>4. Copying'
      BY <2>1, <3>1 DEF Copying, Agree, From
    <3> QED
      BY <2>2, <2>3, <3>3, <3>4 DEF CopyInv
  <2> QED
    BY <1>14, <2>4, <2>5 DEF S!BackupOpen
<1>15. CASE S!RestoreOpen
  <2>1. call.op = "restore" /\ call.stage = "open" /\ UNCHANGED <<saves, all, backup>>
    BY <1>15 DEF S!RestoreOpen
  <2>2. CASE call' = [S!At(call, "next") EXCEPT !.todo = {n \in Name : backup[call.title].entry[n] # S!None}]
    <3>1. /\ DOMAIN call' = CallFields /\ call'.clean = call.clean /\ call'.op = "restore"
          /\ call'.title = call.title /\ call'.stage = "next"
          /\ call'.todo = {n \in Name : backup[call.title].entry[n] # S!None}
      BY <1>1, <2>1, <2>2 DEF S!At, CallFields
    <3>2. CallType' /\ SavesType' /\ BackupType'
      BY <1>1, <2>1, <3>1 DEF CallType, SavesType, BackupType
    <3>3. Copying'
      BY <2>1, <3>1 DEF Copying, Agree, From
    <3> QED
      BY <3>2, <3>3 DEF CopyInv
  <2> QED
    BY <1>13, <1>15, <2>1, <2>2 DEF S!RestoreOpen
\* A call that has copied everything.
<1>16. ASSUME NEW c, c = call \/ c = [call EXCEPT !.rc = "ok"], S!Return(c), call.todo = {},
              call.stage = "next", call.op \in {"backup", "restore"}, UNCHANGED <<saves, backup, all>>
       PROVE  CopyInv'
  <2>1. /\ DOMAIN c = CallFields /\ c.clean = call.clean /\ c.op = call.op /\ c.title = call.title
        /\ c.todo = call.todo
    BY <1>1, <1>16 DEF CallFields
  <2>2. /\ DOMAIN call' = CallFields /\ call'.clean = call.clean /\ call'.op = call.op
        /\ call'.title = call.title /\ call'.todo = {} /\ call'.stage = "done"
    BY <1>1, <1>at, <1>16, <2>1 DEF S!Return
  <2>3. CallType' /\ SavesType' /\ BackupType'
    BY <1>1, <1>16, <2>2 DEF CallType, SavesType, BackupType
  <2>4. Copying'
    BY <1>1, <1>16, <2>2 DEF Copying, Agree, From, To, S!Listed
  <2> QED
    BY <2>3, <2>4 DEF CopyInv
<1>17. CASE S!BackupEnd \/ S!RestoreEnd
  BY <1>13, <1>16, <1>17 DEF S!BackupEnd, S!RestoreEnd
<1>18. CASE S!StartAll \/ S!Kill
  <2>1. UNCHANGED <<saves, backup>> /\ all'.left \subseteq Title
    BY <1>1, <1>18 DEF S!StartAll, S!Kill, S!NoLoop, SavesType
  <2> DEFINE b == S!Begun("none", CHOOSE t \in Title : TRUE)
             f == S!Failed(b)
  <2>2. DOMAIN b = CallFields /\ b.clean \in BOOLEAN /\ b.op = "none" /\ b.todo = {}
    BY <1>9
  <2>3. call' = S!At(b, "done") \/ call' = S!At(f, "done")
    BY <1>18 DEF S!StartAll, S!Kill
  <2> HIDE DEF b
  <2>4. DOMAIN f = CallFields /\ f.clean \in BOOLEAN /\ f.op = "none" /\ f.todo = {}
    BY <1>8, <2>2
  <2> HIDE DEF f
  <2>5. /\ DOMAIN call' = CallFields /\ call'.clean \in BOOLEAN /\ call'.op = "none"
        /\ call'.todo = {} /\ call'.stage = "done"
    BY <1>at, <2>2, <2>3, <2>4
  <2>6. CallType' /\ SavesType' /\ BackupType'
    BY <1>1, <2>1, <2>5 DEF CallType, SavesType, BackupType
  <2> QED
    BY <1>7, <2>5, <2>6
<1>19. CASE S!AllNext
  <2>1. PICK t \in all.left : call' = S!Begun(all.op, t) /\ all' = [all EXCEPT !.left = @ \ {t}]
    BY <1>19 DEF S!AllNext
  <2>2. UNCHANGED <<saves, backup>> /\ t \in Title /\ all'.left \subseteq Title
    BY <1>1, <1>19, <2>1 DEF S!AllNext, CallType
  <2>3. /\ DOMAIN call' = CallFields /\ call'.clean \in BOOLEAN /\ call'.title = t
        /\ call'.todo = {} /\ call'.stage = "mount"
    BY <1>9, <2>1
  <2>4. CallType' /\ SavesType' /\ BackupType'
    BY <1>1, <2>2, <2>3 DEF CallType, SavesType, BackupType
  <2> QED
    BY <1>7, <2>3, <2>4
<1>20. CASE S!AllEnd \/ S!ListCount \/ S!ListFill
  <2>1. UNCHANGED <<saves, backup, call>> /\ all'.left \subseteq Title /\ held' \subseteq held
    <3>1. CASE S!AllEnd
      BY <1>1, <3>1 DEF S!AllEnd, S!NoLoop, CallType
    <3>2. CASE S!ListCount
      BY <1>1, <3>2 DEF S!ListCount, CallType
    <3>3. CASE S!ListFill
      BY <1>1, <3>3 DEF S!ListFill, CallType
    <3> QED
      BY <1>20, <3>1, <3>2, <3>3
  <2> QED
    BY <1>1, <2>1
    DEF CopyInv, CallType, SavesType, BackupType, Copying, Agree, From, To, S!Listed
<1>21. CASE S!Play
  <2>1. saves' \in Saves0 /\ UNCHANGED <<backup, held, all>> /\ call' = [call EXCEPT !.op = "none"]
        /\ call.stage = "done"
    BY <1>21 DEF S!Play, S!Resting, S!Idle
  <2>2. SavesType'
    <3>1. ASSUME NEW t \in DOMAIN saves', NEW n \in Name PROVE saves'[t][n] \in Entries0
      BY <2>1 DEF Entries0
    <3>2. DOMAIN saves' \subseteq Title /\ \A t \in DOMAIN saves' : saves'[t] \in [Name -> Entry]
      BY <2>1, SavesAssumption
    <3> QED
      BY <3>1, <3>2, SavesAssumption DEF SavesType, InSave
  <2>3. /\ DOMAIN call' = CallFields /\ call'.clean = call.clean /\ call'.todo = call.todo
        /\ call'.op = "none" /\ call'.stage = "done"
    BY <1>1, <2>1 DEF CallFields
  <2>4. CallType' /\ BackupType'
    BY <1>1, <2>1, <2>3 DEF CallType, BackupType
  <2> QED
    BY <1>7, <2>2, <2>3, <2>4
\* The call behind an entry.
<1>22. ASSUME NEW n \in call.todo, call.stage = "next"
       PROVE  LET c == [call EXCEPT !.todo = @ \ {n}]
              IN  /\ n \in Name /\ DOMAIN c = CallFields /\ c.clean = call.clean
                  /\ c.op = call.op /\ c.title = call.title /\ c.stage = "next"
                  /\ c.todo = call.todo \ {n}
  BY <1>1, <1>22 DEF CallFields
\* An entry that is not copied.
<1>23. ASSUME NEW c, DOMAIN c = CallFields, c.clean = call.clean, c.op = call.op, c.title = call.title,
              c.stage = "next", c.todo \subseteq call.todo, call.stage = "next",
              call.op = "restore" => UNCHANGED backup,
              \/ call' = S!Failed(c)
              \/ call' = [c EXCEPT !.clean = FALSE]
              \/ call' = [c EXCEPT !.rc = "ok", !.clean = FALSE],
              SavesType', BackupType', DOMAIN saves' = DOMAIN saves, UNCHANGED all
       PROVE  CopyInv'
  <2>1. /\ DOMAIN call' = CallFields /\ call'.clean = FALSE /\ call'.op = call.op
        /\ call'.title = call.title /\ call'.stage = "next" /\ call'.todo \subseteq call.todo
    BY <1>23 DEF S!Failed, CallFields
  <2>2. CallType'
    BY <1>1, <1>23, <2>1 DEF CallType, S!Listed
  <2> QED
    BY <1>7, <1>23, <2>1, <2>2
\* An entry that is there now, or is begun: the others are as they were.
<1>24. ASSUME NEW n \in call.todo, call.stage = "next", n \in Name, call.op \in {"backup", "restore"},
              DOMAIN call' = CallFields, call'.clean = call.clean, call'.op = call.op,
              call'.title = call.title, call'.todo = call.todo \ {n},
              SavesType', BackupType', DOMAIN saves' = DOMAIN saves, UNCHANGED all,
              S!Listed(call.title) =>
                /\ \A m \in Name : m # n => From(m)' = From(m) /\ To(m)' = To(m)
                /\ \/ call'.stage = "next" /\ Agree(n)'
                   \/ /\ call'.stage = "copy" /\ call'.file = n /\ From(n)' = From(n)
                      /\ From(n).kind = "file" /\ To(n)' = S!File(<<>>)
                      /\ From(n).data \in Seq(Bit),
              call'.stage = "next" \/ (call'.stage = "copy" /\ call'.file = n),
              call.op = "restore" => UNCHANGED backup
       PROVE  CopyInv'
  <2>1. CallType'
    BY <1>1, <1>24 DEF CallType, S!Listed
  <2>2. Copying'
    <3> SUFFICES ASSUME call.clean, S!Listed(call.title) PROVE Copying'
      BY <1>24 DEF Copying, S!Listed
    <3>1. \A m \in Name \ call.todo : Agree(m)
      BY <1>1, <1>24 DEF Copying
    <3>2. \A m \in Name \ call.todo : Agree(m)'
      BY <1>24, <3>1 DEF Agree
    <3>3. CASE call'.stage = "next"
      BY <1>24, <3>2, <3>3 DEF Copying
    <3>4. CASE call'.stage = "copy"
      <4>1. /\ call'.file = n /\ From(n)' = From(n) /\ From(n).kind = "file" /\ To(n)' = S!File(<<>>)
            /\ From(n).data \in Seq(Bit)
        BY <1>24, <3>4
      <4>2. To(n)'.data = <<>> /\ Len(To(n)'.data) = 0 /\ SubSeq(From(n).data, 1, 0) = <<>>
            /\ 0 <= Len(From(n).data)
        BY <4>1 DEF S!File
      <4> QED
        BY <1>24, <3>2, <3>4, <4>1, <4>2 DEF Copying
    <3> QED
      BY <1>24, <3>3, <3>4
  <2> QED
    BY <1>24, <2>1, <2>2 DEF CopyInv
<1>25. CASE S!BackupEntry
  <2>1. PICK n \in call.todo : \E c \in {[call EXCEPT !.todo = @ \ {n}]} :
          \/ /\ saves[call.title][n].kind = "dir"
             /\ \/ backup' = S!Put(call.title, n, S!Dir) /\ call' = c
                \/ call' = [c EXCEPT !.clean = FALSE] /\ UNCHANGED backup
          \/ /\ saves[call.title][n].kind = "file"
             /\ \/ call' = S!Failed(c) /\ UNCHANGED backup
                \/ call' = [c EXCEPT !.rc = "ok", !.clean = FALSE] /\ UNCHANGED backup
                \/ /\ backup' = S!Put(call.title, n, S!File(<<>>))
                   /\ call' = [S!At(c, "copy") EXCEPT !.file = n, !.rc = "ok"]
    BY <1>25 DEF S!BackupEntry, S!Opened
  <2> DEFINE c == [call EXCEPT !.todo = @ \ {n}]
  <2>2. call.stage = "next" /\ call.op = "backup" /\ UNCHANGED <<saves, all>> /\ SavesType'
        /\ call.title \in Title /\ S!Listed(call.title)
    BY <1>1, <1>25 DEF S!BackupEntry, SavesType, CallType
  <2>3. /\ n \in Name /\ DOMAIN c = CallFields /\ c.clean = call.clean
        /\ c.op = call.op /\ c.title = call.title /\ c.stage = "next" /\ c.todo = call.todo \ {n}
    BY <1>22, <2>2
  <2> HIDE DEF c
  <2>4. saves[call.title][n] \in InSave
    BY <1>1, <2>2, <2>3 DEF SavesType, S!Listed
  <2>5. CASE backup' = backup /\ \/ call' = S!Failed(c)
                                 \/ call' = [c EXCEPT !.clean = FALSE]
                                 \/ call' = [c EXCEPT !.rc = "ok", !.clean = FALSE]
    <3>1. BackupType' /\ c.todo \subseteq call.todo
      BY <1>1, <2>3, <2>5 DEF BackupType
    <3> QED
      BY <1>23, <2>2, <2>3, <2>5, <3>1
  <2>6. CASE /\ saves[call.title][n].kind = "dir"
             /\ backup' = S!Put(call.title, n, S!Dir) /\ call' = c
    <3>1. /\ BackupType' /\ backup'[call.title].entry[n] = S!Dir
          /\ \A m \in Name : m # n => backup'[call.title].entry[m] = backup[call.title].entry[m]
      BY <1>2, <1>5, <2>2, <2>3, <2>6
    <3>2. \A m \in Name : m # n => From(m)' = From(m) /\ To(m)' = To(m)
      BY <2>2, <2>3, <2>6, <3>1 DEF From, To
    <3>3. From(n)' = saves[call.title][n] /\ To(n)' = S!Dir
      BY <2>2, <2>3, <2>6, <3>1 DEF From, To
    <3>4. S!Copied(saves[call.title][n]) = S!Dir
      BY <1>3, <2>4, <2>6
    <3>5. Agree(n)'
      BY <3>3, <3>4 DEF Agree
    <3>6. /\ DOMAIN call' = CallFields /\ call'.clean = call.clean /\ call'.op = call.op
          /\ call'.title = call.title /\ call'.stage = "next" /\ call'.todo = call.todo \ {n}
      BY <2>3, <2>6
    <3> QED
      BY <1>24, <2>2, <2>3, <3>1, <3>2, <3>5, <3>6
  <2>7. CASE /\ saves[call.title][n].kind = "file"
             /\ backup' = S!Put(call.title, n, S!File(<<>>))
             /\ call' = [S!At(c, "copy") EXCEPT !.file = n, !.rc = "ok"]
    <3>1. /\ DOMAIN call' = CallFields /\ call'.clean = call.clean /\ call'.op = call.op
          /\ call'.title = call.title /\ call'.stage = "copy" /\ call'.file = n
          /\ call'.todo = call.todo \ {n}
      BY <2>3, <2>7 DEF S!At, CallFields
    <3>2. S!File(<<>>) \in InBackup
      <4>1. <<>> \in Seq(Bit)
        OBVIOUS
      <4> QED
        BY <1>2, <4>1
    <3>3. /\ BackupType' /\ backup'[call.title].entry[n] = S!File(<<>>)
          /\ \A m \in Name : m # n => backup'[call.title].entry[m] = backup[call.title].entry[m]
      BY <1>5, <2>2, <2>3, <2>7, <3>2
    <3>4. \A m \in Name : m # n => From(m)' = From(m) /\ To(m)' = To(m)
      BY <2>2, <3>1, <3>3 DEF From, To
    <3>5. /\ From(n)' = From(n) /\ From(n) = saves[call.title][n] /\ To(n)' = S!File(<<>>)
      BY <2>2, <3>1, <3>3 DEF From, To
    <3>6. From(n).kind = "file" /\ From(n).data \in Seq(Bit)
      BY <1>3, <2>4, <2>7, <3>5
    <3> QED
      BY <1>24, <2>2, <2>3, <3>1, <3>3, <3>4, <3>5, <3>6
  <2>8. \/ /\ saves[call.title][n].kind = "dir"
           /\ \/ backup' = S!Put(call.title, n, S!Dir) /\ call' = c
              \/ call' = [c EXCEPT !.clean = FALSE] /\ UNCHANGED backup
        \/ /\ saves[call.title][n].kind = "file"
           /\ \/ call' = S!Failed(c) /\ UNCHANGED backup
              \/ call' = [c EXCEPT !.rc = "ok", !.clean = FALSE] /\ UNCHANGED backup
              \/ /\ backup' = S!Put(call.title, n, S!File(<<>>))
                 /\ call' = [S!At(c, "copy") EXCEPT !.file = n, !.rc = "ok"]
    BY <2>1 DEF c
  <2> QED
    BY <2>5, <2>6, <2>7, <2>8
<1>26. CASE S!RestoreEntry
  <2>1. PICK n \in call.todo : \E c \in {[call EXCEPT !.todo = @ \ {n}]} :
          IF backup[call.title].entry[n].kind = "dir" THEN S!RestoreDir(c, n) ELSE S!RestoreFile(c, n)
    BY <1>26 DEF S!RestoreEntry
  <2> DEFINE c == [call EXCEPT !.todo = @ \ {n}]
  <2>2. call.stage = "next" /\ call.op = "restore" /\ UNCHANGED <<backup, all>> /\ BackupType'
        /\ call.title \in Title
    BY <1>1, <1>26 DEF S!RestoreEntry, BackupType, CallType
  <2>3. /\ n \in Name /\ DOMAIN c = CallFields /\ c.clean = call.clean
        /\ c.op = call.op /\ c.title = call.title /\ c.stage = "next" /\ c.todo = call.todo \ {n}
    BY <1>22, <2>2
  <2>4. IF backup[call.title].entry[n].kind = "dir" THEN S!RestoreDir(c, n) ELSE S!RestoreFile(c, n)
    BY <2>1
  <2> HIDE DEF c
  <2>5. backup[call.title].entry[n] \in InBackup /\ backup[call.title].entry[n] \in InSave
    BY <1>1, <1>4, <2>2, <2>3 DEF BackupType
  <2>6. ASSUME \/ call' = S!Failed(c)
               \/ call' = [c EXCEPT !.clean = FALSE],
               saves' = saves \/ saves' = S!Restored(call.title, n, S!File(<<>>))
        PROVE  CopyInv'
    <3>1. S!File(<<>>) \in InSave
      <4>1. <<>> \in Seq(Bit)
        OBVIOUS
      <4> QED
        BY <1>2, <1>4, <4>1
    <3>2. SavesType' /\ DOMAIN saves' = DOMAIN saves
      <4>1. CASE saves' = saves
        BY <1>1, <4>1 DEF SavesType
      <4>2. CASE saves' = S!Restored(call.title, n, S!File(<<>>))
        BY <1>6, <2>3, <3>1, <4>2
      <4> QED
        BY <2>6, <4>1, <4>2
    <3>3. c.todo \subseteq call.todo
      BY <2>3
    <3> QED
      BY <1>23, <2>2, <2>3, <2>6, <3>2, <3>3
  <2>7. CASE /\ backup[call.title].entry[n].kind = "dir"
             /\ saves' = S!Restored(call.title, n, S!Dir) /\ call' = [c EXCEPT !.rc = "ok"]
    <3>1. /\ DOMAIN call' = CallFields /\ call'.clean = call.clean /\ call'.op = call.op
          /\ call'.title = call.title /\ call'.stage = "next" /\ call'.todo = call.todo \ {n}
      BY <2>3, <2>7 DEF CallFields
    <3>2. /\ SavesType' /\ DOMAIN saves' = DOMAIN saves
          /\ S!Listed(call.title) =>
               /\ saves'[call.title][n] = S!Dir
               /\ \A m \in Name : m # n => saves'[call.title][m] = saves[call.title][m]
      BY <1>2, <1>4, <1>6, <2>3, <2>7
    <3>3. ASSUME S!Listed(call.title)
          PROVE  /\ \A m \in Name : m # n => From(m)' = From(m) /\ To(m)' = To(m)
                 /\ From(n)' = backup[call.title].entry[n] /\ To(n)' = S!Dir
      BY <2>2, <2>3, <3>1, <3>2, <3>3 DEF From, To
    <3>4. S!Copied(backup[call.title].entry[n]) = S!Dir
      BY <1>3, <2>5, <2>7
    <3>5. S!Listed(call.title) => Agree(n)'
      BY <3>3, <3>4 DEF Agree
    <3> QED
      BY <1>24, <2>2, <2>3, <3>1, <3>2, <3>3, <3>5
  <2>8. CASE /\ backup[call.title].entry[n].kind # "dir"
             /\ saves' = S!Restored(call.title, n, S!File(<<>>))
             /\ call' = [S!At(c, "copy") EXCEPT !.file = n, !.rc = "ok"]
    <3>1. /\ DOMAIN call' = CallFields /\ call'.clean = call.clean /\ call'.op = call.op
          /\ call'.title = call.title /\ call'.stage = "copy" /\ call'.file = n
          /\ call'.todo = call.todo \ {n}
      BY <2>3, <2>8 DEF S!At, CallFields
    <3>2. S!File(<<>>) \in InSave
      <4>1. <<>> \in Seq(Bit)
        OBVIOUS
      <4> QED
        BY <1>2, <1>4, <4>1
    <3>3. /\ SavesType' /\ DOMAIN saves' = DOMAIN saves
          /\ S!Listed(call.title) =>
               /\ saves'[call.title][n] = S!File(<<>>)
               /\ \A m \in Name : m # n => saves'[call.title][m] = saves[call.title][m]
      BY <1>6, <2>3, <2>8, <3>2
    <3>4. ASSUME S!Listed(call.title)
          PROVE  /\ \A m \in Name : m # n => From(m)' = From(m) /\ To(m)' = To(m)
                 /\ From(n)' = From(n) /\ From(n) = backup[call.title].entry[n]
                 /\ To(n)' = S!File(<<>>)
      BY <2>2, <2>3, <3>1, <3>3, <3>4 DEF From, To
    <3> QED
      <4>1. ASSUME S!Listed(call.title)
            PROVE  From(n).kind = "file" /\ From(n).data \in Seq(Bit)
        <5>1. backup[call.title].entry[n] # S!None
          BY <1>1, <2>2 DEF CallType
        <5> QED
          BY <1>3, <2>5, <2>8, <3>4, <4>1, <5>1
      <4> QED
        BY <1>24, <2>2, <2>3, <3>1, <3>3, <3>4, <4>1
  <2>9. CASE S!RestoreDir(c, n) /\ backup[call.title].entry[n].kind = "dir"
    BY <2>3, <2>6, <2>7, <2>9 DEF S!RestoreDir
  <2>10. CASE S!RestoreFile(c, n) /\ backup[call.title].entry[n].kind # "dir"
    BY <2>3, <2>6, <2>8, <2>10 DEF S!RestoreFile
  <2> QED
    BY <2>4, <2>9, <2>10
<1>27. CASE S!BackupChunk \/ S!RestoreChunk
  <2>1. call.stage = "copy" /\ call.op \in {"backup", "restore"} /\ UNCHANGED all /\ call.file \in Name
        /\ call.title \in Title /\ (call.op = "backup" => S!Listed(call.title))
    BY <1>1, <1>27 DEF S!BackupChunk, S!RestoreChunk, CallType
  <2> DEFINE n == call.file
  <2>2. /\ S!Listed(call.title) => From(n) \in InSave /\ To(n) \in InSave
        /\ backup[call.title].entry[n] \in InSave
    BY <1>1, <1>4, <2>1 DEF From, To, SavesType, BackupType, S!Listed
  <2>3. ASSUME NEW d, DOMAIN d = CallFields, d.clean \in BOOLEAN, d.op = call.op, d.title = call.title,
               d.todo = call.todo, d.clean => call.clean, S!CopyEnds(d), UNCHANGED <<saves, backup>>,
               d.clean /\ S!Listed(call.title) => Len(To(n).data) = Len(From(n).data)
        PROVE  CopyInv'
    <3>1. /\ DOMAIN call' = CallFields /\ call'.clean = d.clean /\ call'.op = call.op
          /\ call'.title = call.title /\ call'.todo = call.todo /\ call'.stage = "next"
      BY <2>3 DEF S!CopyEnds, S!At, CallFields
    <3>2. CallType' /\ SavesType' /\ BackupType'
      BY <1>1, <2>1, <2>3, <3>1 DEF CallType, SavesType, BackupType, S!Listed
    <3>3. Copying'
      <4> SUFFICES ASSUME d.clean, S!Listed(call.title) PROVE Copying'
        BY <2>3, <3>1 DEF Copying, S!Listed
      <4>1. /\ \A m \in Name \ call.todo : m # n => Agree(m)
            /\ n \notin call.todo /\ From(n).kind = "file"
            /\ To(n) = S!File(SubSeq(From(n).data, 1, Len(To(n).data)))
        BY <1>1, <2>1, <2>3 DEF Copying
      <4>2. From(n).data \in Seq(Bit) /\ From(n) = S!File(From(n).data) /\ S!Copied(From(n)) = From(n)
        BY <1>3, <2>2, <4>1
      <4>3. SubSeq(From(n).data, 1, Len(From(n).data)) = From(n).data
        BY <4>2
      <4>4. Agree(n)
        BY <2>3, <4>1, <4>2, <4>3 DEF Agree
      <4>5. \A m \in Name \ call.todo : Agree(m)'
        BY <2>3, <3>1, <4>1, <4>4 DEF Agree, From, To
      <4> QED
        BY <3>1, <4>5 DEF Copying
    <3> QED
      BY <3>2, <3>3 DEF CopyInv
  <2>4. ASSUME UNCHANGED call,
               S!Listed(call.title) =>
                 /\ Len(To(n).data) < Len(From(n).data)
                 /\ From(n)' = From(n)
                 /\ To(n)' = S!File(Append(To(n).data, From(n).data[Len(To(n).data) + 1]))
                 /\ \A m \in Name : m # n => From(m)' = From(m) /\ To(m)' = To(m),
               SavesType', BackupType', DOMAIN saves' = DOMAIN saves,
               call.op = "restore" => UNCHANGED backup
        PROVE  CopyInv'
    <3>1. CallType'
      BY <1>1, <2>1, <2>4 DEF CallType, S!Listed
    <3>2. Copying'
      <4> SUFFICES ASSUME call.clean, S!Listed(call.title) PROVE Copying'
        BY <2>4 DEF Copying, S!Listed
      <4>1. /\ \A m \in Name \ call.todo : m # n => Agree(m)
            /\ n \notin call.todo /\ From(n).kind = "file"
            /\ To(n) = S!File(SubSeq(From(n).data, 1, Len(To(n).data)))
        BY <1>1, <2>1 DEF Copying
      <4> DEFINE k == Len(To(n).data)
                 s == From(n).data
      <4>2. s \in Seq(Bit) /\ k \in Nat /\ k < Len(s) /\ To(n).data = SubSeq(s, 1, k)
        BY <1>3, <2>2, <2>4, <4>1 DEF S!File
      <4>3. /\ Append(To(n).data, s[k + 1]) = SubSeq(s, 1, k + 1)
            /\ Len(SubSeq(s, 1, k + 1)) = k + 1
        BY <4>2, ExtendPrefix
      <4>4. To(n)' = S!File(SubSeq(s, 1, k + 1)) /\ From(n)' = From(n)
        BY <2>4, <4>3
      <4>5. To(n)'.data = SubSeq(s, 1, k + 1) /\ Len(To(n)'.data) = k + 1
        BY <4>3, <4>4 DEF S!File
      <4>6. k + 1 <= Len(s)
        BY <4>2
      <4>7. \A m \in Name \ call.todo : m # n => Agree(m)'
        BY <2>4, <4>1 DEF Agree
      <4> HIDE DEF k
      <4>8. /\ call'.stage = "copy" /\ call'.file = n /\ call'.todo = call.todo
            /\ From(n)'.kind = "file" /\ Len(To(n)'.data) <= Len(From(n)'.data)
            /\ To(n)' = S!File(SubSeq(From(n)'.data, 1, Len(To(n)'.data)))
        BY <2>1, <2>4, <4>1, <4>4, <4>5, <4>6
      <4> QED
        BY <4>1, <4>7, <4>8 DEF Copying
    <3> QED
      BY <2>4, <3>1, <3>2 DEF CopyInv
  <2>5. CASE S!BackupChunk
    <3>1. call.op = "backup" /\ S!Listed(call.title) /\ saves' = saves
          /\ From(n) = saves[call.title][n] /\ To(n) = backup[call.title].entry[n]
      BY <2>1, <2>5 DEF S!BackupChunk, From, To
    <3>2. CASE S!CopyEnds(S!Failed(call)) /\ UNCHANGED backup
      BY <1>1, <1>8, <2>3, <3>1, <3>2
    <3>3. CASE Len(To(n).data) = Len(From(n).data) /\ S!CopyEnds(call) /\ UNCHANGED backup
      BY <1>1, <2>3, <3>1, <3>3
    <3>4. CASE /\ Len(To(n).data) < Len(From(n).data)
               /\ backup' = S!Put(call.title, n, S!File(Append(To(n).data, From(n).data[Len(To(n).data) + 1])))
               /\ UNCHANGED call
      <4> DEFINE e == S!File(Append(To(n).data, From(n).data[Len(To(n).data) + 1]))
      <4>1. e \in InBackup
        <5>1. To(n).data \in Seq(Bit) /\ From(n).data \in Seq(Bit)
          BY <1>3, <2>2, <3>1
        <5>2. Append(To(n).data, From(n).data[Len(To(n).data) + 1]) \in Seq(Bit)
          BY <3>4, <5>1
        <5> QED
          BY <1>2, <5>2
      <4> HIDE DEF e
      <4>2. backup' = S!Put(call.title, n, e)
        BY <3>4 DEF e
      <4>3. /\ BackupType' /\ backup'[call.title].entry[n] = e
            /\ \A m \in Name : m # n => backup'[call.title].entry[m] = backup[call.title].entry[m]
        BY <1>5, <2>1, <4>1, <4>2
      <4>4. /\ From(n)' = From(n) /\ To(n)' = e
            /\ \A m \in Name : m # n => From(m)' = From(m) /\ To(m)' = To(m)
        BY <2>1, <3>1, <3>4, <4>3 DEF From, To
      <4>5. SavesType' /\ DOMAIN saves' = DOMAIN saves
        BY <1>1, <3>1 DEF SavesType
      <4> QED
        BY <2>4, <3>1, <3>4, <4>3, <4>4, <4>5 DEF e
    <3>5. ASSUME NEW d \in {[call EXCEPT !.clean = FALSE], [S!Failed(call) EXCEPT !.clean = FALSE]},
                 backup' = S!Put(call.title, n, S!File(SubSeq(To(n).data, 1, Len(To(n).data) - 1))),
                 S!CopyEnds(d)
          PROVE  CopyInv'
      <4> DEFINE e == S!File(SubSeq(To(n).data, 1, Len(To(n).data) - 1))
      <4>1. e \in InBackup
        <5>1. To(n).data \in Seq(Bit)
          BY <1>3, <2>2, <3>1
        <5>2. SubSeq(To(n).data, 1, Len(To(n).data) - 1) \in Seq(Bit)
          BY <5>1
        <5> QED
          BY <1>2, <5>2
      <4> HIDE DEF e
      <4>2. backup' = S!Put(call.title, n, e)
        BY <3>5 DEF e
      <4>3. BackupType'
        BY <1>5, <2>1, <4>1, <4>2
      <4>4. /\ DOMAIN d = CallFields /\ d.clean = FALSE /\ d.op = call.op /\ d.title = call.title
            /\ d.todo = call.todo
        BY <1>1, <3>5 DEF S!Failed, CallFields
      <4>5. /\ DOMAIN call' = CallFields /\ call'.clean = FALSE /\ call'.op = call.op
            /\ call'.title = call.title /\ call'.todo = call.todo /\ call'.stage = "next"
            /\ held' = held \ {"src", "dst"}
        BY <3>5, <4>4 DEF S!CopyEnds, S!At, CallFields
      <4>6. CallType' /\ SavesType'
        BY <1>1, <2>1, <3>1, <4>5 DEF CallType, SavesType, S!Listed
      <4> QED
        BY <1>7, <4>3, <4>5, <4>6
    <3> QED
      BY <2>5, <3>1, <3>2, <3>3, <3>4, <3>5 DEF S!BackupChunk
  <2>6. CASE S!RestoreChunk
    <3>1. call.op = "restore" /\ backup' = backup /\ BackupType'
          /\ From(n) = backup[call.title].entry[n] /\ To(n) = saves[call.title][n]
      BY <1>1, <2>6 DEF S!RestoreChunk, From, To, BackupType
    <3>2. CASE \E r \in {"ok", "err"} : S!CopyEnds([call EXCEPT !.rc = r, !.clean = FALSE]) /\ UNCHANGED saves
      <4>1. PICK r \in {"ok", "err"} : S!CopyEnds([call EXCEPT !.rc = r, !.clean = FALSE])
        BY <3>2
      <4> DEFINE d == [call EXCEPT !.rc = r, !.clean = FALSE]
      <4>2. /\ DOMAIN d = CallFields /\ d.clean = FALSE /\ d.op = call.op /\ d.title = call.title
            /\ d.todo = call.todo /\ S!CopyEnds(d)
        BY <1>1, <4>1 DEF CallFields
      <4> HIDE DEF d
      <4> QED
        BY <2>3, <3>1, <3>2, <4>2
    <3>3. CASE Len(To(n).data) = Len(From(n).data) /\ S!CopyEnds([call EXCEPT !.rc = "ok"]) /\ UNCHANGED saves
      <4> DEFINE d == [call EXCEPT !.rc = "ok"]
      <4>1. /\ DOMAIN d = CallFields /\ d.clean = call.clean /\ d.op = call.op /\ d.title = call.title
            /\ d.todo = call.todo /\ S!CopyEnds(d)
        BY <1>1, <3>3 DEF CallFields
      <4> HIDE DEF d
      <4> QED
        BY <1>1, <2>3, <3>1, <3>3, <4>1
    <3>4. CASE /\ Len(To(n).data) < Len(From(n).data)
               /\ saves' = S!Restored(call.title, n, S!File(Append(To(n).data, From(n).data[Len(To(n).data) + 1])))
               /\ UNCHANGED call
      <4> DEFINE e == S!File(Append(To(n).data, From(n).data[Len(To(n).data) + 1]))
      <4>1. CASE S!Listed(call.title)
        <5>1. e \in InSave
          <6>1. To(n).data \in Seq(Bit) /\ From(n).data \in Seq(Bit)
            BY <1>3, <2>2, <4>1
          <6>2. Append(To(n).data, From(n).data[Len(To(n).data) + 1]) \in Seq(Bit)
            BY <3>4, <6>1
          <6> QED
            BY <1>2, <1>4, <6>2
        <5> HIDE DEF e
        <5>2. saves' = S!Restored(call.title, n, e)
          BY <3>4 DEF e
        <5>3. /\ SavesType' /\ DOMAIN saves' = DOMAIN saves /\ saves'[call.title][n] = e
              /\ \A m \in Name : m # n => saves'[call.title][m] = saves[call.title][m]
          BY <1>6, <2>1, <4>1, <5>1, <5>2
        <5>4. /\ From(n)' = From(n) /\ To(n)' = e
              /\ \A m \in Name : m # n => From(m)' = From(m) /\ To(m)' = To(m)
          BY <2>1, <3>1, <3>4, <5>3 DEF From, To
        <5> QED
          BY <2>4, <3>1, <3>4, <5>3, <5>4 DEF e
      <4>2. CASE ~S!Listed(call.title)
        <5>1. saves' = [saves EXCEPT ![call.title] = [saves[call.title] EXCEPT ![n] = e]]
          BY <3>4 DEF S!Restored
        <5>2. DOMAIN saves' = DOMAIN saves /\ \A t \in DOMAIN saves : saves'[t] = saves[t]
          BY <4>2, <5>1 DEF S!Listed
        <5>3. SavesType'
          BY <1>1, <5>2 DEF SavesType
        <5> QED
          BY <2>4, <3>1, <3>4, <4>2, <5>2, <5>3
      <4> QED
        BY <4>1, <4>2
    <3> QED
      BY <2>6, <3>1, <3>2, <3>3, <3>4 DEF S!RestoreChunk
  <2> QED
    BY <1>27, <2>5, <2>6
<1> QED
  BY <1>11, <1>12, <1>14, <1>15, <1>17, <1>18, <1>19, <1>20, <1>21, <1>25, <1>26, <1>27 DEF S!Next

\* A backup, restore or firmware export in which nothing failed has copied
\* everything, whatever an earlier one left half done in the same place.
THEOREM CopiesWholeHolds == Spec => []CopiesWhole
<1>1. Init => ICopy
  <2> SUFFICES ASSUME S!Init PROVE CopyInv
    BY DEF Init, ICopy
  <2>1. /\ DOMAIN call = CallFields /\ call.op = "none" /\ call.stage = "done" /\ call.todo = {}
        /\ call.clean = FALSE
    BY DEF S!Init, CallFields
  <2>2. SavesType
    <3>1. saves \in Saves0
      BY DEF S!Init
    <3>2. ASSUME NEW t \in DOMAIN saves, NEW n \in Name PROVE saves[t][n] \in Entries0
      BY <3>1 DEF Entries0
    <3>3. DOMAIN saves \subseteq Title /\ \A t \in DOMAIN saves : saves[t] \in [Name -> Entry]
      BY <3>1, SavesAssumption
    <3> QED
      BY <3>2, <3>3, SavesAssumption DEF SavesType, InSave
  <2>3. BackupType
    <3>1. <<>> \in Seq(Bit)
      OBVIOUS
    <3>2. S!None \in InBackup
      BY <3>1 DEF S!None, InBackup, InSave, Entry
    <3> QED
      BY <3>2 DEF S!Init, S!Empty, BackupType
  <2>4. all.left = {}
    BY DEF S!Init, S!NoLoop
  <2> QED
    BY <2>1, <2>2, <2>3, <2>4 DEF CopyInv, CallType, Copying
<1>2. Init => IExport
  <2> SUFFICES ASSUME I!Init PROVE ExportInv
    BY DEF Init, IExport
  <2>1. DOMAIN job = JobFields /\ job.op = "none" /\ job.clean \in BOOLEAN
    BY DEF I!Init, I!NoJob, JobFields
  <2>2. firmware \in [Parts -> Source] /\ \A p \in Parts : firmware[p].kind = "none" => firmware[p].data = <<>>
    BY FirmwaresAssumption DEF I!Init, Source
  <2>3. DOMAIN package = Parts
    BY DEF I!Init
  <2> QED
    BY <2>1, <2>2, <2>3 DEF ExportInv, Exporting
<1>3. ICalls /\ ICopy /\ [Next]_vars => ICopy'
  <2> SUFFICES ASSUME ICalls, ICopy, [Next]_vars, running' = "saves"
               PROVE  CopyInv'
    BY DEF ICopy
  <2>1. CASE running = "saves" /\ S!Next
    BY <2>1, CopyStep
  <2>2. CASE UNCHANGED vars
    BY <2>2 DEF ICopy, vars, savesVars, CopyInv, SavesType, BackupType, CallType, Copying, Agree, From, To, S!Listed
  <2> QED
    BY <2>1, <2>2 DEF Next, Others
<1>4. IExport /\ [Next]_vars => IExport'
  <2> SUFFICES ASSUME IExport, [Next]_vars, running' = "images"
               PROVE  ExportInv'
    BY DEF IExport
  <2>1. CASE running = "images" /\ I!Next
    BY <2>1, ExportStep
  <2>2. CASE UNCHANGED vars
    BY <2>2 DEF IExport, vars, imagesVars, ExportInv, Exporting, Through
  <2> QED
    BY <2>1, <2>2 DEF Next, Others
<1>5. ICopy /\ IExport => CopiesWhole
  <2> SUFFICES ASSUME ICopy, IExport PROVE CopiesWhole
    OBVIOUS
  <2>1. ASSUME running = "images" PROVE I!CleanExportWhole
    BY <2>1 DEF IExport, ExportInv, Exporting, Through, I!CleanExportWhole, I!Idle
  <2>2. ASSUME running = "saves" PROVE S!CleanCallWhole
    <3>1. CopyInv
      BY <2>2 DEF ICopy
    <3>2. ASSUME S!Idle, call.clean, S!Listed(call.title), NEW n \in Name, call.op \in {"backup", "restore"}
          PROVE  Agree(n)
      BY <3>1, <3>2 DEF CopyInv, Copying, S!Idle
    <3>3. ASSUME S!Idle, call.clean, S!Listed(call.title), NEW n \in Name, call.op = "backup",
                 saves[call.title][n] # S!None
          PROVE  backup[call.title].entry[n] = S!Copied(saves[call.title][n])
      BY <3>2, <3>3 DEF Agree, From, To
    <3>4. ASSUME S!Idle, call.clean, S!Listed(call.title), NEW n \in Name, call.op = "restore",
                 backup[call.title].entry[n] # S!None
          PROVE  backup[call.title].entry[n] = saves[call.title][n]
      <4>1. saves[call.title][n] = S!Copied(backup[call.title].entry[n])
        BY <3>2, <3>4 DEF Agree, From, To
      <4>2. backup[call.title].entry[n] \in InBackup
        BY <3>1, <3>4 DEF CopyInv, CallType, BackupType
      <4>3. S!Copied(backup[call.title].entry[n]) = backup[call.title].entry[n]
        BY <4>2 DEF S!Copied, S!Dir, InBackup, InSave, Entry
      <4> QED
        BY <4>1, <4>3
    <3> QED
      BY <3>3, <3>4 DEF S!CleanCallWhole
  <2> QED
    BY <2>1, <2>2 DEF CopiesWhole
<1> QED
  BY CallsKept, <1>1, <1>2, <1>3, <1>4, <1>5, PTL DEF Spec
=============================================================================
