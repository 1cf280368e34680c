------------------------------- MODULE Images -------------------------------
(***************************************************************************)
(* Images of partitions: the dump and restore of the system partition      *)
(* (system/system_manager.c) and the export and extraction of firmware     *)
(* files (firmware_manager.c, features/firmware_ui.c).                     *)
(*                                                                         *)
(* A partition, its image and a firmware file are sequences of blocks, of  *)
(* which one is copied at a time.  Dumping the whole NAND, the boot        *)
(* partitions and creating an emuMMC do nothing yet but allocate the       *)
(* buffer, and the menu's export queues a task that does nothing.          *)
(***************************************************************************)
EXTENDS Naturals, Sequences

CONSTANTS
  Nands,    \* what the system partition may hold
  Parts,    \* the names of the firmware files and of the exFAT driver
  Exfat,    \* the latter
  Firmwares, \* what the firmware partition may hold: [Parts -> sequence of blocks, or none]
  MaxLeaky  \* bound: attempts to mount that fail half way

VARIABLES
  nand,      \* the system partition
  image,     \* SYSTEM.img and emummc.ini in the chosen folder
  firmware,  \* the firmware's files
  package,   \* the exported ones
  mounted,   \* s_initialized, the file systems that are open, and the attempts
             \* to mount one that failed half way
  handles,   \* what the program holds open
  job        \* the call: running, or the last one

vars == <<nand, image, firmware, package, mounted, handles, job>>

None    == [kind |-> "none", data |-> <<>>]
File(s) == [kind |-> "file", data |-> s]

Idle == job.stage = "done"

NoJob == [op |-> "none", stage |-> "done", todo |-> {}, part |-> Exfat, at |-> 0, rc |-> "ok",
          clean |-> TRUE, before |-> <<>>]

Run(j)    == job' = j
Finish(j) == job' = [j EXCEPT !.stage = "done"] /\ handles' = {}
Failed(j) == [j EXCEPT !.rc = "err", !.clean = FALSE]

-----------------------------------------------------------------------------
(* emummc_dump.                                                            *)

\* Device operator, storage, size and file; each is closed when the next fails.
DumpStart ==
  /\ Idle
  /\ \/ Finish(Failed(NoJob)) /\ UNCHANGED image
     \/ /\ image' = [image EXCEPT !.file = File(<<>>)]
        /\ handles' = {"operator", "storage", "file"}
        /\ Run([NoJob EXCEPT !.op = "dump", !.stage = "copy"])
  /\ UNCHANGED <<nand, firmware, package, mounted>>

DumpBlock ==
  /\ job.op = "dump" /\ job.stage = "copy"
  /\ LET at == Len(image.file.data)
     IN  /\ at < Len(nand)
         /\ \/ image' = [image EXCEPT !.file = File(Append(@.data, nand[at + 1]))] /\ UNCHANGED job
            \/ UNCHANGED image /\ Run([Failed(job) EXCEPT !.stage = "end"])
  /\ UNCHANGED <<nand, firmware, package, mounted, handles>>

\* Mutant of DumpEnd: a block that failed is not told.
DumpEndSilent ==
  /\ job.op = "dump"
  /\ \/ job.stage = "copy" /\ Len(image.file.data) = Len(nand)
     \/ job.stage = "end"
  /\ UNCHANGED image
  /\ Finish([job EXCEPT !.rc = "ok", !.clean = TRUE])
  /\ UNCHANGED <<nand, firmware, package, mounted>>

\* The image once it is closed: what is still buffered may not get out, and
\* nobody looks.
ClosedImages ==
  {image.file} \cup
  (IF image.file.data = <<>> THEN {}
   ELSE {File(SubSeq(image.file.data, 1, Len(image.file.data) - 1))})

\* The configuration is written for a dump without errors, before the image is
\* closed; one that is there stays.
DumpEnd ==
  /\ job.op = "dump"
  /\ \/ job.stage = "copy" /\ Len(image.file.data) = Len(nand)
     \/ job.stage = "end"
  /\ \E f \in ClosedImages, ini \in {image.ini, image.ini \/ job.rc = "ok"} :
       /\ image' = [file |-> f, ini |-> ini]
       /\ Finish([job EXCEPT !.clean = @ /\ f = image.file])
  /\ UNCHANGED <<nand, firmware, package, mounted>>

-----------------------------------------------------------------------------
(* emummc_restore.                                                         *)

Fits == Len(image.file.data) <= Len(nand)

\* An image may be shorter than the partition, but not longer.
RestoreStart ==
  /\ Idle
  /\ \/ Finish(Failed(NoJob))
     \/ /\ image.file.kind = "file" /\ Fits
        /\ handles' = {"operator", "storage", "file"}
        /\ Run([NoJob EXCEPT !.op = "restore", !.stage = "copy", !.before = nand,
                             !.todo = 1 .. Len(image.file.data)])
  /\ UNCHANGED <<nand, image, firmware, package, mounted>>

\* A block that cannot be read or written ends the loop.
RestoreBlock ==
  /\ job.op = "restore" /\ job.stage = "copy" /\ job.todo # {}
  /\ LET n == CHOOSE i \in job.todo : \A k \in job.todo : i <= k
     IN  \/ /\ nand' = [nand EXCEPT ![n] = image.file.data[n]]
            /\ Run([job EXCEPT !.todo = @ \ {n}])
         \/ UNCHANGED nand /\ Run([Failed(job) EXCEPT !.stage = "end"])
  /\ UNCHANGED <<image, firmware, package, mounted, handles>>

\* Mutant of RestoreEnd: what the loop ended with is overwritten by the flush.
RestoreEndFlushed ==
  /\ job.op = "restore"
  /\ job.stage = "end" \/ job.todo = {}
  /\ Finish([job EXCEPT !.rc = "ok"])
  /\ UNCHANGED <<nand, image, firmware, package, mounted>>

\* Flushed only after the last block.
RestoreEnd ==
  /\ job.op = "restore"
  /\ \/ job.stage = "end" /\ Finish(job)
     \/ job.stage = "copy" /\ job.todo = {} /\ \E j \in {job, Failed(job)} : Finish(j)
  /\ UNCHANGED <<nand, image, firmware, package, mounted>>

-----------------------------------------------------------------------------
(* The firmware's files.                                                   *)

NotMounted == [ready |-> FALSE, open |-> 0, half |-> 0]

\* firmware_init: when the second of two steps fails the file system of the
\* first stays open, and the next attempt opens another.
FirmwareInit ==
  /\ Idle /\ ~mounted.ready
  /\ \/ UNCHANGED mounted
     \/ mounted' = [mounted EXCEPT !.ready = TRUE, !.open = @ + 1]
     \/ /\ mounted.half < MaxLeaky
        /\ mounted' = [mounted EXCEPT !.open = @ + 1, !.half = @ + 1]
  /\ UNCHANGED <<nand, image, firmware, package, handles, job>>

\* Mutant of FirmwareExit: the file system is left open.
FirmwareExitOpen ==
  /\ Idle /\ mounted.ready
  /\ mounted' = [mounted EXCEPT !.ready = FALSE]
  /\ UNCHANGED <<nand, image, firmware, package, handles, job>>

FirmwareExit ==
  /\ Idle /\ mounted.ready
  /\ mounted' = [mounted EXCEPT !.ready = FALSE, !.open = @ - 1]
  /\ UNCHANGED <<nand, image, firmware, package, handles, job>>

\* What is not initialised is refused; otherwise every file is tried in turn.
ExportStart ==
  /\ Idle /\ mounted.ready
  /\ \E exfat \in BOOLEAN :
       Run([NoJob EXCEPT !.op = "export", !.stage = "next",
                         !.todo = IF exfat THEN Parts ELSE Parts \ {Exfat}])
  /\ UNCHANGED <<nand, image, firmware, package, mounted, handles>>

Exported(p, f) == package' = [package EXCEPT ![p] = f]

\* A file that is missing is skipped, and so is one whose copy cannot be made:
\* if it is the buffer that is missing, an empty one stays.
ExportFile ==
  /\ job.op = "export" /\ job.stage = "next"
  /\ \E p \in job.todo :
       LET left == [job EXCEPT !.todo = @ \ {p}]
       IN  /\ p = Exfat => job.todo = {Exfat}
           /\ \/ /\ Run([left EXCEPT !.clean = @ /\ firmware[p] = None])
                 /\ UNCHANGED <<package, handles>>
              \/ /\ firmware[p] # None
                 /\ Exported(p, File(<<>>))
                 /\ \/ Run([left EXCEPT !.clean = FALSE]) /\ UNCHANGED handles
                    \/ /\ Run([left EXCEPT !.stage = "copy", !.part = p, !.at = 0])
                       /\ handles' = {"from", "to"}
  /\ UNCHANGED <<nand, image, firmware, mounted>>

\* Closing the copy may lose what is still buffered, and nobody looks.
CopyEnds(whole) ==
  /\ handles' = {}
  /\ \/ /\ UNCHANGED package
        /\ Run([job EXCEPT !.stage = "next", !.clean = @ /\ whole])
     \/ LET copy == package[job.part].data
        IN  /\ copy # <<>>
            /\ Exported(job.part, File(SubSeq(copy, 1, Len(copy) - 1)))
            /\ Run([job EXCEPT !.stage = "next", !.clean = FALSE])

\* Mutant of ExportBlock: a file ends with its first block.
ExportOneBlock ==
  /\ job.op = "export" /\ job.stage = "copy"
  /\ \/ /\ job.at = 0
        /\ Exported(job.part, File(SubSeq(firmware[job.part].data, 1, 1)))
        /\ Run([job EXCEPT !.at = 1]) /\ UNCHANGED handles
     \/ job.at = 1 /\ CopyEnds(TRUE)
  /\ UNCHANGED <<nand, image, firmware, mounted>>

\* A block that cannot be read ends the file, and one that cannot be written
\* is missing from the copy: neither is noticed.
ExportBlock ==
  /\ job.op = "export" /\ job.stage = "copy"
  /\ LET from == firmware[job.part].data
     IN  \/ /\ job.at < Len(from)
            /\ UNCHANGED handles
            /\ \/ /\ Exported(job.part, File(Append(package[job.part].data, from[job.at + 1])))
                  /\ Run([job EXCEPT !.at = @ + 1])
               \/ UNCHANGED package /\ Run([job EXCEPT !.at = @ + 1, !.clean = FALSE])
         \/ CopyEnds(job.at = Len(from))
  /\ UNCHANGED <<nand, image, firmware, mounted>>

\* The export always succeeds.
ExportEnd ==
  /\ job.op = "export" /\ job.stage = "next" /\ job.todo = {}
  /\ Finish(job)
  /\ UNCHANGED <<nand, image, firmware, package, mounted>>

\* firmware_extract_file: one file, and here a failed write is an error; a failed
\* read is not.
ExtractFile ==
  /\ Idle /\ mounted.ready
  /\ \E j \in {NoJob, Failed(NoJob)} : Finish([j EXCEPT !.op = "extract"])
  /\ \/ \E p \in Parts :
          /\ firmware[p] # None
          /\ \E n \in 0 .. Len(firmware[p].data) :
               Exported(p, File(SubSeq(firmware[p].data, 1, n)))
     \/ job'.rc = "err" /\ UNCHANGED package
  /\ UNCHANGED <<nand, image, firmware, mounted>>

\* firmware_list_contents: all names, or none when the memory gives out.
ListContents ==
  /\ Idle /\ mounted.ready
  /\ \E j \in {NoJob, Failed(NoJob)} : Finish([j EXCEPT !.op = "list"])
  /\ UNCHANGED <<nand, image, firmware, package, mounted>>

\* firmware_verify_package: all files but the driver must be there; that is all.
Verifies == \A p \in Parts \ {Exfat} : package[p] # None

Verify ==
  /\ Idle /\ mounted.ready
  /\ Finish([NoJob EXCEPT !.op = "verify", !.rc = IF Verifies THEN "ok" ELSE "err"])
  /\ UNCHANGED <<nand, image, firmware, package, mounted>>

\* emummc_create, system_dump_nand, system_restore_nand, system_dump_boot0 and
\* system_dump_boot1: nothing yet, and a success.
Unwritten ==
  /\ Idle
  /\ \E j \in {NoJob, Failed(NoJob)} : Finish([j EXCEPT !.op = "unwritten"])
  /\ UNCHANGED <<nand, image, firmware, package, mounted>>

\* Between calls the system writes to its partition.
SystemWrites ==
  /\ Idle
  /\ nand' \in Nands
  /\ Finish(NoJob)
  /\ UNCHANGED <<image, firmware, package, mounted>>

\* The console is switched off.
Kill ==
  /\ Finish(NoJob)
  /\ mounted' = NotMounted
  /\ UNCHANGED <<nand, image, firmware, package>>

Init ==
  /\ nand \in Nands
  /\ image = [file |-> None, ini |-> FALSE]
  /\ firmware \in Firmwares
  /\ package = [p \in Parts |-> None]
  /\ mounted = NotMounted
  /\ handles = {}
  /\ job = NoJob

Next ==
  \/ DumpStart \/ DumpBlock \/ DumpEnd
  \/ RestoreStart \/ RestoreBlock \/ RestoreEnd
  \/ FirmwareInit \/ FirmwareExit
  \/ ExportStart \/ ExportFile \/ ExportBlock \/ ExportEnd
  \/ ExtractFile \/ ListContents \/ Verify \/ Unwritten \/ SystemWrites \/ Kill

Spec == Init /\ [][Next]_vars

-----------------------------------------------------------------------------
\* A dump that reports success is a beginning of the partition, and all of it
\* unless the end was lost when the image was closed, which nobody looked at;
\* a restore that reports success wrote every block of the image, and the rest
\* of the partition is as it was before.
ReportedCopyWhole ==
  Idle /\ job.rc = "ok" =>
    /\ job.op = "dump" =>
         /\ Len(image.file.data) <= Len(nand)
         /\ image.file = File(SubSeq(nand, 1, Len(image.file.data)))
         /\ job.clean => Len(image.file.data) = Len(nand)
    /\ job.op = "restore" =>
         nand = image.file.data \o SubSeq(job.before, Len(image.file.data) + 1, Len(job.before))

\* An export in which nothing failed has whatever the firmware has, whole,
\* whatever a torn export left in the same folder before.
CleanExportWhole ==
  Idle /\ job.op = "export" /\ job.clean =>
    \A p \in Parts \ {Exfat} : firmware[p] # None => package[p] = firmware[p]

\* Between calls no file is open, and of file systems one while the partition
\* is mounted, and one for each attempt to mount it that failed half way.
NothingOpen ==
  Idle =>
    /\ handles = {}
    /\ mounted.open = mounted.half + (IF mounted.ready THEN 1 ELSE 0)
=============================================================================
