------------------------------ MODULE Secured ------------------------------
(***************************************************************************)
(* Secured operations (security/secure.c) and the verification they rely   *)
(* on (security/verify.c): moving a file by copy, comparison, wiping and   *)
(* removal; the log of operations, kept in memory until it is full; and    *)
(* the admission of a package for installation.                            *)
(*                                                                         *)
(* The comparison is between two arrays nobody fills, so that it may come  *)
(* out either way.  Source and destination are different files.            *)
(***************************************************************************)
EXTENDS Naturals, Sequences

CONSTANTS
  Data,       \* what the file to move may hold: sequences of chunks
  Junk,       \* a chunk that was wiped
  Packages,   \* packages: their files, as sequences, or broken
  LogRoom,    \* how many entries the log's buffer holds
  MaxEntries  \* bound: operations logged

VARIABLES
  src, dst,   \* the two files
  move,       \* the move: running, or the last one
  ready,      \* s_initialized of secure.c and of verify.c
  log,        \* the log: buffer, file, entries so far, those lost
  verdict     \* the last admission: the package and the answer

vars == <<src, dst, move, ready, log, verdict>>

None    == [kind |-> "none", data |-> <<>>]
File(s) == [kind |-> "file", data |-> s]

Idle == move.stage = "done"

\* clean: no chunk was lost without the code noticing.
NoMove == [stage |-> "done", before |-> <<>>, clean |-> FALSE, rc |-> "ok", at |-> 0]

Set(m)    == move' = m
At(m, s)  == [m EXCEPT !.stage = s]
Finish(m) == move' = At(m, "done")
Failed(m) == [m EXCEPT !.rc = "err"]

-----------------------------------------------------------------------------
(* secure_move_file.                                                       *)

\* Both files are opened; without a buffer, an empty destination stays.
MoveStart ==
  /\ Idle /\ ready.secure /\ src.kind = "file"
  /\ LET m == [NoMove EXCEPT !.stage = "copy", !.before = src.data, !.clean = TRUE]
     IN  \/ Finish(Failed(m)) /\ UNCHANGED dst
         \/ dst' = File(<<>>) /\ \E n \in {m, At(Failed(m), "done")} : Set(n)
  /\ UNCHANGED <<src, ready, log, verdict>>

\* The copy once it is closed: what is still buffered may not get out, and
\* nobody looks.
Copies ==
  {dst.data} \cup
  (IF dst.data = <<>> THEN {} ELSE {SubSeq(dst.data, 1, Len(dst.data) - 1)})

\* A read that fails ends the file, and so does a write, as an error.
MoveChunk ==
  /\ move.stage = "copy"
  /\ LET at == Len(dst.data)
     IN  \/ /\ at < Len(src.data)
            /\ dst' = File(Append(dst.data, src.data[at + 1]))
            /\ UNCHANGED move
         \/ \E d \in Copies :
              /\ dst' = File(d)
              /\ Set([At(move, "compare") EXCEPT !.clean = Len(d) = Len(src.data)])
         \/ at < Len(src.data) /\ Set(At(Failed(move), "drop")) /\ UNCHANGED dst
  /\ UNCHANGED <<src, ready, log, verdict>>

Compare ==
  /\ move.stage = "compare"
  /\ \E m \in {At(move, "wipe"), At(Failed(move), "drop")} : Set(m)
  /\ UNCHANGED <<src, dst, ready, log, verdict>>

\* The destination of a move that failed is removed, if that succeeds.
Drop ==
  /\ move.stage = "drop"
  /\ dst' \in {None, dst}
  /\ Finish(move)
  /\ UNCHANGED <<src, ready, log, verdict>>

\* Mutant of AfterWipe: the destination is dropped whatever failed.
AlwaysDropped(m) == At(m, "drop")

\* What follows a wipe that failed: the destination is kept.
AfterWipe(m) == At(m, "done")

Wiped(n) == [i \in 1 .. Len(src.data) |-> IF i <= n THEN Junk ELSE src.data[i]]

\* secure_wipe_file and the removal: three passes, of which the first one
\* already destroys the data; any of them may fail.
Wipe ==
  /\ move.stage = "wipe"
  /\ \/ /\ move.at < Len(src.data)
        /\ src' = File(Wiped(move.at + 1))
        /\ Set([move EXCEPT !.at = @ + 1])
     \/ move.at = Len(src.data) /\ src' = None /\ Finish(move)
     \/ UNCHANGED src /\ Set(AfterWipe(Failed(move)))
  /\ UNCHANGED <<dst, ready, log, verdict>>

\* The user has another file to move.
NewFile ==
  /\ Idle
  /\ \E d \in Data : src' = File(d)
  /\ Set(NoMove)
  /\ UNCHANGED <<dst, ready, log, verdict>>

-----------------------------------------------------------------------------
(* secure_log_operation, secure_init and secure_exit.                      *)

\* The buffer goes to the end of the file, if the file can be opened.
Flushed ==
  {[log EXCEPT !.file = @ \cup log.buffer],
   [log EXCEPT !.lost = @ \cup log.buffer]}

Full == log.used = LogRoom

\* Mutant of MakeRoom: room is made without writing.
Forgotten == IF Full THEN {[log EXCEPT !.buffer = {}, !.used = 0]} ELSE {log}

\* The buffer is emptied, written or not, before the entry that does not fit.
MakeRoom == IF Full THEN {[l EXCEPT !.buffer = {}, !.used = 0] : l \in Flushed} ELSE {log}

LogOperation ==
  /\ Idle /\ ready.secure
  /\ log.count < MaxEntries
  /\ \E l \in MakeRoom :
       log' = [l EXCEPT !.count = @ + 1, !.used = @ + 1, !.buffer = @ \cup {log.count + 1}]
  /\ UNCHANGED <<src, dst, move, ready, verdict>>

SecureInit == Idle /\ ready' = [ready EXCEPT !.secure = TRUE] /\ UNCHANGED <<src, dst, move, log, verdict>>

\* The buffer is written, and stays: a later flush writes it once more.
SecureExit ==
  /\ Idle /\ ready.secure
  /\ ready' = [ready EXCEPT !.secure = FALSE]
  /\ log' \in Flushed
  /\ UNCHANGED <<src, dst, move, verdict>>

-----------------------------------------------------------------------------
(* verify_nsp_file and secure_validate_title_install.                      *)

VerifyInit ==
  /\ Idle
  /\ ready' = [ready EXCEPT !.verify = ~@]
  /\ UNCHANGED <<src, dst, move, log, verdict>>

\* A file of a package: its extension and, of a content, whether its header
\* can be read, its type, and whether it has a rights id.
NcaSeen(f) == f.ext = "nca" /\ f.header

\* What the loop over a package's files gathers: a content whose header cannot
\* be read is passed over.
Summary(p) ==
  [program |-> \E i \in DOMAIN p : NcaSeen(p[i]) /\ p[i].type = "program",
   meta    |-> \E i \in DOMAIN p : NcaSeen(p[i]) /\ p[i].type = "meta",
   rights  |-> \E i \in DOMAIN p : NcaSeen(p[i]) /\ p[i].rights,
   ticket  |-> \E i \in DOMAIN p : p[i].ext = "tik"]

\* The format counts once the tables are read.
Admits(p) ==
  LET s == Summary(p.files)
  IN  ready.secure /\ ready.verify /\ p.named /\ p.format /\ s.program /\ s.meta /\ (s.rights => s.ticket)

Admit ==
  /\ Idle
  /\ \E p \in Packages : verdict' = [package |-> p, admitted |-> Admits(p)]
  /\ UNCHANGED <<src, dst, move, ready, log>>

\* The console is switched off, in the middle of a move or not.
Kill ==
  /\ Finish(Failed(move))
  /\ ready' = [secure |-> FALSE, verify |-> FALSE]
  /\ log' = [log EXCEPT !.buffer = {}, !.used = 0, !.lost = @ \cup log.buffer]
  /\ UNCHANGED <<src, dst, verdict>>

Init ==
  /\ src = None /\ dst = None /\ move = NoMove
  /\ ready = [secure |-> FALSE, verify |-> FALSE]
  /\ log = [buffer |-> {}, used |-> 0, file |-> {}, lost |-> {}, count |-> 0]
  /\ verdict = [package |-> [named |-> FALSE, format |-> FALSE, files |-> <<>>], admitted |-> FALSE]

Next ==
  \/ MoveStart \/ MoveChunk \/ Compare \/ Drop \/ Wipe \/ NewFile
  \/ LogOperation \/ SecureInit \/ SecureExit
  \/ VerifyInit \/ Admit \/ Kill

Spec == Init /\ [][Next]_vars

-----------------------------------------------------------------------------
\* Unless the copy came out short without the code noticing (a read that ended
\* early, or a tail lost when it was closed), a move never leaves the data in
\* neither place: at every step, and after a kill at any of them, the source is
\* as it was or the destination is whole.  The exception is what the code says
\* it prevents ("Verify the copy", "Only remove source after successful copy and
\* verification", secure.c:284, 301): the comparison is of arrays nobody fills,
\* and where it comes out equal the source of a short copy is wiped.
OneCopySurvives ==
  move.clean => src = File(move.before) \/ dst = File(move.before)

\* An entry of the log is in the file or in the buffer, unless writing the
\* buffer failed or the console was switched off.
LogKept ==
  \A e \in 1 .. log.count : e \in log.file \cup log.buffer \cup log.lost

=============================================================================
