------------------------------- MODULE Moves -------------------------------
(***************************************************************************)
(* Copying and moving in one call: fs_copy and fs_move (file/fs_ops.c) and *)
(* the folder rules (features/auto_folders.c), which move every file of a  *)
(* folder to one made for it.                                              *)
(*                                                                         *)
(* A call concerns two different paths.  Renaming to a path where there is *)
(* something fails or replaces it: both are allowed.                       *)
(***************************************************************************)
EXTENDS Naturals, Sequences

CONSTANTS
  Path,  \* places on the card
  Data   \* what a file may hold: sequences of chunks

VARIABLES
  files,  \* what is at each place
  cancel, \* the caller's flag
  open,   \* the files the program has open
  call    \* the call: running, or the last one

vars == <<files, cancel, open, call>>

None    == [kind |-> "none", data |-> <<>>]
Dir     == [kind |-> "dir",  data |-> <<>>]
File(s) == [kind |-> "file", data |-> s]

IsFile(p) == files[p].kind = "file"

\* clean: no fault went by without the code noticing, and nobody else wrote.
NoCall == [op |-> "none", stage |-> "done", from |-> CHOOSE p \in Path : TRUE,
           to |-> CHOOSE p \in Path : TRUE, before |-> None, rc |-> "ok", clean |-> TRUE]

Idle == call.stage = "done"

Go(c)     == call' = c
At(c, s)  == [c EXCEPT !.stage = s]
Failed(c) == [c EXCEPT !.rc = "err"]
Finish(c) == call' = At(c, "done") /\ open' = {}

Put(p, f) == files' = [files EXCEPT ![p] = f]

-----------------------------------------------------------------------------
(* fs_copy, also as the second half of fs_move, and auto_folders' own.     *)

Start(op, p, q) ==
  /\ Idle /\ p # q
  /\ cancel' = FALSE
  /\ \E s \in {"rename", "open", "mkdir"} :
       /\ (s = "rename") = (op = "move")
       /\ (s = "mkdir") = (op \in {"organise", "dry"})
       /\ op \in {"organise", "dry"} => IsFile(p)
       /\ Go([NoCall EXCEPT !.op = op, !.stage = s, !.from = p, !.to = q, !.before = files[p]])
  /\ UNCHANGED <<files, open>>

\* A path that is not on the card is refused, as is a file that cannot be
\* opened; opening the destination empties it.
OpenBoth ==
  /\ call.stage = "open"
  /\ \/ Finish(Failed(call)) /\ UNCHANGED files
     \/ /\ IsFile(call.from) /\ files[call.to].kind # "dir"
        /\ Put(call.to, File(<<>>))
        /\ open' = {call.from, call.to}
        /\ \E c \in {At(call, "copy")} \cup
                    (IF call.op = "organise" THEN {} ELSE {At(Failed(call), "drop")}) : Go(c)
  /\ UNCHANGED cancel

Copied == files[call.to].data

\* A chunk; the end of the source, for which a failed read is taken too, as is
\* one whose last chunks a failing flush or close loses; a failed write, which
\* only fs_copy notices; or the flag, looked at between reading a chunk and
\* writing it.
CopyChunk ==
  /\ call.stage = "copy"
  /\ LET from == files[call.from].data
         at   == Len(Copied)
     IN  \/ /\ at < Len(from)
            /\ cancel => call.op = "organise"
            /\ Put(call.to, File(Append(Copied, from[at + 1])))
            /\ UNCHANGED <<call, open>>
         \/ /\ UNCHANGED files /\ open' = {}
            /\ Go([At(call, "copied") EXCEPT !.clean = @ /\ at = Len(from)])
         \/ /\ at < Len(from) /\ call.op # "organise"
            /\ Go(At(Failed(call), "drop"))
            /\ UNCHANGED <<files, open>>
  /\ UNCHANGED cancel

\* Mutant of Drop: a move goes on after a copy that failed.
DropGoesOn ==
  /\ call.stage = "drop"
  /\ \E f \in {None, files[call.to]} : Put(call.to, f)
  /\ IF call.op = "move" THEN Go(At(call, "copied")) /\ open' = {} ELSE Finish(call)
  /\ UNCHANGED cancel

\* The partial copy is removed, if that succeeds.
Drop ==
  /\ call.stage = "drop"
  /\ \E f \in {None, files[call.to]} : Put(call.to, f)
  /\ Finish(call)
  /\ UNCHANGED cancel

\* What is left of a move when the copy is there: its source is removed.
AfterCopy ==
  /\ call.stage = "copied"
  /\ \/ call.op = "copy" /\ Finish(call) /\ UNCHANGED files
     \/ call.op # "copy" /\ Put(call.from, None) /\ Finish(call)
     \/ call.op = "organise" /\ Finish(call) /\ UNCHANGED files
     \/ call.op = "move" /\ Finish(Failed(call)) /\ UNCHANGED files
  /\ UNCHANGED cancel

\* rename, of a file or of a folder; when it fails the copy is tried.
Rename ==
  /\ call.stage = "rename"
  /\ \/ /\ files[call.from] # None /\ files[call.to].kind # "dir"
        /\ files' = [files EXCEPT ![call.to] = files[call.from], ![call.from] = None]
        /\ Finish(call)
     \/ UNCHANGED <<files, open>> /\ Go(At(call, "open"))
  /\ UNCHANGED cancel

-----------------------------------------------------------------------------
(* The folder rules.                                                       *)

\* ensure_dir_recursive is given the path of the file itself, and so makes a
\* folder in its place, in a dry run as well.  What is there already stays.
MakeFolders ==
  /\ call.stage = "mkdir"
  /\ \E f \in {files[call.to], IF files[call.to] = None THEN Dir ELSE files[call.to]} : Put(call.to, f)
  /\ IF call.op = "dry" THEN Finish(call) ELSE Go(At(call, "rename")) /\ UNCHANGED open
  /\ UNCHANGED cancel

-----------------------------------------------------------------------------
(* fs_delete, fs_mkdir, and whoever else writes to the card.               *)

Delete ==
  /\ Idle
  /\ \E p \in Path : files[p] # None /\ Put(p, None)
  /\ Finish(NoCall)
  /\ UNCHANGED cancel

Mkdir ==
  /\ Idle
  /\ \E p \in Path : files[p] = None /\ Put(p, Dir)
  /\ Finish(NoCall)
  /\ UNCHANGED cancel

NewFile ==
  /\ Idle
  /\ \E p \in Path, d \in Data : files[p] = None /\ Put(p, File(d))
  /\ Finish(NoCall)
  /\ UNCHANGED cancel

\* The progress is reported to the caller, who may raise the flag.
Cancel ==
  /\ call.stage = "copy" /\ ~cancel
  /\ cancel' = TRUE
  /\ UNCHANGED <<files, open, call>>

\* The console is switched off.
Kill ==
  /\ Finish(Failed(call))
  /\ UNCHANGED <<files, cancel>>

Init ==
  /\ files \in [Path -> {None, Dir} \cup {File(d) : d \in Data}]
  /\ cancel = FALSE /\ open = {} /\ call = NoCall

Next ==
  \/ \E op \in {"copy", "move", "organise", "dry"}, p, q \in Path : Start(op, p, q)
  \/ OpenBoth \/ CopyChunk \/ Drop \/ AfterCopy \/ Rename \/ MakeFolders
  \/ Delete \/ Mkdir \/ NewFile \/ Cancel \/ Kill

Spec == Init /\ [][Next]_vars

-----------------------------------------------------------------------------
\* What a call was given is at the one place or at the other, whole, at every
\* step and whenever the console is switched off: a move removes its source
\* only once the copy is there, and a copy that fails or is cancelled removes
\* only what it wrote.  Excepted are the faults that go by unnoticed (`clean`):
\* a reading, a flush or a close that fails, and a write of the folder rules.
MovedNotLost ==
  call.clean /\ call.before # None =>
    \/ files[call.from] = call.before
    \/ files[call.to] = call.before

\* A copy, or a move, that reports success has put its source at the
\* destination, with the same exceptions.
ReportedMoved ==
  Idle /\ call.op \in {"copy", "move"} /\ call.rc = "ok" /\ call.clean =>
    files[call.to] = call.before
=============================================================================
