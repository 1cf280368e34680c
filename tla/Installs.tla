------------------------------ MODULE Installs ------------------------------
(***************************************************************************)
(* Installing a homebrew program (util/install.c): fetched from a server   *)
(* into a .part file and renamed (staged_install), or copied from the card *)
(* (install_local_nro).  The program there was before becomes the .bak.    *)
(*                                                                         *)
(* Renaming to a name that is taken fails, as the console's file system    *)
(* has it.  The server's answer arrives in pieces; it may stop at any of   *)
(* them, and the downloader does not tell that from the end.  Closing a    *)
(* file may lose the end of what was written, and nobody looks.            *)
(***************************************************************************)
EXTENDS Naturals, Sequences

CONSTANTS
  Program,  \* programs on offer: sequences of pieces
  HeaderRoom  \* how many pieces of header the downloader's buffer holds

VARIABLES
  app, bak, part,  \* what is under the three names
  source,          \* the file an installation from the card reads; it may be the program itself
  socket,          \* the connection: closed, or what the server still has to say
  call             \* the call: running, or the last one

vars == <<app, bak, part, source, socket, call>>

None    == [kind |-> "none", data |-> <<>>]
File(s) == [kind |-> "file", data |-> s]

Closed == [up |-> FALSE, header |-> 0, said |-> <<>>, good |-> FALSE]

\* old: the program there was; taken: pieces of header so far; whole: all that
\* the server had to say was received, and is on the card.
NoCall == [op |-> "none", stage |-> "done", old |-> None, taken |-> 0, rc |-> "ok", whole |-> TRUE]

Idle == call.stage = "done"

Go(c)     == call' = c
At(c, s)  == [c EXCEPT !.stage = s]
Failed(c) == [c EXCEPT !.rc = "err"]
Finish(c) == call' = At(c, "done")

Begun(op) == [NoCall EXCEPT !.op = op, !.old = app]

\* What a file may be once it is closed.
Stored(f) ==
  {f} \cup {File(SubSeq(f.data, 1, n)) : n \in {m \in 0 .. Len(f.data) : m + 1 = Len(f.data)}}

-----------------------------------------------------------------------------
(* http_download_to_file, for the part of staged_install.                  *)

Refused == Finish(Failed(Begun("staged"))) /\ UNCHANGED <<part, socket>>

\* The server is there and the file is empty.
Answers(header, good) ==
  /\ \E p \in Program : socket' = [up |-> TRUE, header |-> header, said |-> p, good |-> good]
  /\ part' = File(<<>>)
  /\ Go(At(Begun("staged"), "header"))

\* Address, connection, request and file; what was opened is closed again when
\* the next fails.  The server will answer with a status, a header and a program.
Connect ==
  /\ Idle
  /\ Refused \/ \E h \in 1 .. HeaderRoom + 1, good \in BOOLEAN : Answers(h, good)
  /\ UNCHANGED <<app, bak, source>>

\* Two connections, of which one has the program and no header.  What the server
\* says on the other is not looked at, but for the address of the first.
ConnectFtp ==
  /\ Idle
  /\ Refused \/ Answers(0, TRUE)
  /\ UNCHANGED <<app, bak, source>>

HangUp(c) == socket' = Closed /\ call' = c

\* A header longer than its buffer never ends: what follows is thrown away
\* until the server closes.  Of what arrives together with the end of a header
\* only what fits is kept.
ReadHeader ==
  /\ call.stage = "header"
  /\ UNCHANGED <<app, bak, part, source>>
  /\ \/ /\ call.taken < socket.header
        /\ IF call.taken = HeaderRoom THEN HangUp(At(call, "received"))
           ELSE Go([call EXCEPT !.taken = @ + 1]) /\ UNCHANGED socket
     \/ /\ call.taken = socket.header
        /\ socket.good
        /\ Go(At(call, "body")) /\ UNCHANGED socket
     \/ call.taken = socket.header /\ ~socket.good /\ HangUp(At(Failed(call), "done"))
     \/ /\ call.taken = HeaderRoom /\ socket.header = HeaderRoom /\ socket.good
        /\ socket.said # <<>>
        /\ socket' = [socket EXCEPT !.said = Tail(@)]
        /\ Go([At(call, "body") EXCEPT !.whole = FALSE])
     \/ HangUp([At(call, "received") EXCEPT !.whole = FALSE])

\* A piece of the program; a write that fails; or the server has closed.  The
\* result of closing the file is not looked at.
ReadBody ==
  /\ call.stage = "body"
  /\ UNCHANGED <<app, bak, source>>
  /\ \/ /\ socket.said # <<>>
        /\ part' = File(Append(part.data, Head(socket.said)))
        /\ socket' = [socket EXCEPT !.said = Tail(@)]
        /\ UNCHANGED call
     \/ /\ part' \in Stored(part)
        /\ \/ HangUp(At(Failed(call), "done"))
           \/ HangUp([At(call, "received") EXCEPT !.whole = @ /\ socket.said = <<>> /\ part' = part])

\* staged_install goes on with what was received, unless that is nothing or there
\* is no memory for the backup's name.
Received ==
  /\ call.stage = "received"
  /\ Finish(Failed(call)) \/ (part.data # <<>> /\ Go(At(call, "backup")))
  /\ UNCHANGED <<app, bak, part, source, socket>>

-----------------------------------------------------------------------------
(* The program becomes the backup, and the new one the program.            *)

Onward(c) == Go(At(c, IF c.op = "staged" THEN "rename" ELSE "open"))

\* The result of this renaming is not looked at.  A program that is installed
\* from where it is has now been moved away from there.  An installation from
\* the card gives up the old program if this fails.
Backup ==
  /\ call.stage = "backup"
  /\ \/ /\ app # None /\ bak = None
        /\ bak' = app /\ app' = None
        /\ source' = IF source = "app" THEN "bak" ELSE source
        /\ Onward(call)
     \/ /\ UNCHANGED <<app, bak, source>>
        /\ Onward([call EXCEPT !.old = IF call.op = "local" THEN None ELSE @])
  /\ UNCHANGED <<part, socket>>

\* Mutant of Rename: what is in the way is removed first.
RenameOver ==
  /\ call.stage = "rename"
  /\ \/ app' = part /\ part' = None /\ Finish(call)
     \/ app' = None /\ Finish(Failed(call)) /\ UNCHANGED part
  /\ UNCHANGED <<bak, source, socket>>

\* The old program is still there if it could not be renamed itself.
Rename ==
  /\ call.stage = "rename"
  /\ \/ app = None /\ app' = part /\ part' = None /\ Finish(call)
     \/ UNCHANGED <<app, part>> /\ Finish(Failed(call))
  /\ UNCHANGED <<bak, source, socket>>

-----------------------------------------------------------------------------
(* install_local_nro.                                                      *)

StartLocal ==
  /\ Idle
  /\ \E s \in {"app", "elsewhere"} : source' = s
  /\ Go(At(Begun("local"), "backup"))
  /\ UNCHANGED <<app, bak, part, socket>>

\* The source may have gone; a program that could not be renamed is emptied, and
\* that may be the source.
OpenLocal ==
  /\ call.stage = "open"
  /\ \/ Finish(Failed(call)) /\ UNCHANGED app
     \/ /\ source = "elsewhere" \/ (source = "app" /\ app # None)
        /\ app' = File(<<>>)
        /\ Go(At(call, "copy"))
  /\ UNCHANGED <<bak, part, source, socket>>

\* A reading that fails is the end, as is the first of a source that was emptied.
CopyLocal ==
  /\ call.stage = "copy"
  /\ \/ /\ source = "elsewhere"
        /\ \E p \in Program : Len(app.data) < Len(p) /\ app.data = SubSeq(p, 1, Len(app.data))
                             /\ app' = File(Append(app.data, p[Len(app.data) + 1])) /\ UNCHANGED call
     \/ /\ app' \in Stored(app)
        /\ Finish(call) \/ Finish(Failed(call))
  /\ UNCHANGED <<bak, part, source, socket>>

-----------------------------------------------------------------------------
\* The user clears a name; the console is switched off.
Clear ==
  /\ Idle
  /\ \/ app' = None /\ UNCHANGED bak
     \/ bak' = None /\ UNCHANGED app
  /\ Finish(NoCall)
  /\ UNCHANGED <<part, source, socket>>

Kill ==
  /\ socket' = Closed
  /\ Finish(Failed(call))
  /\ UNCHANGED <<app, bak, part, source>>

Init ==
  /\ app \in {None} \cup {File(p) : p \in Program}
  /\ bak = None /\ part = None /\ source = "elsewhere" /\ socket = Closed /\ call = NoCall

Next ==
  \/ Connect \/ ConnectFtp \/ ReadHeader \/ ReadBody \/ Received
  \/ Backup \/ Rename
  \/ StartLocal \/ OpenLocal \/ CopyLocal
  \/ Clear \/ Kill

Spec == Init /\ [][Next]_vars

-----------------------------------------------------------------------------
\* The program that was there is still there, as itself or as the backup, at
\* every step of an installation, whichever of them fails and whenever the
\* console is switched off.  Excepted is an installation from the card whose
\* backup could not be made: it empties the program, even one it is to copy.
OldKept == call.old # None => app = call.old \/ bak = call.old

\* A staged installation that succeeds installed a program, all of it.  Excepted
\* is what the code takes for the end: a server that stopped early, a header that
\* left no room for what came with it, a part whose end was lost when it was
\* closed (`whole').  Of an installation from the card nothing is said.
InstalledWhole ==
  Idle /\ call.op = "staged" /\ call.rc = "ok" /\ call.whole => \E p \in Program : app = File(p)
=============================================================================
