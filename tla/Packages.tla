------------------------------ MODULE Packages ------------------------------
(***************************************************************************)
(* Packages (game/nsp_manager.c): installing one from the card, dumping a  *)
(* title from the game card, and the server's socket.                      *)
(*                                                                         *)
(* A content is installed through a placeholder, which is written, then    *)
(* registered as the content or deleted.  Two things the code reads are    *)
(* not what they are meant to be: whether an entry is a content is looked  *)
(* up in the transfer buffer, which holds whatever was in it (so here it   *)
(* may be either), and the content's id is never set (so it is any id, the *)
(* same for the whole package).                                            *)
(***************************************************************************)
EXTENDS Naturals, Sequences, FiniteSets

CONSTANTS
  Files,      \* packages: the sizes of their entries, and how long the file really is
  Ids,        \* what an unset content id may happen to be
  Titles      \* titles on the game card: the sizes of their contents

VARIABLES
  placeholders,  \* those there are, by entry; 0 stands for those of earlier calls
  contents,      \* the ids registered on the card
  dumped,        \* the dump: the count its header gives, and the contents in it
  open,          \* what the program holds open
  server,        \* server_running, and whether there is a socket
  work           \* the call: running, or the last one

vars == <<placeholders, contents, dumped, open, server, work>>

Idle == work.stage = "done"

NoWork == [op |-> "none", stage |-> "done", file |-> [sizes |-> <<>>, length |-> 0],
           id |-> CHOOSE i \in Ids : TRUE, entry |-> 0, pos |-> 0, left |-> 0, rc |-> "ok",
           spilled |-> FALSE]

Step(w)   == work' = w
Finish(w) == work' = [w EXCEPT !.stage = "done"]
Failed(w) == [w EXCEPT !.rc = "err"]

-----------------------------------------------------------------------------
(* nsp_install_local.                                                      *)

\* Storage and file are opened, the magic and the count are read; what was
\* opened is closed again when the next thing fails.
InstallStart ==
  /\ Idle
  /\ \/ Finish(Failed(NoWork)) /\ UNCHANGED <<placeholders, open>>
     \/ \E f \in Files, i \in Ids :
          /\ Step([NoWork EXCEPT !.op = "install", !.stage = "entry", !.file = f, !.id = i])
          /\ open' = {"storage", "file"}
          /\ placeholders' = IF placeholders = {} THEN {} ELSE {0}
  /\ UNCHANGED <<contents, dumped, server>>

Last(w) == w.entry = Len(w.file.sizes)

\* The entries end with their count, or where the file does.
InstallEnd ==
  /\ work.op = "install" /\ work.stage = "entry"
  /\ Last(work) \/ work.pos >= work.file.length
  /\ Finish(work)
  /\ open' = {}
  /\ UNCHANGED <<placeholders, contents, dumped, server>>

\* One entry of the table: no content, or its placeholder is made, or cannot be.
InstallEntry ==
  /\ work.op = "install" /\ work.stage = "entry"
  /\ ~Last(work) /\ work.pos < work.file.length
  /\ LET w == [work EXCEPT !.entry = @ + 1, !.pos = @ + 1]
     IN  \/ Step(w) /\ UNCHANGED placeholders
         \/ Step(Failed(w)) /\ UNCHANGED placeholders
         \/ /\ placeholders' = placeholders \cup {w.entry}
            /\ Step([w EXCEPT !.stage = "write", !.left = w.file.sizes[w.entry], !.rc = "ok"])
  /\ UNCHANGED <<contents, dumped, open, server>>

\* Mutant of Discard: only what was never written is deleted.
DiscardUnwritten(w) ==
  /\ placeholders' = IF w.left > 0 THEN placeholders \ {w.entry} ELSE placeholders
  /\ Step(Failed([w EXCEPT !.stage = "entry"]))

\* A placeholder that did not become a content is deleted, if that succeeds.
Discard(w) ==
  \/ /\ placeholders' = placeholders \ {w.entry}
     /\ Step(Failed([w EXCEPT !.stage = "entry"]))
  \/ /\ UNCHANGED placeholders
     /\ Step(Failed([w EXCEPT !.stage = "entry", !.spilled = TRUE]))

\* The data is read from where the file is, not from the entry's offset.
InstallWrite ==
  /\ work.op = "install" /\ work.stage = "write" /\ work.left > 0
  /\ \/ /\ work.pos < work.file.length
        /\ Step([work EXCEPT !.left = @ - 1, !.pos = @ + 1])
        /\ UNCHANGED placeholders
     \/ Discard(work)
  /\ UNCHANGED <<contents, dumped, open, server>>

\* A content whose id is already there is refused.
InstallRegister ==
  /\ work.op = "install" /\ work.stage = "write" /\ work.left = 0
  /\ \/ /\ work.id \notin contents
        /\ contents' = contents \cup {work.id}
        /\ placeholders' = placeholders \ {work.entry}
        /\ Step([work EXCEPT !.stage = "entry", !.rc = "ok"])
     \/ Discard(work) /\ UNCHANGED contents
  /\ UNCHANGED <<dumped, open, server>>

-----------------------------------------------------------------------------
(* nsp_dump_title.  Nothing that is written is checked.                    *)

DumpStart ==
  /\ Idle
  /\ \/ Finish(Failed(NoWork)) /\ UNCHANGED <<dumped, open>>
     \/ \E t \in Titles :
          /\ dumped' = [count |-> 0, parts |-> <<>>]
          /\ open' = {"meta", "storage", "file"}
          /\ \E stage \in {"content", "header"} :   \* "header": the records cannot be read
               Step([NoWork EXCEPT !.op = "dump", !.stage = stage,
                                   !.rc = IF stage = "content" THEN "ok" ELSE "err",
                                   !.file = [sizes |-> t, length |-> 0]])
  /\ UNCHANGED <<placeholders, contents, server>>

\* Mutant of DumpSkip: what is skipped is counted.
SkipCounted ==
  /\ ~Last(work)
  /\ Step(Failed([work EXCEPT !.entry = @ + 1, !.pos = @ + 1]))
  /\ UNCHANGED dumped

\* A content that is not known is left out.
DumpSkip ==
  /\ ~Last(work)
  /\ Step(Failed([work EXCEPT !.entry = @ + 1]))
  /\ UNCHANGED dumped

DumpBegin ==
  /\ ~Last(work)
  /\ LET e == work.entry + 1
     IN Step([work EXCEPT !.stage = "data", !.entry = e, !.left = work.file.sizes[e], !.rc = "ok"])
  /\ dumped' = [dumped EXCEPT !.parts = Append(@, 0)]

DumpContent ==
  /\ work.op = "dump" /\ work.stage = "content"
  /\ \/ DumpSkip
     \/ DumpBegin
     \/ Last(work) /\ Step([work EXCEPT !.stage = "header"]) /\ UNCHANGED dumped
  /\ UNCHANGED <<placeholders, contents, open, server>>

\* The next chunk, which may not reach the card, or no more, the last one read
\* or not.  pos is file_count, raised either way.
DumpData ==
  /\ work.op = "dump" /\ work.stage = "data"
  /\ \/ /\ work.left > 0
        /\ Step([work EXCEPT !.left = @ - 1])
        /\ \/ dumped' = [dumped EXCEPT !.parts[Len(dumped.parts)] = @ + 1]
           \/ UNCHANGED dumped
     \/ \E rc \in IF work.left > 0 THEN {"err"} ELSE {work.rc} :
          /\ Step([work EXCEPT !.stage = "content", !.pos = @ + 1, !.rc = rc])
          /\ UNCHANGED dumped
  /\ UNCHANGED <<placeholders, contents, open, server>>

DumpEnd ==
  /\ work.op = "dump" /\ work.stage = "header"
  /\ \/ dumped' = [dumped EXCEPT !.count = work.pos] /\ Finish(work)
     \/ UNCHANGED dumped /\ Finish([work EXCEPT !.spilled = TRUE])
  /\ open' = {}
  /\ UNCHANGED <<placeholders, contents, server>>

-----------------------------------------------------------------------------
(* The server, and the console switched off.                               *)

\* Mutant of ServerStart: a socket that cannot listen is kept.
ServerStartKept ==
  /\ Idle /\ ~server.running
  /\ \E r \in BOOLEAN : server' = [running |-> r, socket |-> TRUE]
  /\ UNCHANGED <<placeholders, contents, dumped, open, work>>

\* A socket that cannot be bound or cannot listen is closed.
ServerStart ==
  /\ Idle /\ ~server.running
  /\ \E r \in BOOLEAN : server' = [running |-> r, socket |-> r]
  /\ UNCHANGED <<placeholders, contents, dumped, open, work>>

ServerStop ==
  /\ Idle /\ server.running
  /\ server' = [running |-> FALSE, socket |-> FALSE]
  /\ UNCHANGED <<placeholders, contents, dumped, open, work>>

Kill ==
  /\ open' = {}
  /\ server' = [running |-> FALSE, socket |-> FALSE]
  /\ Finish(NoWork)
  /\ UNCHANGED <<placeholders, contents, dumped>>

Init ==
  /\ placeholders = {} /\ contents = {}
  /\ dumped = [count |-> 0, parts |-> <<>>]
  /\ open = {} /\ server = [running |-> FALSE, socket |-> FALSE]
  /\ work = NoWork

Next ==
  \/ InstallStart \/ InstallEnd \/ InstallEntry \/ InstallWrite \/ InstallRegister
  \/ DumpStart \/ DumpContent \/ DumpData \/ DumpEnd
  \/ ServerStart \/ ServerStop \/ Kill

Spec == Init /\ [][Next]_vars

-----------------------------------------------------------------------------
\* An installation leaves no placeholder of its own: each became a content or
\* was deleted, whichever of its steps failed, unless deleting it failed too.
PlaceholdersSettled ==
  Idle /\ work.op = "install" /\ ~work.spilled => placeholders \subseteq {0}

\* The header of a finished dump counts the contents that begin in it.
HeaderCounts ==
  Idle /\ work.op = "dump" /\ ~work.spilled => dumped.count = Len(dumped.parts)

\* Between calls nothing is open but the socket of a running server.
NothingOpen == Idle => open = {} /\ (server.socket <=> server.running)
=============================================================================
