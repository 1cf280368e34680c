----------------------------- MODULE Downloads -----------------------------
(***************************************************************************)
(* Network installs (nsp_install_network, game/nsp_manager.c): the http    *)
(* download into a temporary file (download_url_to_file, net/downloader.c) *)
(* and the downloads panel and task area it reports to (ui/ui_data.c).     *)
(*                                                                         *)
(* A network install blocks the program, so at most one is in progress;    *)
(* but entries of the panel, the task area and temporary files outlive the *)
(* install that made them and meet the next one.  What varies under a      *)
(* download's feet is the network: how much of the body arrives together   *)
(* with the headers, and where the connection is lost.                     *)
(*                                                                         *)
(* The build without libcurl and mbedTLS is modelled, the one the Makefile *)
(* makes by default.  A body is counted in units; a unit of a chunked body *)
(* is one chunk.                                                           *)
(***************************************************************************)
EXTENDS Naturals, Sequences

CONSTANTS
  Name,      \* file names, the last component of the url
  LongName,  \* those of 128 characters and more
  Slots,     \* the number of entries of the panel (MAX_DOWNLOADS, 16)
  Framings,  \* how servers frame a body, a subset of AllFramings
  MaxBody,   \* bound: the units of a body
  MaxStarts, \* bound: how many installs are ever started
  Drops,     \* whether connections may be lost
  Faults     \* whether writing and closing the file may fail

\* "sized": with a Content-Length; "closed": ended by closing.
AllFramings == {"chunked", "sized", "closed"}

ASSUME ConstantsAssumption ==
  /\ LongName \subseteq Name
  /\ "" \notin Name
  /\ Slots \in Nat \ {0}
  /\ Framings \subseteq AllFramings
  /\ MaxBody \in Nat
  /\ MaxStarts \in Nat
  /\ Drops \in BOOLEAN
  /\ Faults \in BOOLEAN

\* A label is a name and whether all of it fits into the 127 characters an
\* entry keeps.
Whole(n)  == [name |-> n, whole |-> TRUE]
Stored(n) == [name |-> n, whole |-> n \notin LongName]
NoLabel   == [name |-> "", whole |-> FALSE]
Label     == [name : Name, whole : BOOLEAN]

Free  == [label |-> NoLabel, pct |-> 0]
Entry == {Free} \cup [label : Label, pct : 0 .. 100]

\* What a file holds: units of the body, or wire data with a chunk's size
\* line around the unit (the last one being the empty chunk).
Unit(i)   == [unit |-> i, framed |-> FALSE]
Framed(i) == [unit |-> i, framed |-> TRUE]
Content   == [unit : Nat, framed : BOOLEAN]
Absent    == [there |-> FALSE, data |-> <<>>]
Holding(data) == [there |-> TRUE, data |-> data]
Body(len) == [i \in 1 .. len |-> Unit(i)]

\* What the server sends after the headers.
Wire(resp) ==
  IF resp.framing = "chunked"
  THEN [i \in 1 .. resp.len + 1 |-> Framed(i)]
  ELSE Body(resp.len)

\* What may be in the file of what is handed to fwrite, or was before
\* fclose: all of it, or less, as neither result is looked at.
Landed(data) ==
  {SubSeq(data, 1, j) : j \in IF Faults THEN 0 .. Len(data) ELSE {Len(data)}}

Response == [framing : Framings, len : 0 .. MaxBody]

\* got: what the buffer held when the headers were complete; done: how many
\* units the loop after the headers has dealt with, got included when the
\* body is not chunked.
Download ==
  [stage : {"headers", "body", "install"}, name : Name, resp : Response,
   got : Nat, done : Nat]
Idle == [stage |-> "idle"]

VARIABLES
  panel,   \* g_downloads
  area,    \* the label of the task area, g_ui_task_label
  dl,      \* the network install in progress, or Idle
  tmp,     \* the temporary files, sdmc:/dbfm/downloads/<name>
  result,  \* what the last install of each name returned
  starts   \* how many installs were started

vars == <<panel, area, dl, tmp, result, starts>>

-----------------------------------------------------------------------------
(* The panel.                                                              *)

Slot == 1 .. Slots

FirstOf(S) == CHOOSE i \in S : \A j \in S : i <= j

\* strcmp with the name as given, which is never equal to a stored label
\* that was cut off.
Shown(n) == {i \in Slot : panel[i].label = Whole(n)}

\* Mutant of SlotFor: an entry is always added, never updated.
SlotAlwaysNew(n) ==
  LET free == {i \in Slot : panel[i] = Free}
  IN  IF free # {} THEN FirstOf(free) ELSE 1

\* Mutant of SlotFor: a new name does not look for a free entry.
SlotFirst(n) == IF Shown(n) # {} THEN FirstOf(Shown(n)) ELSE 1

\* downloads_push_or_update: the entry of the name, else a free one, else
\* the first.
SlotFor(n) ==
  LET free == {i \in Slot : panel[i] = Free}
  IN  IF Shown(n) # {} THEN FirstOf(Shown(n))
      ELSE IF free # {} THEN FirstOf(free) ELSE 1

\* ui_downloads_push_update, and with it the task area.
Pushed(n, pct) ==
  /\ panel' = [panel EXCEPT ![SlotFor(n)] =
                            [label |-> Stored(n), pct |-> pct]]
  /\ area' = Whole(n)

\* Mutant of RemovedAndCleared: the task area keeps its text.
RemovedOnly(n) ==
  /\ panel' = IF Shown(n) = {} THEN panel
              ELSE [panel EXCEPT ![FirstOf(Shown(n))] = Free]
  /\ UNCHANGED area

\* ui_downloads_remove followed by ui_clear_task.
RemovedAndCleared(n) ==
  /\ panel' = IF Shown(n) = {} THEN panel
              ELSE [panel EXCEPT ![FirstOf(Shown(n))] = Free]
  /\ area' = NoLabel

\* Mutant of PercentOf: it counts the unit being received.
PercentAhead(resp, done) ==
  IF resp.framing = "sized" /\ resp.len > 0
  THEN ((done + 1) * 100) \div resp.len ELSE 0

\* The percentage, known only with a Content-Length.
PercentOf(resp, done) ==
  IF resp.framing = "sized" /\ resp.len > 0
  THEN (done * 100) \div resp.len ELSE 0

-----------------------------------------------------------------------------
(* One network install.                                                    *)

\* Mutant of Failed: the partial file is left alone.
FailedKeepingFile(n) ==
  /\ result' = [result EXCEPT ![n] = "error"]
  /\ dl' = Idle
  /\ UNCHANGED tmp

\* The download failed: nsp_install_network unlinks the temporary file and
\* reports the error.  Panel and task area stay as they are.
Failed(n) ==
  /\ tmp' = [tmp EXCEPT ![n] = Absent]
  /\ result' = [result EXCEPT ![n] = "error"]
  /\ dl' = Idle

\* The url or the host is bad, the connection fails, or the file cannot be
\* opened.
StartFails(n) ==
  /\ dl = Idle
  /\ starts < MaxStarts
  /\ starts' = starts + 1
  /\ Failed(n)
  /\ UNCHANGED <<panel, area>>

\* Connected, request sent, file emptied, entry made.  The server will
\* answer with resp.
Start(n, resp) ==
  /\ dl = Idle
  /\ starts < MaxStarts
  /\ starts' = starts + 1
  /\ tmp' = [tmp EXCEPT ![n] = Holding(<<>>)]
  /\ dl' = [stage |-> "headers", name |-> n, resp |-> resp,
            got |-> 0, done |-> 0]
  /\ Pushed(n, 0)
  /\ UNCHANGED result

\* recv fails before the headers are complete.
HeadersLost ==
  /\ dl.stage = "headers"
  /\ Drops
  /\ Failed(dl.name)
  /\ UNCHANGED <<panel, area, starts>>

\* The headers are complete and k more units are in the buffer: they are
\* written to the file as they came, before the framing is known.
HeadersDone(k) ==
  /\ dl.stage = "headers"
  /\ k <= Len(Wire(dl.resp))
  /\ \E data \in Landed(SubSeq(Wire(dl.resp), 1, k)) :
       tmp' = [tmp EXCEPT ![dl.name] = Holding(data)]
  /\ dl' = [dl EXCEPT !.stage = "body", !.got = k,
              !.done = IF dl.resp.framing = "chunked" THEN 0 ELSE k]
  /\ UNCHANGED <<panel, area, result, starts>>

Receiving == dl.stage = "body"

\* One more chunk, from the buffer or the network, is decoded and written;
\* or one more unit of an unframed body.
UnitWritten ==
  /\ Receiving
  /\ dl.done < dl.resp.len
  /\ \E piece \in Landed(<<Unit(dl.done + 1)>>) :
       tmp' = [tmp EXCEPT ![dl.name] = Holding(@.data \o piece)]
  /\ dl' = [dl EXCEPT !.done = @ + 1]
  /\ Pushed(dl.name, PercentOf(dl.resp, dl.done + 1))
  /\ UNCHANGED <<result, starts>>

\* recv fails inside a chunked body: what is in the buffer is still decoded,
\* then the download fails.
ChunkLost ==
  /\ Receiving
  /\ dl.resp.framing = "chunked"
  /\ Drops
  /\ dl.done >= dl.got
  /\ Failed(dl.name)
  /\ UNCHANGED <<panel, area, starts>>

\* fclose writes out what is still buffered.
Closed(n) ==
  \E data \in Landed(tmp[n].data) :
    tmp' = [tmp EXCEPT ![n] = Holding(data)]

\* The empty chunk: success, but the entry and the task area stay.
ChunkedDone ==
  /\ Receiving
  /\ dl.resp.framing = "chunked"
  /\ dl.done = dl.resp.len
  /\ dl' = [dl EXCEPT !.stage = "install"]
  /\ Closed(dl.name)
  /\ UNCHANGED <<panel, area, result, starts>>

\* An unframed body ends when recv returns nothing, for whatever reason;
\* the Content-Length is not compared with what was received.
PlainDone ==
  /\ Receiving
  /\ dl.resp.framing # "chunked"
  /\ dl.done = dl.resp.len \/ Drops
  /\ dl' = [dl EXCEPT !.stage = "install"]
  /\ RemovedAndCleared(dl.name)
  /\ Closed(dl.name)
  /\ UNCHANGED <<result, starts>>

\* The download returned 0 and nsp_install_local reads the file, which must
\* begin with the magic number of the package; its own outcome is open.
Installed ==
  /\ dl.stage = "install"
  /\ tmp[dl.name].data # <<>> /\ Head(tmp[dl.name].data) = Unit(1)
  /\ tmp' = [tmp EXCEPT ![dl.name] = Absent]
  /\ result' = [result EXCEPT ![dl.name] = "installed"]
  /\ dl' = Idle
  /\ UNCHANGED <<panel, area, starts>>

\* The temporary file is kept.
InstallFails ==
  /\ dl.stage = "install"
  /\ result' = [result EXCEPT ![dl.name] = "kept"]
  /\ dl' = Idle
  /\ UNCHANGED <<panel, area, tmp, starts>>

Init ==
  /\ panel = [i \in Slot |-> Free]
  /\ area = NoLabel
  /\ dl = Idle
  /\ tmp = [n \in Name |-> Absent]
  /\ result = [n \in Name |-> "none"]
  /\ starts = 0

Next ==
  \/ \E n \in Name : StartFails(n)
  \/ \E n \in Name, resp \in Response : Start(n, resp)
  \/ HeadersLost
  \/ \E k \in 0 .. MaxBody + 1 : HeadersDone(k)
  \/ UnitWritten \/ ChunkLost \/ ChunkedDone \/ PlainDone
  \/ Installed \/ InstallFails

Spec == Init /\ [][Next]_vars

-----------------------------------------------------------------------------
(* Properties.                                                             *)

TypeOK ==
  /\ panel \in [Slot -> Entry]
  /\ area \in Label \cup {NoLabel}
  /\ dl = Idle \/ dl \in Download
  /\ tmp \in [Name -> [there : BOOLEAN, data : Seq(Content)]]
  /\ result \in [Name -> {"none", "error", "kept", "installed"}]
  /\ starts \in 0 .. MaxStarts

Used == {i \in Slot : panel[i] # Free}

Short == Name \ LongName

\* While a body is received its name is in the panel exactly once, whatever
\* earlier installs left there and however full the panel is: for names
\* short enough to be stored whole.  (ui/ui_data.c:93 never finds the entry
\* of a longer one, which therefore takes a slot with each update.)
OneEntryEach ==
  /\ \A i, j \in Used :
       panel[i].label.whole /\ panel[i].label = panel[j].label => i = j
  /\ dl.stage \in {"headers", "body"} /\ dl.name \in Short
       => Shown(dl.name) # {}

\* What the task area shows is what the panel lists: however entries are
\* replaced, removed and left behind by downloads that ended in different
\* ways, the area never names a download the panel has dropped.
AreaBacked == area # NoLabel /\ area.name \in Short => Shown(area.name) # {}

\* An entry shows 100 only when its last download had received all the units
\* the server announced.  (Whether they are in the file is another matter:
\* net/downloader.c:439 looks at no result of fwrite.)
HundredIsWhole ==
  dl # Idle => \A i \in Shown(dl.name) :
                 panel[i].pct = 100 => dl.done = dl.resp.len

\* A temporary file outlives its install only when the download succeeded
\* and the installation failed: a failed download leaves none, not even the
\* one an earlier install kept.
KeptOnlyForRetry ==
  \A n \in Name : tmp[n].there =>
    result[n] = "kept" \/ (dl # Idle /\ dl.name = n)

\* An entry changes only on behalf of its own download, unless the panel is
\* full and a new name takes the first slot.
OthersUntouched ==
  [][\A i \in Slot :
       panel'[i] # panel[i] /\ panel[i] # Free =>
         \/ dl # Idle /\ panel[i].label = Whole(dl.name)
         \/ dl' # Idle /\ panel[i].label = Whole(dl'.name)
         \/ i = 1 /\ Used = Slot]_vars

\* net/downloader.h:16 "Returns 0 on success": a download that returned 0
\* left the whole body in the file, and nothing else.
ZeroMeansWhole ==
  dl.stage = "install" => tmp[dl.name] = Holding(Body(dl.resp.len))
=============================================================================
