------------------------------- MODULE Saves -------------------------------
(***************************************************************************)
(* Backup and restore of save data (save/save_manager.c).                  *)
(*                                                                         *)
(* A call works through a save, or a backup of one, entry by entry and     *)
(* chunk by chunk; each of its library calls may fail, and the console may *)
(* be switched off between any two of them.  save_backup_all and           *)
(* save_restore_all are loops around the calls for one title, and the      *)
(* first of them shares its reader of the list of saves with them.         *)
(***************************************************************************)
EXTENDS Naturals, Sequences, FiniteSets

CONSTANTS
  Title, Name,  \* titles, and the names of entries in a save
  Saves0,       \* the saves there may be at first: [a set of titles -> [Name -> Entry]]
  MaxLeaky      \* bound: backups of all saves

VARIABLES
  saves,    \* the save file systems, by title
  backup,   \* the backup folder of each title; made says whether it is there
  held,     \* the objects the program has open
  leaked,   \* readers overwritten while open, and backups of all saves begun
  all,      \* the loop over titles, if one is running
  call,     \* the call for one title: running, or the last one
  listing   \* the list of titles: being made, or the last one

vars == <<saves, backup, held, leaked, all, call, listing>>

None    == [kind |-> "none", data |-> <<>>]
Dir     == [kind |-> "dir",  data |-> <<>>]   \* an empty folder
File(s) == [kind |-> "file", data |-> s]

Empty == [n \in Name |-> None]

Idle    == call.stage = "done"
Resting == Idle /\ all.op = "none" /\ listing.stage = "done"

\* Is a save listed by the reader for this title?
Listed(t) == t \in DOMAIN saves

-----------------------------------------------------------------------------
(* Beginning and ending a call.  clean says that nothing failed in it.     *)

Begun(op, t) ==
  [op |-> op, title |-> t, stage |-> "mount", todo |-> {}, file |-> "none", rc |-> "ok",
   clean |-> TRUE, before |-> IF Listed(t) THEN saves[t] ELSE Empty]

\* Mutant of Own: the file system of the save is forgotten.
OwnButSave == {"dir", "src", "dst"}

\* Objects a call for one title opens and closes again.
Own == {"save", "dir", "src", "dst"}

Failed(c) == [c EXCEPT !.rc = "err", !.clean = FALSE]
At(c, s)  == [c EXCEPT !.stage = s]

Return(c) == call' = At(c, "done") /\ held' = held \ Own

\* Every chunk passes through one buffer, allocated by the first call.
Start(op, t) ==
  /\ Resting
  /\ \/ call' = Begun(op, t)
     \/ call' = At(Failed(Begun(op, t)), "done")
  /\ UNCHANGED <<saves, backup, held, leaked, all, listing>>

\* mount_save_data: reads the list up to the title, with the reader the loop
\* over all saves has open: that one stays open for good, and the new one is
\* closed (lines 52 and 71 against 293).  A title that is not in the list
\* is no error, and leaves the caller with a file system it never opened.
Mount ==
  /\ call.stage = "mount"
  /\ \/ /\ Return(Failed(call))
        /\ UNCHANGED leaked
     \/ /\ leaked' = [leaked EXCEPT !.readers = IF "reader" \in held THEN @ + 1 ELSE @]
        /\ \/ held' = held \ {"reader"} /\ call' = At(Failed(call), "done")
           \/ /\ held' = (held \ {"reader"}) \cup (IF Listed(call.title) THEN {"save"} ELSE {})
              /\ call' = At(call, "open")
  /\ UNCHANGED <<saves, backup, all, listing>>

-----------------------------------------------------------------------------
(* save_backup_title.                                                      *)

Made(t) == [backup EXCEPT ![t].made = TRUE]

BackupOpen ==
  /\ call.stage = "open" /\ call.op = "backup"
  /\ backup' \in {backup, Made(call.title)}
  /\ \/ Return(Failed(call))
     \/ /\ "save" \in held
        /\ held' = held \cup {"dir"}
        /\ call' = [At(call, "next") EXCEPT
                      !.todo = {n \in Name : saves[call.title][n] # None}]
  /\ UNCHANGED <<saves, leaked, all, listing>>

\* No more entries, or reading the next one fails: its result is the call's.
BackupEnd ==
  /\ call.stage = "next" /\ call.op = "backup"
  /\ \/ call.todo = {} /\ Return([call EXCEPT !.rc = "ok"])
     \/ Return(Failed(call))
  /\ UNCHANGED <<saves, backup, leaked, all, listing>>

Put(t, n, e) == [backup EXCEPT ![t].entry[n] = e]

\* Mutant of Opened: what is written goes behind what is there.
OpenedBehind(there) == File(there.data)

\* A file opened for writing, whatever was there.
Opened(there) == File(<<>>)

\* One entry: a folder is made, empty; for a file, both sides are opened.
BackupEntry ==
  /\ call.stage = "next" /\ call.op = "backup"
  /\ \E n \in call.todo :
       LET t == call.title
           c == [call EXCEPT !.todo = @ \ {n}]
           there == backup[t].entry[n]
       IN  \/ /\ saves[t][n].kind = "dir"
              /\ \/ /\ backup[t].made /\ there.kind # "file"
                    /\ backup' = Put(t, n, Dir)
                    /\ call' = c
                 \/ call' = [c EXCEPT !.clean = FALSE] /\ UNCHANGED backup
              /\ UNCHANGED held
           \/ /\ saves[t][n].kind = "file"
              /\ \/ call' = Failed(c) /\ UNCHANGED <<backup, held>>
                 \/ call' = [c EXCEPT !.rc = "ok", !.clean = FALSE] /\ UNCHANGED <<backup, held>>
                 \/ /\ backup[t].made /\ there.kind # "dir"
                    /\ backup' = Put(t, n, Opened(there))
                    /\ held' = held \cup {"src", "dst"}
                    /\ call' = [At(c, "copy") EXCEPT !.file = n, !.rc = "ok"]
  /\ UNCHANGED <<saves, leaked, all, listing>>

CopyEnds(c) == call' = [At(c, "next") EXCEPT !.file = "none"] /\ held' = held \ {"src", "dst"}

\* The next chunk, or the end of the file, or a failure of either side.  What
\* closing the copy cannot write any more is missing, and nobody looks.
BackupChunk ==
  /\ call.stage = "copy" /\ call.op = "backup"
  /\ LET from == saves[call.title][call.file].data
         to   == backup[call.title].entry[call.file].data
     IN  \/ CopyEnds(Failed(call)) /\ UNCHANGED backup
         \/ Len(to) = Len(from) /\ CopyEnds(call) /\ UNCHANGED backup
         \/ /\ to # <<>>
            /\ backup' = Put(call.title, call.file, File(SubSeq(to, 1, Len(to) - 1)))
            /\ \E c \in {call, Failed(call)} : CopyEnds([c EXCEPT !.clean = FALSE])
         \/ /\ Len(to) < Len(from)
            /\ backup' = Put(call.title, call.file, File(Append(to, from[Len(to) + 1])))
            /\ UNCHANGED <<call, held>>
  /\ UNCHANGED <<saves, leaked, all, listing>>

-----------------------------------------------------------------------------
(* save_restore_title.                                                     *)

RestoreOpen ==
  /\ call.stage = "open" /\ call.op = "restore"
  /\ \/ Return(Failed(call))
     \/ /\ backup[call.title].made
        /\ held' = held \cup {"dir"}
        /\ call' = [At(call, "next") EXCEPT
                      !.todo = {n \in Name : backup[call.title].entry[n] # None}]
  /\ UNCHANGED <<saves, backup, leaked, all, listing>>

RestoreEnd ==
  /\ call.stage = "next" /\ call.op = "restore" /\ call.todo = {}
  /\ Return(call)
  /\ UNCHANGED <<saves, backup, leaked, all, listing>>

Restored(t, n, e) == [saves EXCEPT ![t][n] = e]

\* Mutant of MayMake: what is there is replaced.
MayMakeOver(t, n) == "save" \in held

\* What is made in the save must not be there yet.
MayMake(t, n) == "save" \in held /\ saves[t][n] = None

RestoreDir(c, n) ==
  /\ UNCHANGED held
  /\ \/ call' = Failed(c) /\ UNCHANGED saves
     \/ /\ MayMake(c.title, n)
        /\ saves' = Restored(c.title, n, Dir)
        /\ call' = [c EXCEPT !.rc = "ok"]

\* A file is made first and opened then; the backup's own file is not always
\* there to read.
RestoreFile(c, n) ==
  \/ call' = [c EXCEPT !.clean = FALSE] /\ UNCHANGED <<saves, held>>
  \/ call' = Failed(c) /\ UNCHANGED <<saves, held>>
  \/ /\ MayMake(c.title, n)
     /\ saves' = Restored(c.title, n, File(<<>>))
     /\ \/ call' = Failed(c) /\ UNCHANGED held
        \/ /\ call' = [At(c, "copy") EXCEPT !.file = n, !.rc = "ok"]
           /\ held' = held \cup {"src", "dst"}

RestoreEntry ==
  /\ call.stage = "next" /\ call.op = "restore"
  /\ \E n \in call.todo :
       LET c == [call EXCEPT !.todo = @ \ {n}]
       IN  IF backup[call.title].entry[n].kind = "dir" THEN RestoreDir(c, n) ELSE RestoreFile(c, n)
  /\ UNCHANGED <<backup, leaked, all, listing>>

\* A failed write ends the file, and the result is that of the flush.  So does
\* a failed read, which is taken for the end.
RestoreChunk ==
  /\ call.stage = "copy" /\ call.op = "restore"
  /\ LET from == backup[call.title].entry[call.file].data
         to   == saves[call.title][call.file].data
     IN  \/ \E r \in {"ok", "err"} : CopyEnds([call EXCEPT !.rc = r, !.clean = FALSE]) /\ UNCHANGED saves
         \/ Len(to) = Len(from) /\ CopyEnds([call EXCEPT !.rc = "ok"]) /\ UNCHANGED saves
         \/ /\ Len(to) < Len(from)
            /\ saves' = Restored(call.title, call.file, File(Append(to, from[Len(to) + 1])))
            /\ UNCHANGED <<call, held>>
  /\ UNCHANGED <<backup, leaked, all, listing>>

-----------------------------------------------------------------------------
(* All titles.                                                             *)

NoLeak   == [readers |-> 0, loops |-> 0]
NoLoop   == [op |-> "none", left |-> {}]
Unlisted == [stage |-> "done", count |-> 0, filled |-> 0, missed |-> 0, rc |-> "err"]

StartAll ==
  /\ Resting
  /\ \/ /\ leaked.loops < MaxLeaky
        /\ leaked' = [leaked EXCEPT !.loops = @ + 1]
        /\ held' = held \cup {"reader"}
        /\ all' = [op |-> "backup", left |-> DOMAIN saves]
     \/ /\ UNCHANGED <<held, leaked>>
        /\ all' = [op |-> "restore", left |-> {t \in Title : backup[t].made}]
  /\ call' = At(Begun("none", CHOOSE t \in Title : TRUE), "done")
  /\ UNCHANGED <<saves, backup, listing>>

\* The next title is read from the reader, which is closed after the first.
AllNext ==
  /\ Idle /\ all.op # "none" /\ call.rc = "ok"
  /\ all.op = "backup" => "reader" \in held
  /\ \E t \in all.left :
       /\ call' = Begun(all.op, t)
       /\ all' = [all EXCEPT !.left = @ \ {t}]
  /\ UNCHANGED <<saves, backup, held, leaked, listing>>

\* The loop ends with its list, with a title that fails, or with its reader.
AllEnd ==
  /\ Idle /\ all.op # "none"
  /\ all.left = {} \/ call.rc = "err" \/ all.op = "backup"
  /\ all' = NoLoop
  /\ held' = held \ {"reader"}
  /\ UNCHANGED <<saves, backup, leaked, call, listing>>

(* save_list_titles: the titles are counted first, room is made for so     *)
(* many, and a second reading fills it.                                    *)

ListCount ==
  /\ Resting
  /\ \/ listing' = Unlisted
     \/ \E n \in 0 .. Cardinality(DOMAIN saves) :
          listing' = [Unlisted EXCEPT !.stage = "fill", !.count = n, !.rc = "ok"]
  /\ UNCHANGED <<saves, backup, held, leaked, all, call>>

ListGoesOn == listing.filled + listing.missed < listing.count

ListEnds(l) == listing' = [l EXCEPT !.stage = "done"]

\* Mutant of ListFill: a second reading that fails is a success.
ListFillLess ==
  /\ listing.stage = "fill"
  /\ \/ ListGoesOn /\ listing' = [listing EXCEPT !.filled = @ + 1]
     \/ ListEnds(listing)
  /\ UNCHANGED <<saves, backup, held, leaked, all, call>>

\* Whatever happens here, the count is the one announced.  An entry for which
\* memory gives out is passed over; a second reading that ends before the
\* first one did leaves the rest of the list as malloc returned it, and is a
\* success.
ListFill ==
  /\ listing.stage = "fill"
  /\ \/ ListGoesOn /\ listing' = [listing EXCEPT !.filled = @ + 1]
     \/ ListGoesOn /\ listing' = [listing EXCEPT !.missed = @ + 1]
     \/ ListGoesOn /\ ListEnds([listing EXCEPT !.missed = listing.count - listing.filled])
     \/ ~ListGoesOn /\ ListEnds(listing)
     \/ ListEnds([listing EXCEPT !.rc = "err"])
  /\ UNCHANGED <<saves, backup, held, leaked, all, call>>

\* The console is switched off: what is on the card and in the saves stays.
Kill ==
  /\ held' = {} /\ leaked' = NoLeak /\ all' = NoLoop
  /\ call' = At(Failed(Begun("none", CHOOSE t \in Title : TRUE)), "done")
  /\ listing' = Unlisted
  /\ UNCHANGED <<saves, backup>>

\* Between calls a game is played: a save appears, changes or goes.
Play ==
  /\ Resting
  /\ saves' \in Saves0
  /\ call' = [call EXCEPT !.op = "none"]
  /\ UNCHANGED <<backup, held, leaked, all, listing>>

Init ==
  /\ saves \in Saves0
  /\ backup = [t \in Title |-> [made |-> FALSE, entry |-> Empty]]
  /\ held = {} /\ leaked = NoLeak /\ all = NoLoop /\ listing = Unlisted
  /\ call = [op |-> "none", title |-> CHOOSE t \in Title : TRUE, stage |-> "done", todo |-> {},
             file |-> "none", rc |-> "ok", clean |-> FALSE, before |-> Empty]

Next ==
  \/ \E op \in {"backup", "restore"}, t \in Title : Start(op, t)
  \/ Mount
  \/ BackupOpen \/ BackupEnd \/ BackupEntry \/ BackupChunk
  \/ RestoreOpen \/ RestoreEnd \/ RestoreEntry \/ RestoreChunk
  \/ StartAll \/ AllNext \/ AllEnd
  \/ ListCount \/ ListFill
  \/ Kill \/ Play

Spec == Init /\ [][Next]_vars

-----------------------------------------------------------------------------
\* What was in a save before a restore is as it was, during it and after:
\* restoring adds files and never replaces one, a torn backup included.
RestoreKeepsExisting ==
  call.op = "restore" /\ Listed(call.title) =>
    \A n \in Name : call.before[n] # None => saves[call.title][n] = call.before[n]

\* What a copy can be of an entry: all of a file, but of a folder only that it
\* is there; the code never looks into one.
Copied(e) == IF e.kind = "dir" THEN Dir ELSE e

\* A backup or restore in which no library call failed has every entry on both
\* sides, files with all their chunks and folders without what was in them,
\* whatever an earlier call left half copied.
CleanCallWhole ==
  Idle /\ call.clean /\ Listed(call.title) =>
    \A n \in Name :
      LET s == saves[call.title][n]
          copy == backup[call.title].entry[n]
      IN  /\ call.op = "backup"  => (s # None => copy = Copied(s))
          /\ call.op = "restore" => (copy # None => copy = s)

\* Between calls nothing is open, whichever way the last one ended, but for
\* the readers the mounting of a save took from the loop over all saves; and
\* of those each such loop leaves at most one.
NothingOpen == Resting => held = {} /\ leaked.readers <= leaked.loops

\* Of the list of titles that is returned as a success every entry is filled,
\* but those for which memory gave out or which the second reading no longer
\* found: they are counted and hold nothing.
ListingFilled ==
  Resting /\ listing.rc = "ok" => listing.filled + listing.missed = listing.count
=============================================================================
