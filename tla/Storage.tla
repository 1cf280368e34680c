------------------------------ MODULE Storage ------------------------------
(***************************************************************************)
(* What the program does to saves, packages, partitions, keys and single   *)
(* files in one call at a time, outside the task queue.                    *)
(*                                                                         *)
(* The program has one thread, and the five parts share no variable: a     *)
(* call of one of them neither sees nor changes the state of another.  So  *)
(* each behaviour here is one of a single part, chosen at first, and the   *)
(* variables of the others are Unused: the states of the parts add up and  *)
(* are not multiplied.                                                     *)
(***************************************************************************)
EXTENDS Naturals, Sequences, FiniteSets

CONSTANTS
  Unused,                                       \* the value of the other parts' variables
  Title, Name, Saves0,                          \* of Saves
  Files, Ids, Titles,                           \* of Packages
  Nands, Parts, Exfat, Firmwares,               \* of Images
  MaxLeaky,                                     \* of Saves and Images
  Id, Zero, Tickets, PlainKeys, Dec(_, _),      \* of Keys
  Data, Junk, Packages, LogRoom, MaxEntries     \* of Secured

\* What the files of a secured move are made of.
Chunk == (UNION {{d[i] : i \in DOMAIN d} : d \in Data}) \cup {Junk}

ASSUME DataAssumption == Data \subseteq Seq(Chunk)

\* What partitions are made of.
Block == UNION {{s[i] : i \in DOMAIN s} : s \in Nands}

ASSUME NandsAssumption == Nands \subseteq Seq(Block)

\* What the files of keys and tickets are made of.
Unit ==
  (UNION {{s[i] : i \in DOMAIN s} : s \in Tickets \cup PlainKeys})
    \cup (UNION {{Dec(SubSeq(s, 1, 2), SubSeq(s, 3, 4))[i] : i \in {1, 2}} :
                s \in {t \in Tickets : Len(t) = 4}})
    \cup Id \cup {Zero}

\* Two units decrypt to two.
ASSUME KeysAssumption ==
  /\ Tickets \subseteq Seq(Unit)
  /\ \A s \in Tickets :
       Len(s) = 4 =>
         /\ Dec(SubSeq(s, 1, 2), SubSeq(s, 3, 4)) \in Seq(Unit)
         /\ Len(Dec(SubSeq(s, 1, 2), SubSeq(s, 3, 4))) = 2

\* What the files of saves are made of.
Entries0 == UNION {UNION {{s[t][n] : n \in Name} : t \in DOMAIN s} : s \in Saves0}

Bit == UNION {{e.data[i] : i \in DOMAIN e.data} : e \in Entries0}

Entry == [kind : {"none", "dir", "file"}, data : Seq(Bit)]

\* A save has every entry, if only as missing.
ASSUME SavesAssumption ==
  /\ \A s \in Saves0 :
       /\ DOMAIN s \subseteq Title
       /\ \A t \in DOMAIN s : s[t] \in [Name -> Entry]
  /\ \A e \in Entries0 : e.kind = "none" => e.data = <<>>

\* What the firmware's files are made of.
Piece == UNION {{f[p].data[i] : i \in DOMAIN f[p].data} : f \in Firmwares, p \in Parts}

ASSUME FirmwaresAssumption ==
  \A f \in Firmwares :
    /\ f \in [Parts -> [kind : {"none", "file"}, data : Seq(Piece)]]
    /\ \A p \in Parts : f[p].kind = "none" => f[p].data = <<>>

ASSUME BoundAssumption == MaxLeaky \in Nat

VARIABLES
  running,                                        \* the part
  saves, backup, held, leaked, all, call, listing,       \* of Saves
  placeholders, contents, dumped, open, server, work,    \* of Packages
  nand, image, firmware, package, mounted, handles, job, \* of Images
  keys, tickets, ready, pending, granted, answer,        \* of Keys
  src, dst, move, secureReady, log, verdict              \* of Secured

S == INSTANCE Saves
P == INSTANCE Packages
I == INSTANCE Images
K == INSTANCE Keys
X == INSTANCE Secured WITH ready <- secureReady

savesVars    == <<saves, backup, held, leaked, all, call, listing>>
packagesVars == <<placeholders, contents, dumped, open, server, work>>
imagesVars   == <<nand, image, firmware, package, mounted, handles, job>>
keysVars     == <<keys, tickets, ready, pending, granted, answer>>
securedVars  == <<src, dst, move, secureReady, log, verdict>>

vars ==
  <<running, savesVars, packagesVars, imagesVars, keysVars, securedVars>>

-----------------------------------------------------------------------------
SavesOff ==
  /\ saves = Unused /\ backup = Unused /\ held = Unused /\ leaked = Unused
  /\ all = Unused /\ call = Unused /\ listing = Unused

PackagesOff ==
  /\ placeholders = Unused /\ contents = Unused /\ dumped = Unused
  /\ open = Unused /\ server = Unused /\ work = Unused

ImagesOff ==
  /\ nand = Unused /\ image = Unused /\ firmware = Unused /\ package = Unused
  /\ mounted = Unused /\ handles = Unused /\ job = Unused

KeysOff ==
  /\ keys = Unused /\ tickets = Unused /\ ready = Unused /\ pending = Unused
  /\ granted = Unused /\ answer = Unused

SecuredOff ==
  /\ src = Unused /\ dst = Unused /\ move = Unused /\ secureReady = Unused
  /\ log = Unused /\ verdict = Unused

Init ==
  /\ running \in {"saves", "packages", "images", "keys", "secured"}
  /\ IF running = "saves"      THEN S!Init  ELSE SavesOff
  /\ IF running = "packages"   THEN P!Init  ELSE PackagesOff
  /\ IF running = "images"     THEN I!Init  ELSE ImagesOff
  /\ IF running = "keys"       THEN K!Init  ELSE KeysOff
  /\ IF running = "secured"    THEN X!Init  ELSE SecuredOff

\* The variables of the other parts stay as they are.
Others ==
  /\ UNCHANGED running
  /\ IF running = "saves"      THEN TRUE ELSE UNCHANGED savesVars
  /\ IF running = "packages"   THEN TRUE ELSE UNCHANGED packagesVars
  /\ IF running = "images"     THEN TRUE ELSE UNCHANGED imagesVars
  /\ IF running = "keys"       THEN TRUE ELSE UNCHANGED keysVars
  /\ IF running = "secured"    THEN TRUE ELSE UNCHANGED securedVars

Next ==
  \/ running = "saves"      /\ S!Next  /\ Others
  \/ running = "packages"   /\ P!Next  /\ Others
  \/ running = "images"     /\ I!Next  /\ Others
  \/ running = "keys"       /\ K!Next  /\ Others
  \/ running = "secured"    /\ X!Next  /\ Others

Spec == Init /\ [][Next]_vars

-----------------------------------------------------------------------------
\* A restore leaves what was in the save as it was, at every step of it.
RestoreKeepsExisting == running = "saves" => S!RestoreKeepsExisting

\* A backup, restore or firmware export in which nothing failed has copied
\* everything, whatever an earlier one left half done in the same place.
CopiesWhole ==
  /\ running = "saves"  => S!CleanCallWhole
  /\ running = "images" => I!CleanExportWhole

\* What a call reports is so, as far as the code looks: the partition's image
\* is whole unless closing it lost its end, the header of a dump counts what is
\* in it unless writing it failed, and a list of titles is filled but for the
\* entries memory or the second reading failed for.
ReportsTrue ==
  /\ running = "images"   => I!ReportedCopyWhole
  /\ running = "packages" => P!HeaderCounts
  /\ running = "saves"    => S!ListingFilled

\* No placeholder outlives the installation that made it.
PlaceholdersSettled == running = "packages" => P!PlaceholdersSettled

\* Keys that are exported or listed are keys an import decrypted.
KeysGenuine == running = "keys" => K!KeysGenuine

\* A secured move leaves the data in one of the two places at every step,
\* unless the copy came out short: "Only remove source after successful copy and
\* verification" (secure.c:301) promises more, but what is compared is unset.
OneCopySurvives == running = "secured" => X!OneCopySurvives

\* The log of operations loses no entry it could have written.
LogKept == running = "secured" => X!LogKept

\* Between calls nothing is open, whichever way the last call ended, but what
\* two calls are known to leave: a reader for each backup of all saves, a file
\* system for each attempt to mount the firmware that failed half way.
NothingOpen ==
  /\ running = "saves"    => S!NothingOpen
  /\ running = "packages" => P!NothingOpen
  /\ running = "images"   => I!NothingOpen
=============================================================================
