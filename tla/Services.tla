------------------------------ MODULE Services ------------------------------
(***************************************************************************)
(* The services around the program's core: listings, moves, installation,  *)
(* the http client, the security modes, the log, the favourites, start-up, *)
(* the applets, digests, paths and the controls.                           *)
(*                                                                         *)
(* As in Storage: there is one thread, no two of the parts share a         *)
(* variable, and so each behaviour is one of a single part, chosen at      *)
(* first, and the variables of the others are Unused.                      *)
(***************************************************************************)
EXTENDS Naturals, Sequences, FiniteSets

CONSTANTS
  Unused,                                              \* the value of the other parts' variables
  Item, Parent, Root, Tags, Size, FirstRoom, MaxSelected,              \* of FileOrg
  Path, Data,                                                          \* of Moves
  Program, HeaderRoom,                                                 \* of Installs
  Url, Answer, MaxRequests,                                            \* of Http
  Paths, Rules, Pins, Timeout, MaxPaths,                               \* of Modes
  MaxLogSize, LongestLine, MaxMissed,                                  \* of Logs
  Labels, Kept(_), Trimmed(_), Broken, MaxFavorites,                   \* of Favourites
  MaxRegistrations,                                                    \* of Startup
  Types, Browser, AppletData, MaxLoaded,                               \* of Applets
  Byte, BlockBytes, CountBytes, MaxMessage,                            \* of Digest
  Names, MaxSegs, MaxTokens, Room,                                     \* of Paths
  Buttons, MaxHeld, HoldFrames, RepeatDelay, RepeatInterval            \* of Controls

\* The room for a message's length is part of a block.
ASSUME SizesAssumption ==
  BlockBytes \in Nat /\ CountBytes \in 1 .. (BlockBytes - 1) /\ MaxMessage \in Nat

\* A folder has finitely many things in it, each of a size.
ASSUME ItemsAssumption == IsFiniteSet(Item) /\ Size \in [Item -> Nat]

\* There is a card, files hold sequences of chunks, and programs are sequences
\* of pieces.
ASSUME FilesAssumption ==
  /\ Path # {} /\ HeaderRoom \in Nat
  /\ \A x \in Data \cup Program : x \in Seq({x[i] : i \in DOMAIN x})

\* An answer is of one of the kinds, and its body a sequence of pieces.
ASSUME AnswersAssumption ==
  /\ MaxRequests \in Nat
  /\ \A x \in Answer : /\ x.kind \in {"plain", "chunked", "told", "moved", "twice", "bare"}
                       /\ x.body \in Seq({x.body[i] : i \in DOMAIN x.body})

\* A line is not longer than the log.
ASSUME LogsAssumption ==
  MaxLogSize \in Nat /\ LongestLine \in 0 .. MaxLogSize /\ MaxMissed \in Nat

\* Of a label the list keeps a beginning, and loading takes the blanks at its
\* end away, all of them; what is shorter than the label is not the label.
ASSUME LabelsAssumption ==
  /\ MaxFavorites \in Nat
  /\ \A l \in Labels : /\ Trimmed(Trimmed(Kept(l))) = Trimmed(Kept(l))
                       /\ Trimmed(Kept(l)) = l => Kept(l) = l
  /\ Trimmed(Trimmed(Broken)) = Trimmed(Broken)

\* A name is none of the segments that mean something else, nor a bad one.
ASSUME NamesAssumption ==
  /\ MaxSegs \in Nat
  /\ IsFiniteSet(Names) /\ Names \cap {".", "..", "empty", "bad"} = {}

\* No type of applet is the mark of a file that is missing or torn.
ASSUME AppletsAssumption == "none" \notin Types

ASSUME ControlsAssumption ==
  /\ HoldFrames \in Nat /\ RepeatDelay \in Nat
  /\ RepeatInterval \in Nat \ {0}

VARIABLES
  running,                                        \* the part
  card, listing, sent,                                           \* of FileOrg
  files, cancel, opened, moving,                                 \* of Moves
  app, bak, part, source, connection, installing,                \* of Installs
  url, requests, socket, buffer, memory, result, met,            \* of Http
  mode, access, pin, verified, elapsed, protected, knew, logged, \* of Modes
  logs, backups, handle, size, missed,                           \* of Logs
  favorites, saved,                                              \* of Favourites
  phase, booted, up, state, link, usb, attempts,                 \* of Startup
  initialized, loaded, total, browsing, leaving, states, given,  \* of Applets
  message, context, blocks, final,                               \* of Digest
  asked, at, tokens, status, lines,                              \* of Paths
  held, stick, event, hold, multi, rate, gap                     \* of Controls

F == INSTANCE FileOrg
V == INSTANCE Moves WITH open <- opened, call <- moving
N == INSTANCE Installs WITH call <- installing, socket <- connection
H == INSTANCE Http
M == INSTANCE Modes
L == INSTANCE Logs
B == INSTANCE Favourites
U == INSTANCE Startup WITH open <- usb
A == INSTANCE Applets WITH Data <- AppletData
D == INSTANCE Digest WITH buffer <- context
R == INSTANCE Paths
C == INSTANCE Controls

organisedVars == <<card, listing, sent>>
movedVars     == <<files, cancel, opened, moving>>
installedVars == <<app, bak, part, source, connection, installing>>
fetchedVars   == <<url, requests, socket, buffer, memory, result, met>>
guardedVars   == <<mode, access, pin, verified, elapsed, protected, knew, logged>>
loggingVars   == <<logs, backups, handle, size, missed>>
likedVars     == <<favorites, saved>>
startedVars   == <<phase, booted, up, state, link, usb, attempts>>
appletsVars   == <<initialized, loaded, total, browsing, leaving, states, given>>
digestedVars  == <<message, context, blocks, final>>
resolvedVars  == <<asked, at, tokens, status, lines>>
pressedVars   == <<held, stick, event, hold, multi, rate, gap>>

vars ==
  <<running, organisedVars, movedVars, installedVars, fetchedVars,
    guardedVars, loggingVars, likedVars, startedVars, appletsVars,
    digestedVars, resolvedVars, pressedVars>>

-----------------------------------------------------------------------------
OrganisedOff ==
  /\ card = Unused /\ listing = Unused /\ sent = Unused

MovedOff ==
  /\ files = Unused /\ cancel = Unused /\ opened = Unused /\ moving = Unused

InstalledOff ==
  /\ app = Unused /\ bak = Unused /\ part = Unused /\ source = Unused
  /\ connection = Unused /\ installing = Unused

FetchedOff ==
  /\ url = Unused /\ requests = Unused /\ socket = Unused /\ buffer = Unused
  /\ memory = Unused /\ result = Unused /\ met = Unused

GuardedOff ==
  /\ mode = Unused /\ access = Unused /\ pin = Unused /\ verified = Unused
  /\ elapsed = Unused /\ protected = Unused /\ knew = Unused
  /\ logged = Unused

LoggingOff ==
  /\ logs = Unused /\ backups = Unused /\ handle = Unused /\ size = Unused
  /\ missed = Unused

LikedOff ==
  /\ favorites = Unused /\ saved = Unused

StartedOff ==
  /\ phase = Unused /\ booted = Unused /\ up = Unused /\ state = Unused
  /\ link = Unused /\ usb = Unused /\ attempts = Unused

AppletsOff ==
  /\ initialized = Unused /\ loaded = Unused /\ total = Unused
  /\ browsing = Unused /\ leaving = Unused /\ states = Unused
  /\ given = Unused

DigestedOff ==
  /\ message = Unused /\ context = Unused /\ blocks = Unused /\ final = Unused

ResolvedOff ==
  /\ asked = Unused /\ at = Unused /\ tokens = Unused /\ status = Unused
  /\ lines = Unused

PressedOff ==
  /\ held = Unused /\ stick = Unused /\ event = Unused /\ hold = Unused
  /\ multi = Unused /\ rate = Unused /\ gap = Unused

Init ==
  /\ running \in {"organised", "moved", "installed", "fetched", "guarded",
                  "logging", "liked", "started", "applets", "digested",
                  "resolved", "pressed"}
  /\ IF running = "organised"   THEN F!Init  ELSE OrganisedOff
  /\ IF running = "moved"       THEN V!Init  ELSE MovedOff
  /\ IF running = "installed"   THEN N!Init  ELSE InstalledOff
  /\ IF running = "fetched"     THEN H!Init  ELSE FetchedOff
  /\ IF running = "guarded"     THEN M!Init  ELSE GuardedOff
  /\ IF running = "logging"     THEN L!Init  ELSE LoggingOff
  /\ IF running = "liked"       THEN B!Init  ELSE LikedOff
  /\ IF running = "started"     THEN U!Init  ELSE StartedOff
  /\ IF running = "applets"     THEN A!Init  ELSE AppletsOff
  /\ IF running = "digested"    THEN D!Init  ELSE DigestedOff
  /\ IF running = "resolved"    THEN R!Init  ELSE ResolvedOff
  /\ IF running = "pressed"     THEN C!Init  ELSE PressedOff

\* The variables of the other parts stay as they are.
Others ==
  /\ UNCHANGED running
  /\ IF running = "organised"   THEN TRUE ELSE UNCHANGED organisedVars
  /\ IF running = "moved"       THEN TRUE ELSE UNCHANGED movedVars
  /\ IF running = "installed"   THEN TRUE ELSE UNCHANGED installedVars
  /\ IF running = "fetched"     THEN TRUE ELSE UNCHANGED fetchedVars
  /\ IF running = "guarded"     THEN TRUE ELSE UNCHANGED guardedVars
  /\ IF running = "logging"     THEN TRUE ELSE UNCHANGED loggingVars
  /\ IF running = "liked"       THEN TRUE ELSE UNCHANGED likedVars
  /\ IF running = "started"     THEN TRUE ELSE UNCHANGED startedVars
  /\ IF running = "applets"     THEN TRUE ELSE UNCHANGED appletsVars
  /\ IF running = "digested"    THEN TRUE ELSE UNCHANGED digestedVars
  /\ IF running = "resolved"    THEN TRUE ELSE UNCHANGED resolvedVars
  /\ IF running = "pressed"     THEN TRUE ELSE UNCHANGED pressedVars

Next ==
  \/ running = "organised"   /\ F!Next  /\ Others
  \/ running = "moved"       /\ V!Next  /\ Others
  \/ running = "installed"   /\ N!Next  /\ Others
  \/ running = "fetched"     /\ H!Next  /\ Others
  \/ running = "guarded"     /\ M!Next  /\ Others
  \/ running = "logging"     /\ L!Next  /\ Others
  \/ running = "liked"       /\ B!Next  /\ Others
  \/ running = "started"     /\ U!Next  /\ Others
  \/ running = "applets"     /\ A!Next  /\ Others
  \/ running = "digested"    /\ D!Next  /\ Others
  \/ running = "resolved"    /\ R!Next  /\ Others
  \/ running = "pressed"     /\ C!Next  /\ Others

Spec == Init /\ [][Next]_vars

-----------------------------------------------------------------------------
\* The count of selected entries is stale by those that were lost while selected
\* and no more, and the space freed covers what was queued.
CountsCover == running = "organised" => F!CountsCover

\* A file being moved, or a program being replaced, is whole in one of its two
\* places at every step, and what is reported moved or installed arrived whole:
\* unless a reading, a flush or a close failed that the code does not look at, the
\* server stopped early or its header left no room, or an installation from the
\* card could not make its backup.
NothingLost ==
  /\ running = "moved"     => V!MovedNotLost /\ V!ReportedMoved
  /\ running = "installed" => N!OldKept /\ N!InstalledWhole

\* A request that returns has given back what it held, but for the address at the
\* last redirect and a Location that no redirect used, or that had another behind it.
Settled == running = "fetched" => H!Settled

\* Outside of normal mode, which anybody may choose, nothing is changed unless a
\* pin was known since the mode was chosen, and what the rules of either path
\* forbid never goes through.  Locking again (security_mode.c:308) takes back
\* nothing, though the mode is called "PIN-protected access" (security_mode.h:12).
AccessHeld == running = "guarded" => M!ChangesNeedPin /\ M!ProtectedHolds

\* What the program keeps for itself on the card stays within its bounds, but for
\* what goes into a log uncounted.
KeptInBounds ==
  /\ running = "logging" => L!LogBounded
  /\ running = "liked"   => B!FavouritesOnce

\* What a service is believed to have, it has: a link its interface, a program
\* that runs its services, the registry of applets its entries.
Standing ==
  /\ running = "started" => U!LinkBacked /\ U!AllUp
  /\ running = "applets" => A!RegistrySound

\* What is kept of a path is what it means, inside its root, but for what is cut off
\* at its end and for names there was no memory for.
PathsMean == running = "resolved" => R!CanonicalInside

\* In whatever pieces a message is given, its digest is that of the message.
DigestsWhole == running = "digested" => D!DigestOfMessage

\* What is computed piece by piece is what it is defined to be on the whole:
\* paths (file/sdcard.c) and digests (security/crypto.c).
Computed == PathsMean /\ DigestsWhole

\* Holding a button repeats it no faster than the interval.
RepeatsPaced == [][running = "pressed" => (C!Repeat => gap + 1 >= RepeatInterval)]_vars
=============================================================================
