# DBFM for Switch: a verification development in TLA+

DBFM is a homebrew file manager for the Nintendo Switch (C, libnx).  This
directory holds TLA+ modules translated from its source, the TLC
configurations that check them on small instances, and proofs that TLAPS
checks for every value of the constants.  Paths and line numbers are those of
`src/source/` unless they say otherwise.

Contents: [the program](#1-the-program), [the components](#2-the-components),
[modules and code](#3-modules-and-code), [runs and bounds](#4-runs-and-bounds),
[fairness](#5-fairness), [proofs](#6-proofs), [findings](#7-findings),
[what is left out](#8-what-is-left-out), [plan](#9-plan).

## 1. The program

The program has one thread.  `core/main.c` calls `app_init` and then
`app_run`, whose loop (`core/app.c:520`) handles the keys
(`app_process_input`), calls `app_update`, and draws, once per frame.
`app_update` (`core/app.c:395`) serves one step of the task queue and lets the
settings decide on a mode.  Opening the file explorer, the homebrew store, the
settings, the downloads list or the system tools runs *another loop inside the
handling of that frame's keys*: until it returns, nothing that `app_update`
does is done, unless that loop does it itself.  What looks sequential is
therefore a set of loops that interleave their work on shared state: the
queue, the SD card, the settings, the downloads panel and the task area.

Long work is cut into steps where the code was written for it (the task queue:
32 KiB of a copy per frame; the explorer: 40 directory entries per frame) and
blocks the program where it was not (network installs, backups, dumps).

There are two versions of the program in the tree.  `core/`, `file/`, `ui/`
and the other subdirectories are the current one; `main.c`, `fs.c`,
`file_explorer.c`, `ui.c`, `ui_data.c` and others directly under `source/` are
an earlier one with files of the same names.  The Makefile compiles every
directory by the base name of its files, so that for each of those names only
one of the two can be linked (by the order of `SOURCES`, the older), but the
older files lack what the rest calls: the downloads panel, for instance, is
only in `ui/ui_data.c`.  The current version is modelled, as the code that is
being worked on; where the older one differs in what it does to shared state
(it loads the settings), the module says so and models both.  The build
without libcurl and mbedTLS is modelled, the Makefile's default.

## 2. The components

For each component: its state, its operations, how it meets the others, what
is hard about it, and what makes it correct.  "Module" names the TLA+ module
or says that there is none yet.

**Task queue and incremental copy** (`core/task_queue.c`, `file/fs_ops.c`;
modules `TaskQueue`, `FileJobs`).  *State*: a linked list of tasks, the
current one always its head; in a task its type, paths, cancel flag, progress
and `op_ctx`, which holds the two open files of a copy between frames.
*Operations*: add, one step per frame, cancel the current task, all or all but
the first, clear.  *Interactions*: fed by the explorer and the store, served
by whichever loop runs, drawn by the status bar.  *Hard*: a copy lives across
frames in which its files' paths are named by other tasks; every error path
must close and remove; `op_ctx` decides whether a task leaves.  *Correct if*:
the copy in progress can always be resumed, files change only as the served
task says, nothing is lost without being asked for, everything queued is
served in order.

**Application loop and screens** (`core/app.c`; module `App`).  *State*: the
tab (`current_state`), and which loop is running, which in the code is the
program counter.  *Hard*: each screen's loop has its own condition to go on
and its own idea of what to serve.  *Correct if*: the queue is served wherever
the user goes, and screens can be left.

**Homebrew store** (`features/hbstore_ui.c`, `hb_store.c`; module `App`).
*State*: the catalog, the list shown, a flag for a download in progress.
*Hard*: the list is not a copy but the catalog's own memory, which the refresh
frees.  *Correct if*: B leaves the store, a download is queued once.

**File explorer** (`file/file_explorer.c`, `file/file_org.c`,
`core/input_handler.c`; module `Explorer`).  *State*: the folder's path, the
list, the loader that fills it, the cursor kept twice, marks kept inside the
names.  *Operations*: load a batch, move, open, go up, delete, mark, bulk copy,
move or delete, reload by a shake, sort by tilting, leave.  *Hard*: every
operation can come while the folder is still being read, and each replaces
some of the state but not all of it.  *Correct if*: the list shows the folder
the path names, the cursor is on a line, operations act on the entry the user
chose, folder handles are closed.

**Network install, http download, downloads panel, task area**
(`game/nsp_manager.c:145`, `net/downloader.c`, `ui/ui_data.c`; module
`Downloads`).  *State*: the temporary files, 16 panel entries, the text of the
task area.  *Hard*: the network decides how the body is split between the
buffer that held the headers and the rest and where it is lost; the ways a
download ends leave different leftovers behind that the next one meets.
*Correct if*: success means the whole body, the panel shows the running
download once, others' entries survive, no partial file stays.

**Settings, automatic modes, parental PIN** (`settings.c`,
`applets/parental_applet.c`; module `Settings`).  *State*: the settings in
memory, flags derived from the mode, the file.  *Operations*: load, save, five
menu entries, one automatic decision per frame.  *Hard*: two conditions and a
manual choice compete for one mode; saving truncates first; loading happens in
one entry point only.  *Correct if*: modes do not alternate, the saver follows
battery and card, what was saved comes back.

The components above share the queue, the panel or the frame loop.  Those below
are called, do their work in one blocking call or a few, and share no variable
with one another.  The first five are composed in `Storage`, the others in
`Services` (section 3).

| Component, module | State | Hard | Correct if |
|---|---|---|---|
| Save manager (`save/save_manager.c`), `Saves` | the mounted save, one reader of the list of saves, files being copied | the error of one file is overwritten by the next; the loop over all saves shares its reader with the mounting of each; a kill leaves half a file | a call in which nothing failed copied everything, a restore replaces nothing, nothing stays open (but one reader for each loop over all saves) |
| Package installation and dumps (`game/nsp_manager.c`), `Packages` | placeholders and registered contents, the dump's header, the server's socket | a failure between creating, writing and registering; entries that are skipped | no placeholder outlives its installation, the header counts what follows it |
| Partitions and firmware (`system/system_manager.c`, `firmware_manager.c`), `Images` | partition, image, exported files, handles | a block fails in the middle, and a flush follows | what is reported as dumped or restored is whole, unless closing it lost the end; nothing stays open (but half of each failed mounting) |
| Title keys and tickets (`game/title_key.c`, `util/ticket_manager.c`), `Keys` | one file per key or ticket | written in place, reaches the card when closed, its result unchecked; identity is read back from the bytes | what is listed or exported is a key that was imported |
| Secured operations and verification (`security/secure.c`, `security/verify.c`), `Secured` | source and destination of a move, the buffer of the log | the source is wiped while the copy is the only other one | one whole copy at every step, unless the copy came out short, which the comparison does not find; no log entry lost that could be written |
| Listings and cleanup (`file/file_org.c`, `file/file_cleanup.c`), `FileOrg` | entries, counts and marks kept beside each other | filtering moves entries the counts are about | the count of the selected is off by exactly those of them that filtering, listing again or searching lost |
| Moves and folder rules (`file/fs_ops.c`, `features/auto_folders.c`), `Moves` | two places, open files, the cancel flag | rename falls back on copy and remove; cancelling, failing, power | the data is in one of the two places, unless a read or a close failed unnoticed |
| Installation helpers (`util/install.c`), `Installs` | the program, its `.bak`, its `.part`, a connection | several renames, none checked | the old program survives until the new one is there, but for an installation from the card without a backup; what is reported installed arrived whole, but for the failures the code does not look at |
| Http client (`net/simple_http.c`), `Http` | socket, buffer, address per request | up to four requests, each with its own exits | everything is given back, but the address at the redirect limit and a Location that is unused or repeated |
| Security modes, operation log (`security/security_mode.c`, `file/file_op_logger.c`), `Modes` | mode, access kept in a second variable, pin, guest session, protection | a long sequence of legal calls | outside normal mode, which asks for no pin, nothing is changed without a pin known; the rules of both paths hold |
| Logger (`logger.c`), `Logs` | the open file, its length, the one set aside | rotation fails between close, rename and open | the log stays within its bound, but for what was never counted |
| Favourites (`ui/ui_data.c:140`), `Favourites` | the list and its file | labels are cut, lines trimmed, files torn | no favourite twice, unless its label is cut, trimmed or what a torn line leaves; never too many |
| Start-up and the USB link (`core/main.c`, `core/app.c`, `net/usb_service.c`), `Startup` | services running, link, interface, endpoints | the start gives up half way | what is believed to run runs |
| Applet registry and state files (`core/applet_loader.c`, `memory_manager.c`, `state_manager.c`), `Applets` | slots, the memory's total, one file per applet | load, unload, suspend in any order; a kill while saving | a torn or foreign state is refused, the total covers what is used |
| Cryptography (`security/crypto.c`), `Digest` | the buffer of a digest | the pieces a message comes in; padding without room for the length | the digest is that of the message |
| Paths (`file/sdcard.c`, `file/fs.c`), `Paths` | tokens of a path | `..`, limits of the arrays | the path means what its segments say, as far as it was not cut, and stays below its root |
| Controls (`core/switch_controls.c`), `Controls` | held buttons, three counters | one counter for delay and repetition | holding repeats no faster than the interval |

Not modelled (reasons in section 8): the browser, drawing with its menus and
dialogs, the viewers, the credentials, the older program apart from its
settings.

## 3. Modules and code

| Module | Lines | Models |
|---|---|---|
| `TaskQueue` | 450 | `core/task_queue.c`, the incremental copy of `file/fs_ops.c` |
| `FileJobs` | 100 | what the queue promises: the abstract specification |
| `TaskQueueProofs` | 2040 | theorems about `TaskQueue`, and that it implements `FileJobs` |
| `App` | 260 | `core/app.c`, the store, the other loops as far as the queue goes; composes `TaskQueue` |
| `AppProofs` | 250 | the same for the queue as the application serves it |
| `Explorer` | 410 | `file/file_explorer.c` with its loader |
| `ExplorerProofs` | 1140 | theorems about `Explorer` |
| `Downloads` | 340 | network install, http download, panel and task area |
| `DownloadsProofs` | 930 | theorems about `Downloads` |
| `Settings` | 300 | `settings.c`, both entry points |
| `SettingsProofs` | 400 | theorems about `Settings` |
| `Storage` | 185 | composes the next five |
| `StorageProofs` | 965 | theorems about `Storage`: secured moves, the log, keys, what a restore keeps |
| `CallsProofs` | 2300 | what holds of `Storage` whenever a call has returned, and what a backup, a restore and an export have copied |
| `Saves` | 345 | `save/save_manager.c` |
| `Packages` | 220 | `game/nsp_manager.c` but for the network install |
| `Images` | 310 | `firmware_manager.c`, dump and restore of `system/system_manager.c` |
| `Keys` | 220 | `game/title_key.c`, `util/ticket_manager.c` |
| `Secured` | 205 | `security/secure.c`, `security/verify.c` |
| `Services` | 260 | composes the next twelve |
| `ServicesProofs` | 5820 | theorems about `Services` |
| `FileOrg` | 185 | `file/file_org.c`, `file/file_cleanup.c` |
| `Moves` | 190 | the blocking calls of `file/fs_ops.c`, `features/auto_folders.c` |
| `Installs` | 215 | `util/install.c` |
| `Http` | 160 | `net/simple_http.c` |
| `Modes` | 200 | `security/security_mode.c`, `file/file_op_logger.c` |
| `Logs` | 115 | `logger.c` |
| `Favourites` | 80 | the favourites of `ui/ui_data.c` |
| `Startup` | 150 | `core/main.c`, the start of `core/app.c`, `net/usb_service.c` |
| `Applets` | 180 | `core/applet_loader.c`, `core/memory_manager.c`, `core/state_manager.c` |
| `Digest` | 100 | SHA-256's buffering in `security/crypto.c` |
| `Paths` | 125 | `file/sdcard.c`, the listing in `file/fs.c` |
| `Controls` | 130 | `core/switch_controls.c` |
| `MC*` | 15-50 | values of the constants for TLC |

`PROJECT.json` maps each definition to its lines.

**TaskQueue.**  `queue` is the list from `task_queue_head`; `disk` what each
path holds; `handles` the tasks whose copy has its files open; `app` whether
the program runs.  `Process` is `task_queue_process`, with one disjunct for
each way a frame can go: `CopyRefused` and `CopyNoMemory` (`fs_copy_begin`
fails before or after the destination was emptied), `CopyChunk`, `CopyAborted`
(cancelled, or the write failed), `CopyCompleted`, `MoveCompleted`,
`DeleteDone`, `DeleteFailed`, `TodoDone` (the task types whose case is
empty or missing), `CopyCrashes` (a garbage `op_ctx` is followed).  Begin and first step
happen in the same frame, as in `task_execute`, so there is no state between
them.  `Add`, `CancelAll`, `CancelPending`, `CancelCurrent` and `Exit` are
what happens between frames.  Data is a sequence of chunks, one being what a
step moves.  The environment's faults are a constant: `"read"`, `"close"` and
`"shared"` are those that the code does not notice, the others those that it
reports.  `FreshOps` is what `malloc` may leave in `op_ctx`, which
`task_queue_add` does not set.  A new task's `op_ctx` that is garbage is one
value of the model: any pointer that is not null.  `Exit` is `task_queue_clear`
as an operation of the queue; the application would call it from `app_exit`,
which is never reached because nothing sets `running` to false.

**FileJobs** knows jobs in order of submission and a store of files.  The
destination of the job being served is *pending*; at its end it holds the
whole source, or nothing, or a prefix if the job gave up.  `TaskQueue!Jobs` is
the refinement mapping: a destination is pending while the head's copy is open
and shows what the card holds otherwise.  Half-written files are thereby
invisible except in the destination of the job being served.

**App.**  The program counter is `screen` (whose loop) and `phase` (where in
its round): serve, keys, and `bulk` or `check` behind the keys.  The home loop
and the explorer serve the queue in each round, and so does the store
(`features/hbstore_ui.c:69`); settings and downloads list only wait for keys.
`tools` has no step: `system_manager_show_menu` asks `ui_show_menu` in a loop,
which returns the first enabled entry at once.  `cache` and `list` are the
store's two pointers to one piece of memory; after it was freed any use of it
may end the program (`StoreCrashes`).  The explorer's menu for bulk operations
would, for the same reason, always choose its first entry; the model offers
copy, move and delete.  One screen per frame is opened.

**Explorer.**  A frame has three phases in the order of the loop: `Load`
(`file_explorer.c:214-277`), `Settle` (shake, tilt, clamping, 279-352), `Act`
(one button, 365-719).  A line has the entry's own characters and says what its first
one was overwritten with: that is the mark (551).  `loader` is `DirLoader`
with the entries it has still to read and, as in the code, a path of its own,
which differs from `cur` after the root was opened instead of a missing
folder.  Sorting may give any order, because the sort asks for dates and sizes
in another folder than the one shown.  The frame's early `continue` of the
button combination is a frame that only moves the cursor.

**Downloads.**  One install at a time, as stages: `headers`, `body`,
`install`.  `HeadersDone(k)` lets the network choose how many units of the body
are in the buffer with the headers.  They are written at once
(`downloader.c:372`) and, if the body is chunked, decoded and written again (393).
With `Faults` any write may leave something out, and closing the file too
(`Landed`, `Closed`): no result of `fwrite` or `fclose` is looked at.
A panel entry keeps 127 characters of a name: a long one is stored as a label
that is not `whole` and never equals the name again.

**Settings.**  `Frame` is `settings_check_auto_mode` as called from
`app_update`; `"menu"` stands for the settings menu and any other modal loop,
during which it is not called.  A save may not be able to open the file, or
write only a beginning; nobody is told, and `failed` counts such saves since
the last one that got through.  `Killed` cuts a save off behind any line, and
loading makes zeros of missing keys.  `FreeSpace` is 0:
`system_get_free_space` (`system/system_manager.c:158`) is a stand-in that
answers 0 and success.

**Storage, Services.**  One thread and no shared variables: a call of one part
neither sees nor changes the state of another.  A product of their states would
say nothing that the sum does not.  So a behaviour chooses its part in `running`
at first; the variables of the others are `Unused` and stay so (`Others`); and
`Next` has one disjunct per part.  The states of the parts add up.  Each
property of a composite is the conjunction of properties of its parts under
`running`, which the parts' modules define and explain.

**Calls in stages.**  `Saves`, `Packages`, `Images`, `Keys`, `Secured`,
`Moves`, `Installs` and `Http` have the same shape.  A variable `call` (`job`,
`work`, `move`) holds what the running call knows and its `stage`, which stands
for the program counter; every library call is a step that may fail as the code
allows it to; where something is kept on the card, the console may be switched
off between any two steps (`Kill`), which closes everything and leaves the card
as it is.  `rc` is what the call
returns.  `clean` is a history variable: it is true as long as nothing failed
without the code being told, or nothing failed at all, as each module says.
The properties need it, because the code's own result often does not tell.

**Saves.**  `saves` and `backup` hold what is in each title's save and on the
card.  `CopyChunk` ends a file also at a read that failed.  `held` is what is
open; `all` is the loop over all titles with its reader.  A folder is created
at the destination and its entries are not looked at.  `save_restore_title`
creates each file and fails where it exists: `MayMake`.  `leaked` counts the readers
that mounting a save opens over the one of that loop (`save_manager.c:52`), and
the loops.  `ListFill` may have no memory for an entry, or find it gone at the
second reading: it is counted in the list, and in `missed`.

**Packages.**  Whether an entry is a content is decided on a buffer nobody
filled, and the content's id is never set: both are arbitrary.
**Images.**  A partition has blocks; the emuMMC dump and restore move one per
step; calls which do nothing yet and report success are `Unwritten`; closing
the image may lose its end (`DumpEnd`), and mounting the firmware half way
leaves one file system open, which is counted.
**Keys.**  Files are sequences of units of eight bytes; what of a file was
written is on the card when it is closed, whole or a beginning.
**Secured.**  `secure_move_file` compares two arrays it never fills, so the
comparison may come out either way, of a copy that closing has cut off as well;
the log's buffer has room for `LogRoom`.

**FileOrg.**  A listing is a set of entries with the counts and marks beside
it; `Filter` loses the first entry, as the code does; `dropped` counts the
selected entries a listing has lost.  **Moves.**  `Rename` may
fail and then the copy is tried; `MakeFolders` makes a folder with the file's
own name.  **Installs.**  Three names, and renaming to one that is taken fails; what is
kept of a part that is closed may be a beginning of it (`Stored`); the source
of an installation from the card may be the program itself.
**Http.**  An answer is a kind and pieces; `memory` is what the call has
allocated; `met` is a history of what was met: a Location without a redirect,
two of them, no memory.  Buffers that could not be had end the program where the
code writes into them (`Down`).  **Modes.**  A path is the rules that match it;
copying and moving (`TwoPaths`) look at the rules of both; time passes in
minutes up to the guest's timeout.  **Logs.**  Lengths only; `missed` is what
went into a file without being counted: a line that failed, and what was there
when its length could not be told.  **Favourites.**  The line a kill tears is
`Broken`, which may be a label of its own.  **Startup.**
`phase` walks through `app_init` in its order, each service may fail; `link`,
`usb` are the link's state and what it has open.  **Applets.**  An applet of a
type without configuration is loaded with any; a state file is torn, or has a
type and data.  **Digest.**  A block is the sequence of its bytes; the digest is
the sequence of blocks compressed, compared with the padded message cut in
blocks.  **Paths.**  The reference definition is which names are not undone by a
`..` behind them; of a path that was cut (`long`) the segments are those of what
is left, and a name there was no memory for is `NoName`.  **Controls.**  One event a frame, the first of the code's
tests.

## 4. Runs and bounds

Runs that pass:

| Run | States | Shows |
|---|---|---|
| `TaskQueue_safety` | 771,182 | any order of three tasks, cancellations, exit and reported faults: the copy in progress is a prefix and resumable, handles are its own, progress is honest, files change only as the served task says, cancelling ends a copy |
| `App_screens` | 346,524 | any way through the screens with three tasks: served whenever the user comes round to a loop that serves; the queue implements `FileJobs` |
| `Explorer_browse` | 183,638 | the list belongs to the folder, small folders are whole, the cursor is on a line, handles follow the loader, the placeholder goes |
| `Downloads_safety` | 5,414,945 | panel, task area and temporary files over four installs in a row, with writes that fail unnoticed |
| `Settings_modes` | 1,752,720 | one frame decides, the savers are entered, restarts, kills and failed saves bring back what was in force, unless the last save failed |
| `Storage_calls` | 2,084,170 | saves, packages, partitions, keys, secured files, with every call failing and kills anywhere: what nothing failed in is whole, what is reported is so as far as the code looks, placeholders go, keys are genuine, one copy survives a move whose copy was whole, nothing stays open but the two leaks, counted |
| `Services_parts` | 256,687 | the twelve services: counts, moves, memory, access, bounds, what runs, paths and digests against reference definitions, repetition |

The bounds, and why they show what can happen:

- *TaskQueue, App*: two paths, two chunks, files of two chunks, three tasks.
  A copy involves two paths, and every interference is between the task being
  served and one that names one of the same paths or stands behind it; a third
  task makes a queue with a middle.  Two chunks per file make a copy that is
  begun, resumed and finished in different frames; their order is visible, so
  that a repeated or skipped chunk shows.  One path starts with any of: no
  file, an empty file, a full one, an empty folder, one with entries.
- *Explorer*: a batch of two instead of 40, a root of three entries (more than
  a batch) and a folder of one (less), names that become each other when
  their first character is lost, paths of two names, an index up to 5, at most
  two handles.  `MaxDepth` stops the user from going ever deeper through `..`;
  the folder opened, deeper than two, would be the same two again.
- *Downloads*: two panel entries for three names, so the panel is full and one
  has to give way; one of the names too long; bodies of 0 to 2 units, so that
  nothing, a part or all of one arrives with the headers; four installs, enough
  for the leftovers of each kind of end to meet each kind of successor.
  Connections are lost and writes fail (`Drops`, `Faults`).
- *Settings*: charge unknown, below a threshold the menu reaches, above all; no
  file, or one with every value different from the default.  `MaxFailed`, 1, bounds
  the failed saves counted; the state is otherwise that of the code.
- *Storage*: two titles with two entries of up to two chunks (an entry that is
  copied, one that is not there or is a folder, an entry behind a failed one);
  packages of two contents, one of them shorter than its table says, one with
  an empty content; partitions of two blocks; two ids, with whole tickets and
  ones that are cut off or empty; a log with room for two entries of three; one
  leak of each kind (`MaxLeaky`).
- *Services*: three things in a folder and one below it; two places; programs
  of one and two pieces; four requests (`MaxRequests`, as in the code) and two
  addresses; a path under each kind of rule; a log of at most 3 units and lines
  of at most 2, with up to 3 uncounted (`MaxMissed`); three favourites of which
  one is cut and one trimmed, and another is what a torn line leaves; three
  registrations of the link (`MaxRegistrations`); two applets (`MaxLoaded`), so
  that the registry fills; blocks of 4 bytes with 2 for the length and messages
  up to 6 (`MaxMessage`), so that every filling of the last block is met, with
  and without room for the length; paths of 4 segments
  with room for 2 names while they are read and for 1 when they are put together; delays
  of 3 frames instead of 10 and 4.

Deadlock is checked in Settings and Storage.  The others stop where the system
does: at the bound on tasks or installs with nothing left to do, after a crash,
with the user in the system tools, or (Services) when the program did not start
or has ended.

Every property of a passing run has a mutant of the code, in `PROJECT.json`,
for which TLC finds it violated, a property about several parts one for each of
those that matter: mutants are the operators named "Mutant of"
in the modules.

## 5. Fairness

Only loops are fair.  `TaskQueue!FairSpec` has `WF(Process)` for the frame
loop; `App!FairSpec` has `WF(Frame)`, where `Frame` holds what a running loop
does in each round and leaves out closing a menu, which is up to the user;
`Explorer!FairSpec` that its loop goes round; `Settings!FairSpec` that frames
come while no menu is open.  `Storage` and `Services` have none: their parts are
called by the user, who owes no call.  The user owes nothing: no fairness makes anybody
cancel, leave or select.  The network, the battery and the file system owe
nothing either.

The queue's fairness by itself would be too much for the program, since
settings and downloads list stop serving it.  `App` is where it is justified:
`EveryTaskServed` says tasks are served if the program does not crash and
comes round to a serving loop infinitely often, and its mutant, a store that
does not serve, shows that the antecedent does not do all the work.
`PlaceholderGoes` supposes that the user does not reload for ever, since each
reload begins the list anew; `SaverFollowsCondition` that the condition lasts.

## 6. Proofs

Every invariant and every action property of the passing runs, and the
refinement of `FileJobs`, is stated by a theorem; the run shows it on a small
instance and the theorem for every value of the constants.  What TLC alone
checks is at the end of this section.

### The task queue

`TaskQueueProofs` proves, for any sets of paths and chunks, any contents of
the card, any number of tasks, any faults and either content of `op_ctx`, unless
a hypothesis says otherwise:

| Theorem | States |
|---|---|
| `TypeCorrect` | `Spec => []TypeOK`; progress stays within 0..100 |
| `OneOpenCopyHolds` | `Spec => []OneOpenCopy` |
| `CopiedPrefixHolds` | `Spec => []CopiedPrefix` |
| `CancelTakesEffectHolds` | `Spec => CancelTakesEffect` |
| `NoSilentLossHolds` | `Spec => NoSilentLoss`, if `Faults` has none of `"read"`, `"close"`, `"shared"` |
| `AggregateHonestHolds` | `Spec => []AggregateHonest` |
| `FileJobsImplemented` | `Spec => ImplementsFileJobs`, under the same hypothesis and if `op_ctx` starts null (`CleanContexts`) |

The only assumption on the constants is `ConstantsAssumption`, which TLC
evaluates in each run of the module.

The inductive invariant is `IInv == TypeOK /\ OneOpenCopy /\ CopiedPrefix`.
No part of it is inductive alone.  That the percentage is at most 100 needs
that the total `stat` reported is still the source's length (`CopiedPrefix`).
That a step extends a prefix to a prefix needs that the destination was one,
that it is not the source, and that nothing changed the source since the copy
began, which is so because no other task has been served.  When the head
leaves, the next task becomes the head, and it satisfies `CopiedPrefix` only
because it holds no open copy (`OneOpenCopy`).  The proof has one lemma per
kind of step: a task leaves (`CopyEndsKeepIInv`, on `RetireKeepsIInv`), a chunk is
copied (`CopyChunkKeepsIInv`, on `ExtendPrefix`), a delete stays
(`StayKeepsIInv`), other tasks, and the user's.

`NoSilentLoss` is an action property and uses the invariant: at the end of the
source an open copy has counted all chunks (`WholeAtEnd`), and its destination
is the prefix it counted, therefore the source.  The hypothesis is necessary:
`TaskQueue_read_fault` is the counterexample without it.

`FileJobsImplemented` is the refinement, step by step (`StepPromised`): the
jobs are the tasks of the queue and the card seen by their user, on which the
destination of an open copy is pending.  Opening a copy claims the destination,
further chunks are stutters, and a task that leaves delivers the whole source
(by `WholeAtEnd` again) or gives up with a prefix (by `CopiedPrefix`).  The
invariant is `CleanInv`: `IInv`, and no task carries garbage in `op_ctx`.
Both hypotheses are necessary: with read errors a job delivers part of a file
(`TaskQueue_read_fault`), and with garbage a delete is carried out and stays
(`TaskQueue_garbage_op`).

`AggregateHonest` is about a mean: it is at most 100, and 100 only if every
task is.  Of the recursive sum in it, `SumBound` shows that a partial sum is at
most 100 for each element, less what any one of them falls short of 100.

### The application

`AppProofs` proves `TypeCorrect` (`Spec => []TypeOK`) and
`QueueImplementsFileJobsHolds` (`Spec => QueueImplementsFileJobs`, under
the same two hypotheses): what the queue promises survives the other loops.  The
argument uses `TaskQueueProofs` as an instance: a step of the application is a
step of that queue, or leaves the queue's state alone, or is a crash in the store, which
neither the list nor the card shows.

### Saves, packages, partitions, keys, secured files

`StorageProofs` and `CallsProofs` prove all eight properties of the run
`Storage_calls`, for any sets of titles, names, packages, partitions, firmware,
tickets and files, any lengths, and any decryption:

| Theorem | States |
|---|---|
| `OneCopySurvivesHolds` | `Spec => []OneCopySurvives` |
| `LogKeptHolds` | `Spec => []LogKept` |
| `KeysGenuineHolds` | `Spec => []KeysGenuine` |
| `RestoreKeepsExistingHolds` | `Spec => []RestoreKeepsExisting` |
| `PlaceholdersSettledHolds` | `Spec => []PlaceholdersSettled` |
| `ReportsTrueHolds` | `Spec => []ReportsTrue` |
| `NothingOpenHolds` | `Spec => []NothingOpen` |
| `CopiesWholeHolds` | `Spec => []CopiesWhole` |

The assumptions on the constants, all in `Storage` and evaluated by TLC in its
run, say what the contents are made of: `DataAssumption`, `NandsAssumption`,
`FirmwaresAssumption` and `SavesAssumption` that files, partitions and entries
are finite sequences and that what is missing has no content,
`KeysAssumption` that two units decrypt to two.

The state is that of one part, so an invariant of a part is stated as
`running = "..." => ...` and only that part's steps can disturb it.  They are:

- *`MoveInv`*: until the source is wiped it is what it was; what is copied is a
  beginning of it, and all of it once the comparison begins if nothing was lost
  unnoticed (`clean`); then the copy is whole while the source is wiped.  The
  theorem says nothing of a copy that came out short, which the comparison
  (`secure.c:291`) does not find and `secure.c:301` promises to.  `OneCopySurvives` alone is not inductive: nothing
  in it says why the copy is whole when the wiping begins.
- *`LogKept`* with the log's type is inductive.
- *`KeysInv`*: every key file, and what is being written to one, reads as a key
  only if an import decrypted it (`Decrypted`).  A file may hold any beginning
  of what was written, so this must hold of beginnings (`DecryptedPrefix`).
- *`SavesInv`*: the entry a restore is writing was missing when the call began.
- *`PackagesInv`*: the only placeholder is that of the entry being written
  (`OwnPlaceholder`); a dump counts the contents it has begun, except the one
  being copied (`Counted`).
- *`ImagesInv`*: a dump is a beginning of the partition, and all of it once the
  loop has ended well, unless closing it lost the end; in a restore the
  partition is the image before some block and as it was from it on
  (`RestoredTo`), and the blocks still to do are those from it on.
- *`CallsInv`*: between calls only the reader of the loop over all saves is
  open, and only while the loop runs (`Closed`).  What the code leaks is counted:
  at most one reader for each loop over all saves, and one file system for
  each failed mounting of the firmware; `NothingOpen` says there is no more.
  Every entry of a list of titles is filled or counted as missed.
- *`CopyInv`, `ExportInv`*: as long as nothing failed, what the call is through
  with agrees on both sides (`Agree`, `Through`), and what it copies is a
  beginning.  `CopyInv` needs `Closed`, for the file system of a save is open
  only if the save was in the list, and it needs that what is to be restored is
  in the backup, or a missing entry would be copied as a file.

### Downloads, settings, explorer

| Theorem | States |
|---|---|
| `DownloadsProofs!TypeCorrect` | `Spec => []TypeOK` |
| `OneEntryEachHolds` | `Spec => []OneEntryEach` |
| `AreaBackedHolds` | `Spec => []AreaBacked` |
| `HundredIsWholeHolds` | `Spec => []HundredIsWhole` |
| `KeptOnlyForRetryHolds` | `Spec => []KeptOnlyForRetry` |
| `OthersUntouchedHolds` | `Spec => OthersUntouched` |
| `ZeroMeansWholeHolds` | `Spec => []ZeroMeansWhole`, if no connection is lost (`Drops = FALSE`), every write and close does its work (`Faults = FALSE`) and no body is chunked |
| `SettingsProofs!TypeCorrect` | `Spec => []TypeOK` |
| `OneFrameSettlesHolds` | `Spec => []OneFrameSettles` |
| `SettingsSurviveRestartHolds` | `Spec => SettingsSurviveRestart`, which speaks of restarts whose last save got through |
| `ExplorerProofs!TypeCorrect` | `Spec => []TypeOK` |
| `ShownBelongsToCurHolds` | `Spec => []ShownBelongsToCur` |
| `SmallFolderWholeHolds` | `Spec => []SmallFolderWhole` |
| `HandlesFollowLoaderHolds` | `Spec => HandlesFollowLoader` |

For any names, number of slots and lengths of bodies; any charges and files of
settings; any tree, size of a batch and number of handles.

- *Downloads*: `IInv` adds two things to the properties.  An entry stored under
  a whole label has a short name (`Labels`), so the next update finds it again
  instead of taking a second slot; long names are the exception `OneEntryEach`
  states.  And an entry is at 0 while the headers are read (`Progress`),
  whatever an earlier download of the same name left; without it
  100 could be the earlier one's.  `OthersUntouched` goes over the slots an
  update may take (`StepTouches`).  `ZeroMeansWhole` is what the comment in
  the source promises; `Downloads_truncated` is the counterexample
  without the first hypothesis, and without the second a full card does the
  same.  The theorem says that a body that is not chunked comes out short in no
  other way.
- *Settings*: that a restart brings back what is in force is a property of a
  step; the invariant behind it is `InForce`, that loading the file at any
  moment would do so, unless the last save failed.  Every step that changes the settings of the older entry
  point must therefore save them.  `OneFrameSettles` follows from the types:
  applying the rules of the modes twice is applying them once (`CheckedTwice`).
- *Explorer*: `ShownBelongsToCur` is not inductive, as the next batch might be
  anything.  What is left to read belongs to the folder shown too, holds no
  name twice and none that is already on the list (`Reading`), also after an
  entry of that folder was deleted while it is being read (`CardKept`).  A small
  folder is whole because nothing is taken from it before the last
  batch.  `HandlesFollowLoader` needs `HandleKept`.

### The services

`ServicesProofs` proves all eight properties of the run `Services_parts`; as in
`Storage`, each part has its invariant, which only its own steps can disturb:

| Theorem | States | Invariants |
|---|---|---|
| `AccessHeldHolds` | `Spec => []AccessHeld` | `GuardInv` |
| `KeptInBoundsHolds` | `Spec => []KeptInBounds` | `LogsInv`, `FavInv` |
| `RepeatsPacedHolds` | `Spec => RepeatsPaced` | `PaceInv` |
| `StandingHolds` | `Spec => []Standing` | `StartInv`, `AppletsInv` |
| `SettledHolds` | `Spec => []Settled` | `HttpInv` |
| `NothingLostHolds` | `Spec => []NothingLost` | `MoveInv`, `InstallInv` |
| `CountsCoverHolds` | `Spec => []CountsCover` | `OrgInv` |
| `ComputedHolds` | `Spec => []Computed` | `PathsInv`, `DigestInv` |

- *`GuardInv`* is what `AccessHeld` says: both its parts are inductive.  It says
  nothing of normal mode, and nothing of what is left after locking to somebody
  who once knew the pin.
- *`LogsInv`*: the size counted is behind the file that is open by no more than
  what was never counted, so that rotation comes in time but for that.
  *`FavInv`*: a label kept as it is occurs once, on the list and in the file,
  since loading makes no such label out of another one (`TrimmedOwn`); what a torn
  line leaves, and what that is trimmed to, are excepted.
- *`PaceInv`*: the counter of a held button beyond the delay is a lower bound on
  the frames since its last event.
- *`StartInv`*: the services up to the one being started are up or can be done
  without.  *`AppletsInv`*: the total counts every slot ever used, and a
  state, in memory or in a file, is one an applet of that type had.
- *`HttpInv`*: while a request is answered it holds nothing that it will
  return; between two requests, the address alone; and at any time the copies of
  a Location that `met` accounts for.
- *`MoveInv`*: until the call ends its source is what it was, and what is copied
  is a beginning of it; all of it once the copy is closed, if nothing failed
  unnoticed.  *`InstallInv`*: the old program is in its place or in the backup's,
  unless one is installed from the card without a backup,
  and what was received is, with what the connection still has to say, the
  program.
- *`OrgInv`*: a listing has its type for some room (`Listings`), and the count of the selected is
  theirs and that of the ones lost; what is freed is
  the sum over the files to delete, a sum over a finite set.
- *`PathsInv`*: `Places` says of each name kept from which segment it is and
  that the segments after it have as many names as parents; the name may be
  `NoName`.  That is what
  the reference definition needs (`FollowedMeans`), and each segment keeps it
  (`WalkOn`): a parent removes the last name with its segment.
- *`DigestInv`*: `Cuts(x, s)` says that the sequence of blocks `s` is the beginning
  of `x`, cut.  What was compressed and what is in the buffer is the message so
  far (`UpdateStep`), and once the end mark and the length are there
  the padded message (`FinishStep`), whether they fit the last block or need
  another one.

### Assumptions and method

The theorems assume of the constants what their modules state, and TLC evaluates
in the runs: `ConstantsAssumption` in `TaskQueue`, `Downloads`, `Explorer` and
`Settings`; `CardAssumption` in `Explorer` (a folder holds no name twice);
`QueueAssumption` and `StoreAssumption` in `App`; those of `Storage` named
above; and in `Services` one for each part that needs it: finitely many things
in a folder, files and bodies that are sequences, a line that fits into an
empty log, blocks with room for the length, names that are none of the marks of
a segment, and labels of which trimming twice is trimming once and no beginning
is the label.

Sums over sequences and finite sets, the flattening of blocks and the positions
in a path are defined by recursion.  What is said of them for every length is
shown by a least counterexample: the set of counterexamples would have a
minimal element in the order of the naturals (the library's theorem on
well-founded relations that has no operator as a parameter), and it has none.

The proofs changed two models.  In `Installs`, whether what arrived is whole was
decided again when the body had been read, and the alternative that throws a
piece away had no guard that there was one; `InstallInv` was false of both, and
they are now as in `util/install.c`.  In `Paths`, the segment between two
slashes is a value of its own, `"empty"`.

Only model-checked are the liveness properties, which use fairness and `ENABLED`
and are out of the prover's reach (`EveryTaskServed`, `PlaceholderGoes`,
`SaverFollowsCondition`), and the properties of section 7, which the code does
not have.

## 7. Findings

Each is a run that TLC ends with a counterexample to what the repository says
of itself; `PROJECT.json` quotes the line.

- `TaskQueue_read_fault`: `fread` returning nothing is "EOF" also after a read
  error (`file/fs_ops.c:122`).  A move then removes a source of which only a
  part was copied.
- `TaskQueue_garbage_op`: `op_ctx` of a new task is never set
  (`core/task_queue.c:48`).  If it is not null, a delete stays at the head for
  ever, done in the first frame and failing in every later one, and nothing
  behind it is served.
- `Downloads_truncated`: a connection lost inside a body with a Content-Length
  is reported as success (`net/downloader.c:438`).
- `Explorer_bulk`: the mark overwrites the name's first character
  (`file/file_explorer.c:551`), and bulk operations use the rest of it (677),
  another path.
- `App_store`: B in the store sets the state in which the loop goes on
  (`features/hbstore_ui.c:87`, `core/app.c:266`).

In three more places the repository disagrees with itself.  The models do
what the code does, and the properties that pass name the exception:

- *Battery and card* (`settings.c:196-208`): with a low battery and a full card
  the check chooses the battery saver and returns.  The repository's self test
  `test_auto_mode_switching` (`settings.c:32-43`, called by nothing) demands,
  whatever the battery, that a free space below the threshold leaves the program
  in the storage saver, "Storage saver not triggered" (38).
  `SaverFollowsCondition` follows the code and the comment at line 196 ("higher
  priority"); the test would fail where the battery is low.  Its demand of a
  refresh of at least 500 in the battery saver (63) is met by none of the values
  the code sets.
- *Unverified move* (`security/secure.c:284`, "Verify the copy", and 301, "Only
  remove source after successful copy and verification"): what is compared (291)
  are two arrays nobody fills.  Where they come out equal, a copy that a failed
  read ended early (271) or whose end `fclose` lost (281) is not noticed, and
  the source is wiped.  `OneCopySurvives` says `clean` for this.
- *Locking* (`security/security_mode.c:308`, and 124 for a wrong pin after the
  right one): what takes the verification of the pin back leaves
  `current_access` as it is, in a mode called "PIN-protected access"
  (`security/security_mode.h:12`) on a screen that says "Enter PIN to unlock:" (298).
  `ChangesNeedPin` therefore speaks of pins known since the mode was chosen.

What the code does elsewhere that a reader may not expect is in the models, and
stated in the comments of the definitions and of the properties it limits.  No
line of the repository says otherwise:

- `Downloads`: no result of `fwrite` or `fclose` is looked at
  (`net/downloader.c:372`, 423, 439), so a full card gives success too.
- `Settings`: a save that cannot open its file returns and says nothing (77).

- A folder of 40 entries or more shows only its last batch once it is loaded
  (`file/file_explorer.c:261`); names of 128 characters or more take a new panel
  entry with each update (`ui/ui_data.c:93`).
- The application never calls `load_settings`; what its menu saved is not in
  force after a restart (module `Settings`, entry `"core"`).
- `Saves`: a backup of all saves stops after the first, which closes the shared
  reader (`save/save_manager.c:302`); the failure of one file is overwritten by
  the next entry's result (132); what is in folders is not copied; a restore
  replaces nothing, so that one cut off cannot be repeated.
  Mounting a save opens its reader over the one of that loop, which nobody
  closes (52).  An entry of the list of titles without memory is counted and
  holds nothing (362).
- `Images`: dumping the whole NAND says it succeeded and does nothing
  (`system/system_manager.c:206`, 484); a torn image keeps an `emummc.ini` of
  before; closing the image may lose its end (388); a firmware partition mounted
  half way stays open (`firmware_manager.c:29`).
- `Keys`: the title's id of an imported ticket is overwritten with half of its
  key (`util/ticket_manager.c:306`); what is imported under the one cannot be
  removed under the other.
- `Moves`: organising moves nothing by renaming, as a folder with the file's own
  name was made first, in a dry run too (`features/auto_folders.c:110`).
- `FileOrg`: filtering always loses the first entry, and the count of the
  selected ones is not adjusted (`file/file_org.c:326`).
- `Installs`: closing the part may lose its end before it is renamed into the
  program's place (`util/install.c:192`, 256, 324); a program installed from its
  own place that could not be renamed aside empties itself and reports success
  (313-325).
- `Http`: giving up at the redirect limit leaks the address (`net/simple_http.c:203`);
  a Location in an answer that is no redirect leaks, and so does one
  with another behind it (141).
- `Modes`: normal mode can be chosen without a pin (`security/security_mode.c:62`).
- `Startup`: the link's first command is sent in a state that refuses it, so
  that the link is never ready (`net/usb_service.c:153`); enabling the interface
  may fail in a state in which stopping does nothing (145).
- `Applets`: slots are never used again, and the memory of an unloaded applet is
  set to zero before it is taken from the total (`core/applet_loader.c:176`).
- `Logs`: rotation renames the first file though another one is open
  (`logger.c:93`); a line that fails is not counted, written in part or not
  (136).  `Favourites`: a label longer than what the list keeps is
  never found again (`ui/ui_data.c:174`).
- `Paths`: a path with `sdmc:/` that is too long is cut, one with `/` refused
  (`file/sdcard.c:55-58`); a name there was no memory for is written as
  "(null)" (95, 110).

## 8. What is left out

Not modelled:

- *Drawing, menus, dialogs* (`ui/`): output.  That `ui_show_menu` returns at
  once with the first enabled entry is taken into account where it matters; the
  menus around firmware, rules and system tools, which loop on it, are not.
- *Viewers*: a message each.  *Browser*: the Makefile leaves it out, its stubs do
  nothing.  *Credentials*: one line in a file, no caller.
- *The older program*: an earlier version of the same functions.  Where it
  differs in shared state (the settings) it is modelled.
- *Transfers over the USB link* (`net/usb_service.c:211-375`): unreachable, since
  the link is never ready.
- *Computation on bytes*: the compression of SHA-256, hmac, key derivation,
  decryption of title keys, checks of keys and tickets that keep nothing
  (`titlekey_verify`, `ticket_personalize`, the validations of
  `security/secure.c`), parsing of json, extraction of archives.
- *Reports*: the parental log and web report, the logger's export, the store's
  stubs, `nsp_convert` and the dumps of `file/fs.c` (both do nothing), names shown
  for titles.
- *Libraries*: https by libcurl, the console's file system and services.  A call
  does what it says or fails; whether a save's changes are committed, or the
  card keeps what was flushed, is the library's.

Abstracted in what is modelled:

- Strings are members of small sets, except names in the explorer, where the
  first character matters, and paths, which are segments.  Path lengths are
  short enough for the buffers, except in `Paths`.
- Drawing, rumble, icons, and the explorer's window on its list.
- In the explorer one button per frame; the code would handle several in turn.
- A folder's entries change only through the explorer itself, in module
  `Explorer`; the queue's changes to the card are in `TaskQueue` and `App`.
- The properties dialog, the selection of a folder for a caller.

## 9. Plan

1. *Done*: `TaskQueue` with its abstract specification and proofs, `Downloads`,
   `Settings`, `Explorer`, `App` composing queue and screens.
2. *Done*: the services, composed in `Storage` and `Services`.
3. *Done*: the functions that compute, `Paths`, `FileOrg` and `Digest`, against
   reference definitions.
4. *Done*: every invariant and action property of the passing runs proved, and
   that the queue, alone and in the application, implements `FileJobs`.
5. *Left*: an abstract specification of a download (its panel entry, area and
   temporary file as one job) that `Downloads` implements.  The liveness
   properties stay with TLC.
