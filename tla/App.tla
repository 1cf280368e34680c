-------------------------------- MODULE App --------------------------------
(***************************************************************************)
(* The application (core/app.c): the home screen's frame loop, the modal   *)
(* screens it opens, among them the homebrew store (features/hbstore_ui.c, *)
(* hb_store.c), and the task queue all of them share.                      *)
(*                                                                         *)
(* The program has one thread.  A modal screen is a loop of its own inside *)
(* the handling of one frame's keys, so that while it is open the home     *)
(* loop does not serve the queue.  The file explorer and the store serve   *)
(* it themselves, before they look at the keys; the settings menu and the  *)
(* list of downloads do not; the system tools never return.                *)
(*                                                                         *)
(* The queue and what serving it does are module TaskQueue.  Of the        *)
(* explorer only what reaches the queue is here (module Explorer has the   *)
(* rest).  In one frame of the home screen at most one screen is opened.   *)
(***************************************************************************)
EXTENDS Naturals, Sequences

CONSTANTS
  Path, Chunk, Disks, MaxTasks, Faults, FreshOps, \* as in module TaskQueue
  Urls,      \* the paths that stand for the urls of the store's entries
  Catalogs   \* whether hbstore_init found a catalog, a subset of BOOLEAN

VARIABLES
  queue, disk, handles, added, app,  \* as in module TaskQueue
  screen,      \* whose loop is running
  phase,       \* what that loop does next
  tab,         \* current_state
  cache,       \* what s_app_cache points to
  list,        \* apps: nothing, or the same as s_app_cache
  downloading  \* the store's flag

Q == INSTANCE TaskQueue

ASSUME QueueAssumption ==
  /\ MaxTasks \in Nat
  /\ Faults \subseteq Q!AllFaults
  /\ FreshOps \subseteq {Q!NullOp, Q!GarbageOp}
  /\ Disks \subseteq [Path -> Q!Node]

ASSUME StoreAssumption == Urls \subseteq Path /\ Catalogs \subseteq BOOLEAN

jobs  == <<queue, disk, handles, added, app>>
store == <<cache, list, downloading>>
vars  == <<jobs, screen, phase, tab, store>>

Screens == {"home", "explorer", "store", "settings", "downloads", "tools"}
Tabs    == {"browser", "nsp", "tools"}

\* Those whose loop serves the queue.
Serving == {"home", "explorer", "store"}

-----------------------------------------------------------------------------
(* Moving on: the next phase of a loop, and of which loop.                 *)

Running(s, p) == app = "running" /\ screen = s /\ phase = p

Go(s, p) == screen' = s /\ phase' = p

\* Mutant of Served: the queue is not served while the store is open.
ServedUnlessStore ==
  IF queue = <<>> \/ screen = "store" THEN UNCHANGED jobs ELSE Q!Process

\* One call of task_queue_process, or none if nothing is queued.
Served == IF queue = <<>> THEN UNCHANGED jobs ELSE Q!Process

Serve ==
  /\ \E s \in Serving : Running(s, "serve") /\ Go(s, "keys")
  /\ Served
  /\ UNCHANGED <<tab, store>>

-----------------------------------------------------------------------------
(* The home screen: app_process_input.                                     *)

\* L and R switch the tab, on the browser's tab only.
SwitchTab == tab' \in IF tab = "browser" THEN Tabs ELSE {tab}

HomeKeys ==
  /\ Running("home", "keys")
  /\ SwitchTab
  /\ Go("home", "serve")
  /\ UNCHANGED <<jobs, store>>

\* Plus opens the settings, in every tab, before anything else is looked at.
OpenSettings ==
  /\ Running("home", "keys")
  /\ Go("settings", "keys")
  /\ UNCHANGED <<jobs, tab, store>>

\* The other screens open from the browser's tab, also in the frame that
\* leaves it.
Open(s) ==
  /\ Running("home", "keys")
  /\ tab = "browser"
  /\ SwitchTab
  /\ Go(s, IF s \in Serving THEN "serve" ELSE "keys")
  /\ UNCHANGED <<jobs, store>>

\* B, or the last entry of the settings: app_update follows.
Return ==
  /\ \E s \in {"settings", "downloads"} : Running(s, "keys")
  /\ Go("home", "serve")
  /\ UNCHANGED <<jobs, tab, store>>

-----------------------------------------------------------------------------
(* The file explorer, as far as the queue goes.                            *)

ExplorerKeys ==
  /\ Running("explorer", "keys")
  /\ Go("explorer", "bulk")
  /\ UNCHANGED <<jobs, tab, store>>

LeaveExplorer ==
  /\ Running("explorer", "keys")
  /\ Go("home", "serve")
  /\ UNCHANGED <<jobs, tab, store>>

\* Minus.
CancelTask ==
  /\ Running("explorer", "keys")
  /\ Q!CancelCurrent
  /\ Go("explorer", "bulk")
  /\ UNCHANGED <<tab, store>>

\* A bulk operation queues a task for each marked entry.
BulkAdd ==
  /\ Running("explorer", "bulk")
  /\ \E type \in {"copy", "move", "delete"}, src, dst \in Path :
       Q!Add(type, src, dst)
  /\ UNCHANGED <<screen, phase, tab, store>>

ExplorerDone ==
  /\ Running("explorer", "bulk")
  /\ Go("explorer", "serve")
  /\ UNCHANGED <<jobs, tab, store>>

-----------------------------------------------------------------------------
(* The homebrew store.                                                     *)

StoreIdle ==
  /\ Running("store", "keys")
  /\ Go("store", "check")
  /\ UNCHANGED <<jobs, tab, store>>

\* A queues a download, which the queue does not implement.
StoreSelect ==
  /\ Running("store", "keys")
  /\ ~downloading /\ list = "cache"
  /\ \E url \in Urls : Q!Add("todo", url, url)
  /\ downloading' = TRUE
  /\ Go("store", "check")
  /\ UNCHANGED <<tab, cache, list>>

\* Mutant of StoreRefresh: that there is no catalog is not noticed.
RefreshShowing ==
  /\ Running("store", "keys")
  /\ cache' = IF list = "cache" THEN "freed" ELSE cache
  /\ list' = "cache"
  /\ Go("store", "check")
  /\ UNCHANGED <<jobs, tab, downloading>>

\* Y frees the list, which is the cache itself, and asks for it again.
StoreRefresh ==
  /\ Running("store", "keys")
  /\ cache' = IF list = "cache" THEN "freed" ELSE cache
  /\ list' = IF cache = "none" THEN "null" ELSE "cache"
  /\ Go("store", "check")
  /\ UNCHANGED <<jobs, tab, downloading>>

\* B.
StoreBack ==
  /\ Running("store", "keys")
  /\ tab' = "browser"
  /\ Go("store", "check")
  /\ UNCHANGED <<jobs, store>>

\* The flag holds as long as a download is the current task.
FlagChecked ==
  downloading' =
    (downloading /\ queue # <<>> /\ Head(queue).type = "todo")

\* The loop goes on while the tab is the browser's.
StoreStays ==
  /\ Running("store", "check")
  /\ tab = "browser"
  /\ FlagChecked
  /\ Go("store", "serve")
  /\ UNCHANGED <<jobs, tab, cache, list>>

StoreExits ==
  /\ Running("store", "check")
  /\ tab # "browser"
  /\ FlagChecked
  /\ cache' = IF list = "cache" THEN "freed" ELSE cache
  /\ list' = "null"
  /\ Go("home", "serve")
  /\ UNCHANGED <<jobs, tab>>

\* Showing, copying or freeing a list that was freed may end the program.
StoreCrashes ==
  /\ app = "running" /\ screen = "store"
  /\ list = "cache" /\ cache = "freed"
  /\ app' = "crashed"
  /\ UNCHANGED <<queue, disk, handles, added, screen, phase, tab, store>>

-----------------------------------------------------------------------------

Init ==
  /\ Q!Init
  /\ screen = "home" /\ phase = "keys" /\ tab = "browser"
  /\ \E found \in Catalogs : cache = IF found THEN "live" ELSE "none"
  /\ list = "null"
  /\ downloading = FALSE

\* What a loop does in every round, whatever the keys are.
Frame ==
  \/ Serve
  \/ HomeKeys \/ OpenSettings
  \/ \E s \in Screens \ {"home"} : Open(s)
  \/ ExplorerKeys \/ LeaveExplorer \/ CancelTask \/ BulkAdd \/ ExplorerDone
  \/ StoreIdle \/ StoreSelect \/ StoreRefresh \/ StoreBack
  \/ StoreStays \/ StoreExits

Next == Frame \/ Return \/ StoreCrashes

Spec == Init /\ [][Next]_vars

\* The loops go round; the user need not leave a menu.
FairSpec == Spec /\ WF_vars(Frame)

-----------------------------------------------------------------------------
(* Properties.                                                             *)

\* Every variable has its type; in particular the store shows a list only
\* if there is or was a catalog.
TypeOK ==
  /\ Q!TypeOK
  /\ screen \in Screens
  /\ phase \in {"serve", "keys", "bulk", "check"}
  /\ tab \in Tabs
  /\ cache \in {"none", "live", "freed"}
  /\ list \in {"null", "cache"}
  /\ list = "cache" => cache # "none"
  /\ downloading \in BOOLEAN

\* Wherever the user goes, between any two screens and back, a queued task
\* is eventually served and freed, if only the program comes round to a loop
\* that serves the queue again and again; opening and closing menus in every
\* frame does not starve it.
EveryTaskServed ==
  [](app = "running") /\ []<>(screen \in Serving) => Q!EveryTaskLeaves

\* Through the application's loops, too, the queue does its jobs one at a
\* time in the order they were submitted, whichever screen submitted them.
QueueImplementsFileJobs == Q!ImplementsFileJobs

\* "Exit hbstore UI when app state returns to browser" (core/app.c:266):
\* who goes on pressing B in the store gets out of it.
BackLeavesStore == []<><<StoreBack>>_vars => []<>(screen # "store")
=============================================================================
