------------------------------- MODULE Applets -------------------------------
(***************************************************************************)
(* The applet registry (core/applet_loader.c), the memory of applets       *)
(* (core/memory_manager.c), and the files that keep their state            *)
(* (core/state_manager.c).                                                 *)
(*                                                                         *)
(* Only the browser has a configuration.  For any other type the loader    *)
(* reads past its table: what it finds there is any configuration.  A slot *)
(* of the registry is used once, so that an instance is known by its slot. *)
(***************************************************************************)
EXTENDS Naturals, Sequences, FiniteSets

CONSTANTS
  Types,      \* CustomAppletType, of which Browser is one
  Browser,
  Data,       \* states of applets
  MaxLoaded   \* length of loaded_applets

VARIABLES
  initialized,  \* of g_applet_system
  loaded,       \* loaded_applets[0 .. loaded_count - 1]
  total,        \* total_memory_used, an applet's memory being one
  browsing,     \* whether the browser is initialised
  leaving,      \* the slot that applet_loader_exit unloads next, or 0
  states,       \* the state files: [type, data], Torn or NoFile
  given         \* the states applets of each type have had so far

vars == <<initialized, loaded, total, browsing, leaving, states, given>>

None   == "none"
NoFile == [type |-> None, data |-> None]
Torn   == [type |-> None, data |-> "torn"]
Gone   == [type |-> None, name |-> None, preserve |-> FALSE, state |-> "unloaded", data |-> None]

\* The name of the state file is the name in the configuration.
Config(type) ==
  IF type = Browser THEN {[type |-> Browser, name |-> Browser, preserve |-> TRUE]}
  ELSE [type : Types, name : Types, preserve : BOOLEAN]

Slots == {i \in DOMAIN loaded : loaded[i] # Gone}

\* An applet loaded before is forgotten.
LoaderInit ==
  /\ ~initialized
  /\ initialized' = TRUE /\ loaded' = <<>> /\ total' = 0
  /\ UNCHANGED <<browsing, leaving, states, given>>

-----------------------------------------------------------------------------
(* Loading.                                                                *)

\* An applet whose type is in the registry is not loaded again.
MayLoad(type) ==
  /\ leaving = 0
  /\ \A i \in Slots : loaded[i].type # type

\* Initialising a full registry's applet is not undone.
RegistryFull(type) ==
  /\ Len(loaded) = MaxLoaded
  /\ browsing' = (browsing \/ type = Browser)
  /\ UNCHANGED <<loaded, total>>

Register(type) ==
  /\ Len(loaded) < MaxLoaded
  /\ \E c \in Config(type) :
       loaded' = Append(loaded, [type |-> c.type, name |-> c.name, preserve |-> c.preserve,
                                 state |-> "ready", data |-> None])
  /\ total' = total + 1
  /\ browsing' = (browsing \/ type = Browser)

\* Without memory nothing changes.
Load ==
  /\ \E type \in Types : MayLoad(type) /\ (RegistryFull(type) \/ Register(type))
  /\ UNCHANGED <<initialized, leaving, states, given>>

-----------------------------------------------------------------------------
(* State files.                                                            *)

\* What is in the files after a state was saved: what was there, if there is no
\* state or the file does not open; a part, if the card is full or the program is
\* killed; or all of it.
Saved(i) ==
  LET x == loaded[i]
  IN  {states} \cup
      IF ~x.preserve \/ x.data = None THEN {}
      ELSE {[states EXCEPT ![x.name] = f] : f \in {Torn, [type |-> x.type, data |-> x.data]}}

\* Mutant of Restorable: the checksum is not compared.
RestorableUnchecked(i) == {loaded[i].data, states[loaded[i].name].data}

\* What an instance has after its state was restored: what it had, unless the file
\* is whole and of its type.
Restorable(i) ==
  LET x == loaded[i]
  IN  {x.data} \cup {d \in Data : x.preserve /\ states[x.name] = [type |-> x.type, data |-> d]}

-----------------------------------------------------------------------------
(* Unloading, suspending, resuming.                                        *)

\* The memory's size is already zero when it is taken from the total.
Unloaded(i) ==
  /\ states' \in Saved(i)
  /\ browsing' = (browsing /\ loaded[i].type # Browser)
  /\ loaded' = [loaded EXCEPT ![i] = Gone]
  /\ UNCHANGED total

Unload ==
  /\ leaving = 0
  /\ \E i \in Slots : Unloaded(i)
  /\ UNCHANGED <<initialized, leaving, given>>

Suspend ==
  /\ leaving = 0
  /\ \E i \in Slots :
       /\ loaded[i].state = "active"
       /\ states' \in Saved(i)
       /\ loaded' = [loaded EXCEPT ![i].state = "suspended"]
  /\ UNCHANGED <<initialized, total, browsing, leaving, given>>

Resume ==
  /\ leaving = 0
  /\ \E i \in Slots :
       /\ loaded[i].state = "suspended"
       /\ \E d \in Restorable(i) :
            loaded' = [loaded EXCEPT ![i].state = "active", ![i].data = d]
  /\ UNCHANGED <<initialized, total, browsing, leaving, states, given>>

\* The applet itself: it is active and has some state.
Run ==
  /\ leaving = 0
  /\ \E i \in Slots, d \in Data :
       /\ loaded[i].state \in {"ready", "active"}
       /\ loaded' = [loaded EXCEPT ![i].state = "active", ![i].data = d]
       /\ given' = given \cup {<<loaded[i].type, d>>}
  /\ UNCHANGED <<initialized, total, browsing, leaving, states>>

LoaderExit ==
  /\ initialized /\ leaving = 0
  /\ leaving' = 1
  /\ UNCHANGED <<initialized, loaded, total, browsing, states, given>>

LeaveNext ==
  /\ leaving \in DOMAIN loaded
  /\ leaving' = leaving + 1
  /\ IF loaded[leaving] = Gone THEN UNCHANGED <<states, browsing, loaded, total>> ELSE Unloaded(leaving)
  /\ UNCHANGED <<initialized, given>>

LeaveEnd ==
  /\ leaving = Len(loaded) + 1
  /\ leaving' = 0 /\ initialized' = FALSE /\ loaded' = <<>> /\ total' = 0
  /\ UNCHANGED <<browsing, states, given>>

\* The program is killed, perhaps while it writes.
Kill ==
  /\ initialized \/ loaded # <<>>
  /\ states' \in {states} \cup UNION {Saved(i) : i \in Slots}
  /\ initialized' = FALSE /\ loaded' = <<>> /\ total' = 0 /\ browsing' = FALSE /\ leaving' = 0
  /\ UNCHANGED given

Init ==
  /\ initialized = FALSE /\ loaded = <<>> /\ total = 0 /\ browsing = FALSE /\ leaving = 0
  /\ states = [t \in Types |-> NoFile] /\ given = {}

Next ==
  \/ LoaderInit \/ Load \/ Unload \/ Suspend \/ Resume \/ Run
  \/ LoaderExit \/ LeaveNext \/ LeaveEnd \/ Kill

Spec == Init /\ [][Next]_vars

-----------------------------------------------------------------------------
\* What an applet has is a state that one of its type had, whole: a state file that
\* was torn, or that another type wrote under the same name, is never brought
\* back.  And the memory the registry counts covers what its applets have.
RegistrySound ==
  /\ \A i \in Slots : loaded[i].data # None => <<loaded[i].type, loaded[i].data>> \in given
  /\ Cardinality(Slots) <= total
=============================================================================
