------------------------------ MODULE Settings ------------------------------
(***************************************************************************)
(* The settings in memory, the file they are saved in, and the automatic   *)
(* mode switching (settings.c).                                            *)
(*                                                                         *)
(* Every frame app_update calls settings_check_auto_mode, which compares   *)
(* battery and free space with two thresholds and may put the program in   *)
(* another mode.  The menu runs a loop of its own, so no frame happens     *)
(* while it is open; each of its entries changes one setting and saves     *)
(* all.  A save may fail without anybody being told.  The program may be    *)
(* ended or killed at any time and started again.                          *)
(*                                                                         *)
(* The repository has two entry points.  core/main.c is the application    *)
(* with the frame loop; it never calls load_settings.  source/main.c, the  *)
(* older one, loads the settings and has no automatic mode switching.      *)
(*                                                                         *)
(* confirm_installs, download_dir and language behave like the theme and   *)
(* are left out.  Sizes are in GiB.  The program's system_get_free_space   *)
(* is a stand-in that answers 0 and success.                               *)
(***************************************************************************)
EXTENDS Integers, Sequences

CONSTANTS
  BatteryLevels, \* what system_get_battery_percent may return
  EarlierFiles,  \* what the settings file may hold before the first start
  Entries,       \* which entry points there are, a subset of AllEntries
  MaxFailed      \* bound: how many saves in a row fail

\* core/main.c and source/main.c.
AllEntries == {"core", "classic"}

NoFile == [exists |-> FALSE]

Modes  == {"normal", "battery", "storage", "efficient"}
Themes == {"", "default", "dark", "blue"}

\* The keys in the order save_settings writes them.
Lines == <<"theme", "mode", "auto", "bat", "stor">>
Keys  == {Lines[i] : i \in 1 .. Len(Lines)}

Values == [theme : Themes, mode : Modes, auto : BOOLEAN, bat : 0 .. 80,
           stor : {0, 1, 2, 5}]

\* A file is a prefix of the lines; a whole one unless a save was cut off.
Prefix(v, n) == [k \in {Lines[i] : i \in 1 .. n} |-> v[k]]

ASSUME ConstantsAssumption ==
  /\ BatteryLevels \subseteq -1 .. 100
  /\ EarlierFiles \subseteq {NoFile} \cup Values
  /\ Entries \subseteq AllEntries
  /\ MaxFailed \in Nat

\* The flags derived from a mode.
Flags(mode) ==
  [rumbleOff |-> mode = "battery",
   refresh   |-> CASE mode = "battery" -> 100 [] mode = "storage" -> 33
                   [] OTHER -> 16,
   large     |-> mode = "storage",
   smart     |-> mode = "efficient",
   plugins   |-> mode = "efficient"]

\* Static storage before anything is set.
ZeroFlags == [rumbleOff |-> FALSE, refresh |-> 0, large |-> FALSE,
              smart |-> FALSE, plugins |-> FALSE]
Zero == [theme |-> "", mode |-> "normal", auto |-> FALSE, bat |-> 0,
         stor |-> 0]
Defaults == [theme |-> "default", mode |-> "normal", auto |-> TRUE,
             bat |-> 20, stor |-> 2]

VARIABLES
  entry,    \* the entry point of this program
  set,      \* g_settings: the saved part
  flags,    \* g_settings: the derived flags
  pin,      \* g_settings: whether a parental PIN is set and enabled
  file,     \* the settings file
  failed,   \* history: the saves that failed since one got through, or
            \* since the start
  screen,   \* "loop" or "menu": who serves the frames
  battery   \* the battery's charge, -1 when it cannot be read

vars == <<entry, set, flags, pin, file, failed, screen, battery>>

-----------------------------------------------------------------------------

\* save_settings: no parental field is written.
Saved(v) == [v EXCEPT !.theme = IF @ = "" THEN "default" ELSE @]

\* save_settings of v.  If fopen fails it returns and the file stays as it
\* was; if writing or closing fails the file ends early; nothing is told to
\* the caller in either case.
Save(v) ==
  \/ file' = Saved(v) /\ failed' = 0
  \/ /\ failed < MaxFailed
     /\ failed' = failed + 1
     /\ \/ file' = file
        \/ \E n \in 0 .. Len(Lines) - 1 : file' = Prefix(Saved(v), n)

\* load_settings: without a file the defaults, and the flags are not
\* derived; a key missing from the file keeps its zero.
Loaded(f) ==
  IF f = NoFile THEN Defaults
  ELSE [k \in Keys |-> IF k \in DOMAIN f THEN f[k] ELSE Zero[k]]

LoadedFlags(f) == IF f = NoFile THEN ZeroFlags ELSE Flags(Loaded(f).mode)

Started(f) ==
  /\ set' = IF entry = "classic" THEN Loaded(f) ELSE Zero
  /\ flags' = IF entry = "classic" THEN LoadedFlags(f) ELSE ZeroFlags
  /\ pin' = FALSE
  /\ failed' = 0
  /\ screen' = "loop"

\* settings_apply_mode on the settings v.
Applied(v, mode) ==
  [v EXCEPT !.mode = mode,
            !.theme = IF mode = "battery" THEN "dark" ELSE "default"]

BatteryLow(v) == battery >= 0 /\ battery <= v.bat

\* system_get_free_space.
FreeSpace == 0

StorageLow(v) == FreeSpace <= v.stor

\* Mutant of Wanted: the return after the battery saver was chosen is lost,
\* and the storage is looked at too.
WantedNoReturn(v) ==
  CASE ~v.auto -> v.mode
    [] v.auto /\ StorageLow(v) ->
         IF BatteryLow(v) /\ v.mode = "storage" THEN "battery" ELSE "storage"
    [] v.auto /\ ~StorageLow(v) /\ BatteryLow(v) -> "battery"
    [] OTHER -> IF v.mode \in {"battery", "storage"} THEN "normal" ELSE v.mode

\* settings_check_auto_mode: the mode it leaves the program in.
Wanted(v) ==
  CASE ~v.auto -> v.mode
    [] v.auto /\ BatteryLow(v) -> "battery"
    [] v.auto /\ ~BatteryLow(v) /\ StorageLow(v) -> "storage"
    [] OTHER -> IF v.mode \in {"battery", "storage"} THEN "normal" ELSE v.mode

\* It applies a mode only if it is not the one already.
Checked(v) == IF Wanted(v) = v.mode THEN v ELSE Applied(v, Wanted(v))

Frame ==
  /\ entry = "core"
  /\ screen = "loop"
  /\ set' = Checked(set)
  /\ IF set' = set THEN UNCHANGED <<flags, file, failed>>
     ELSE flags' = Flags(set'.mode) /\ Save(set')
  /\ UNCHANGED <<entry, pin, screen, battery>>

-----------------------------------------------------------------------------
(* settings_menu.                                                          *)

OpenMenu ==
  /\ screen = "loop"
  /\ screen' = "menu"
  /\ UNCHANGED <<entry, set, flags, pin, file, failed, battery>>

CloseMenu ==
  /\ screen = "menu"
  /\ screen' = "loop"
  /\ UNCHANGED <<entry, set, flags, pin, file, failed, battery>>

\* Mutant of Chosen: the change is not saved.
ChosenUnsaved(v) ==
  /\ screen = "menu"
  /\ set' = v
  /\ UNCHANGED <<entry, flags, pin, file, failed, screen, battery>>

\* An entry of the menu changes the settings to v and saves them; the
\* derived flags are not touched.
Chosen(v) ==
  /\ screen = "menu"
  /\ set' = v
  /\ Save(v)
  /\ UNCHANGED <<entry, flags, pin, screen, battery>>

CycleTheme ==
  Chosen([set EXCEPT !.theme = CASE @ = "default" -> "dark"
                                 [] @ = "dark" -> "blue"
                                 [] OTHER -> "default"])

CycleMode ==
  Chosen([set EXCEPT !.mode = CASE @ = "normal" -> "battery"
                                [] @ = "battery" -> "storage"
                                [] @ = "storage" -> "efficient"
                                [] OTHER -> "normal"])

ToggleAuto == Chosen([set EXCEPT !.auto = ~@])

\* Mutant of RaiseBattery: the bound is forgotten.
RaiseBatteryUnbounded == Chosen([set EXCEPT !.bat = @ + 5])

RaiseBattery ==
  Chosen([set EXCEPT !.bat = IF @ + 5 > 80 THEN 80 ELSE @ + 5])

CycleStorage ==
  Chosen([set EXCEPT !.stor = CASE @ = 2 -> 5 [] @ = 5 -> 1 [] OTHER -> 2])

Menu ==
  CycleTheme \/ CycleMode \/ ToggleAuto \/ RaiseBattery \/ CycleStorage

\* The parental controls, a menu like this one, set a PIN and save the
\* settings (parental_set_pin_from_text, applets/parental_applet.c).
SetPin ==
  /\ screen = "menu"
  /\ pin' = TRUE
  /\ Save(set)
  /\ UNCHANGED <<entry, set, flags, screen, battery>>

-----------------------------------------------------------------------------

\* Ended by the user and started again.
Restart ==
  /\ Started(file)
  /\ UNCHANGED <<entry, file, battery>>

\* Killed while the last save was being written, and started again.
Killed ==
  /\ file # NoFile
  /\ \E n \in 0 .. Len(Lines) - 1 :
       /\ file' = Prefix(Saved(set), n)
       /\ Started(file')
  /\ UNCHANGED <<entry, battery>>

Environment ==
  /\ battery' \in BatteryLevels
  /\ UNCHANGED <<entry, set, flags, pin, file, failed, screen>>

Init ==
  /\ entry \in Entries
  /\ file \in EarlierFiles
  /\ set = IF entry = "classic" THEN Loaded(file) ELSE Zero
  /\ flags = IF entry = "classic" THEN LoadedFlags(file) ELSE ZeroFlags
  /\ pin = FALSE
  /\ failed = 0
  /\ screen = "loop"
  /\ battery \in BatteryLevels

Next ==
  \/ Frame \/ OpenMenu \/ CloseMenu \/ Menu \/ SetPin
  \/ Restart \/ Killed \/ Environment

Spec == Init /\ [][Next]_vars

\* The loop goes on as long as the menu is not open; neither the user nor
\* the environment owes anything.
FairSpec == Spec /\ WF_vars(Frame)

-----------------------------------------------------------------------------
(* Properties.                                                             *)

WellFormed(f) ==
  \/ f = NoFile
  \/ f \in Values
  \/ /\ Loaded(f) \in Values
     /\ \E n \in 0 .. Len(Lines) - 1 : f = Prefix(Loaded(f), n)

\* A file left by any save, whole or cut off, loads as settings of the
\* right types.
TypeOK ==
  /\ entry \in Entries
  /\ set \in Values
  /\ flags \in {ZeroFlags} \cup {Flags(m) : m \in Modes}
  /\ pin \in BOOLEAN
  /\ WellFormed(file)
  /\ failed \in 0 .. MaxFailed
  /\ screen \in {"loop", "menu"}
  /\ battery \in BatteryLevels

\* One frame decides: while the battery stays as it is, a second frame
\* changes nothing, so modes do not alternate and the file is
\* not written in every frame.
OneFrameSettles == Checked(Checked(set)) = Checked(set)

\* If the battery stays low the program ends up in the battery saver and
\* stays there, also when the card is full; if it stays charged, in the saver
\* for a card that is full (which the card always appears to be), whatever
\* modes were chosen by hand before.  The battery comes first, as
\* settings.c:196 says and the return at line 201 does.  The repository does not
\* agree with itself here: test_auto_mode_switching (lines 32-43) demands the
\* storage saver whenever the card is full, also when the battery is low.
SaverFollowsCondition ==
  LET active == entry = "core" /\ screen = "loop" /\ set.auto
  IN  /\ <>[](active /\ BatteryLow(set)) => <>[](set.mode = "battery")
      /\ <>[](active /\ ~BatteryLow(set) /\ StorageLow(set))
           => <>[](set.mode = "storage")

\* Where the settings are loaded, a restart brings back those that were in
\* force, whether they came from the menu, from the defaults, or from a file
\* cut off by a kill or by a save that failed; unless the last save of this
\* run of the program failed, which nobody was told.
SettingsSurviveRestart ==
  [][Restart /\ entry = "classic" /\ failed = 0
       => Saved(set') = Saved(set)]_vars
=============================================================================
