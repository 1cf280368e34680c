--------------------------- MODULE SettingsProofs ---------------------------
(***************************************************************************)
(* What module Settings guarantees for every set of battery levels, every  *)
(* file found at the first start and either entry point.                   *)
(***************************************************************************)
EXTENDS Settings, TLAPS

-----------------------------------------------------------------------------
(* Lemmas on settings and files.                                           *)

\* The keys, one by one.
LEMMA KeysListed == Keys = {"theme", "mode", "auto", "bat", "stor"}
<1>1. Len(Lines) = 5
  BY DEF Lines
<1>2. /\ Lines[1] = "theme" /\ Lines[2] = "mode" /\ Lines[3] = "auto"
      /\ Lines[4] = "bat" /\ Lines[5] = "stor"
  BY DEF Lines
<1>3. 1 .. 5 = {1, 2, 3, 4, 5}
  OBVIOUS
<1> QED
  BY <1>1, <1>2, <1>3 DEF Keys

\* What stands before any line is a set of keys.
LEMMA SomeKeys ==
  ASSUME NEW n \in 0 .. Len(Lines)
  PROVE  {Lines[i] : i \in 1 .. n} \subseteq Keys
  BY DEF Keys

\* Settings are known by their fields.
LEMMA ValueFields ==
  ASSUME NEW v \in Values
  PROVE  /\ v = [theme |-> v.theme, mode |-> v.mode, auto |-> v.auto,
                 bat |-> v.bat, stor |-> v.stor]
         /\ v.theme \in Themes /\ v.mode \in Modes /\ v.auto \in BOOLEAN
         /\ v.bat \in 0 .. 80 /\ v.stor \in {0, 1, 2, 5}
         /\ DOMAIN v = Keys
         /\ v # NoFile
<1>1. DOMAIN v = Keys
  BY KeysListed DEF Values
<1>2. v # NoFile
  BY <1>1, KeysListed DEF NoFile
<1> QED
  BY <1>1, <1>2 DEF Values

LEMMA DefaultValues == Defaults \in Values /\ Zero \in Values
  BY DEF Defaults, Zero, Values, Themes, Modes

\* What is saved is settings again, and saving them again changes nothing.
LEMMA SavedValues ==
  ASSUME NEW v \in Values
  PROVE  Saved(v) \in Values /\ Saved(Saved(v)) = Saved(v)
  BY DEF Saved, Values, Themes

\* A mode that is applied leaves settings behind, and only theme and mode
\* differ.
LEMMA AppliedValues ==
  ASSUME NEW v \in Values, NEW m \in Modes
  PROVE  /\ Applied(v, m) \in Values
         /\ Applied(v, m).mode = m
         /\ Applied(v, m).auto = v.auto
         /\ Applied(v, m).bat = v.bat
         /\ Applied(v, m).stor = v.stor
  BY DEF Applied, Values, Themes

LEMMA WantedMode ==
  ASSUME NEW v \in Values
  PROVE  Wanted(v) \in Modes
<1>1. v.mode \in Modes /\ v.auto \in BOOLEAN
  BY DEF Values
<1> QED
  BY <1>1 DEF Wanted, Modes

LEMMA CheckedValues ==
  ASSUME NEW v \in Values
  PROVE  Checked(v) \in Values
  BY WantedMode, AppliedValues DEF Checked

\* Settings that were saved whole load as they are.
LEMMA LoadedWhole ==
  ASSUME NEW v \in Values
  PROVE  Loaded(v) = v
<1>1. Loaded(v) = [k \in Keys |-> v[k]]
  BY ValueFields DEF Loaded
<1> QED
  BY <1>1, KeysListed, ValueFields DEF Values

\* A file of any kind loads as settings.
LEMMA LoadedValues ==
  ASSUME NEW f, WellFormed(f)
  PROVE  Loaded(f) \in Values
<1>1. CASE f = NoFile
  BY <1>1, DefaultValues DEF Loaded
<1>2. CASE f # NoFile /\ f \in Values
  BY <1>2, LoadedWhole
<1>3. CASE f # NoFile /\ f \notin Values
  BY <1>3 DEF WellFormed
<1> QED
  BY <1>1, <1>2, <1>3

\* A save that was cut off leaves such a file.
LEMMA PrefixWellFormed ==
  ASSUME NEW v \in Values, NEW n \in 0 .. Len(Lines) - 1
  PROVE  WellFormed(Prefix(v, n)) /\ Prefix(v, n) # NoFile
<1> DEFINE S == {Lines[i] : i \in 1 .. n}
           f == Prefix(v, n)
<1>1. S \subseteq Keys
  BY DEF Keys
<1>2. f = [k \in S |-> v[k]] /\ DOMAIN f = S
  BY DEF Prefix
<1>3. f # NoFile
  BY <1>1, <1>2, KeysListed DEF NoFile
<1> HIDE DEF f, S
<1>4. Loaded(f) = [k \in Keys |-> IF k \in S THEN v[k] ELSE Zero[k]]
  BY <1>1, <1>2, <1>3 DEF Loaded
<1>5. Loaded(f) \in Values
  <2> DEFINE w == [k \in Keys |-> IF k \in S THEN v[k] ELSE Zero[k]]
  <2>1. /\ w.theme \in Themes /\ w.mode \in Modes /\ w.auto \in BOOLEAN
        /\ w.bat \in 0 .. 80 /\ w.stor \in {0, 1, 2, 5}
    <3>1. \A k \in Keys : w[k] = v[k] \/ w[k] = Zero[k]
      OBVIOUS
    <3>2. /\ Zero.theme \in Themes /\ Zero.mode \in Modes
          /\ Zero.auto \in BOOLEAN /\ Zero.bat \in 0 .. 80
          /\ Zero.stor \in {0, 1, 2, 5}
      BY DEF Zero, Themes, Modes
    <3> HIDE DEF w
    <3> QED
      BY <3>1, <3>2, KeysListed, ValueFields
  <2>2. w = [theme |-> w.theme, mode |-> w.mode, auto |-> w.auto,
             bat |-> w.bat, stor |-> w.stor]
    BY KeysListed
  <2> HIDE DEF w
  <2>3. w \in Values
    BY <2>1, <2>2 DEF Values
  <2> QED
    BY <2>3, <1>4 DEF w
<1>6. f = Prefix(Loaded(f), n)
  <2>1. Prefix(Loaded(f), n) = [k \in S |-> Loaded(f)[k]]
    BY DEF Prefix, S
  <2>2. \A k \in S : Loaded(f)[k] = v[k]
    BY <1>1, <1>4
  <2> QED
    BY <2>1, <2>2, <1>2
<1>7. WellFormed(f)
  BY <1>5, <1>6 DEF WellFormed
<1> QED
  BY <1>3, <1>7 DEF f

-----------------------------------------------------------------------------
(* The inductive invariant: the types, and that where settings are loaded, *)
(* loading the file now would bring back what is in force, unless the last *)
(* save failed.  The second is what a restart relies on; no step may       *)
(* change one without the other and call it saved.                         *)

InForce ==
  entry = "classic" /\ failed = 0 => Saved(Loaded(file)) = Saved(set)

IInv == TypeOK /\ InForce

LEMMA FlagsTyped ==
  ASSUME NEW f, WellFormed(f)
  PROVE  LoadedFlags(f) \in {ZeroFlags} \cup {Flags(m) : m \in Modes}
<1>1. Loaded(f).mode \in Modes
  BY LoadedValues, ValueFields
<1> QED
  BY <1>1 DEF LoadedFlags

LEMMA InitIInv == Init => IInv
<1> SUFFICES ASSUME Init PROVE IInv
  OBVIOUS
<1> USE DEF Init
<1>1. WellFormed(file)
  BY ConstantsAssumption DEF WellFormed
<1>2. set \in Values /\ flags \in {ZeroFlags} \cup {Flags(m) : m \in Modes}
  BY <1>1, LoadedValues, FlagsTyped, DefaultValues
<1>3. failed \in 0 .. MaxFailed
  BY ConstantsAssumption
<1>4. TypeOK
  BY <1>1, <1>2, <1>3 DEF TypeOK
<1> QED
  BY <1>4 DEF IInv, InForce

\* A start, from whatever file a kill or a normal end left.
LEMMA StartedTyped ==
  ASSUME NEW f, WellFormed(f), Started(f)
  PROVE  /\ set' \in Values
         /\ flags' \in {ZeroFlags} \cup {Flags(m) : m \in Modes}
         /\ pin' \in BOOLEAN /\ screen' \in {"loop", "menu"}
         /\ failed' \in 0 .. MaxFailed
         /\ entry = "classic" => set' = Loaded(f)
<1>1. failed' \in 0 .. MaxFailed
  BY ConstantsAssumption DEF Started
<1> QED
  BY <1>1, LoadedValues, FlagsTyped, DefaultValues DEF Started

\* A save, whether it gets through or not, leaves a file that loads; if it
\* is known to have got through, the file is what was saved.
LEMMA SaveTyped ==
  ASSUME TypeOK, NEW v \in Values, Save(v)
  PROVE  /\ WellFormed(file')
         /\ failed' \in 0 .. MaxFailed
         /\ failed' = 0 => Saved(Loaded(file')) = Saved(v)
<1>1. /\ Saved(v) \in Values /\ Saved(Saved(v)) = Saved(v)
      /\ Loaded(Saved(v)) = Saved(v)
  BY SavedValues, LoadedWhole
<1>2. failed \in 0 .. MaxFailed /\ WellFormed(file) /\ MaxFailed \in Nat
  BY ConstantsAssumption DEF TypeOK
<1>3. CASE file' = Saved(v) /\ failed' = 0
  BY <1>1, <1>2, <1>3 DEF WellFormed
<1>4. CASE /\ failed < MaxFailed
           /\ failed' = failed + 1
           /\ file' = file
  BY <1>2, <1>4
<1>5. CASE /\ failed < MaxFailed
           /\ failed' = failed + 1
           /\ \E n \in 0 .. Len(Lines) - 1 : file' = Prefix(Saved(v), n)
  <2>1. WellFormed(file')
    BY <1>1, <1>5, PrefixWellFormed
  <2> QED
    BY <1>2, <1>5, <2>1
<1> QED
  BY <1>3, <1>4, <1>5 DEF Save

\* What an entry of the menu chooses is settings, which are then in force
\* and in the file.
LEMMA ChosenKeepsIInv ==
  ASSUME IInv, NEW v \in Values, Chosen(v)
  PROVE  IInv'
<1> USE DEF IInv, Chosen
<1>1. /\ WellFormed(file')
      /\ failed' \in 0 .. MaxFailed
      /\ failed' = 0 => Saved(Loaded(file')) = Saved(v)
  BY SaveTyped
<1>2. TypeOK'
  BY <1>1 DEF TypeOK
<1> QED
  BY <1>1, <1>2 DEF InForce

LEMMA MenuChooses ==
  ASSUME IInv, Menu
  PROVE  \E v \in Values : Chosen(v)
<1>1. set \in Values
  BY DEF IInv, TypeOK
<1>2. CASE CycleTheme
  <2>1. [set EXCEPT !.theme = CASE @ = "default" -> "dark"
                                [] @ = "dark" -> "blue"
                                [] OTHER -> "default"] \in Values
    BY <1>1 DEF Values, Themes
  <2> QED
    BY <1>2, <2>1 DEF CycleTheme
<1>3. CASE CycleMode
  <2>1. [set EXCEPT !.mode = CASE @ = "normal" -> "battery"
                               [] @ = "battery" -> "storage"
                               [] @ = "storage" -> "efficient"
                               [] OTHER -> "normal"] \in Values
    BY <1>1 DEF Values, Modes
  <2> QED
    BY <1>3, <2>1 DEF CycleMode
<1>4. CASE ToggleAuto
  <2>1. [set EXCEPT !.auto = ~@] \in Values
    BY <1>1 DEF Values
  <2> QED
    BY <1>4, <2>1 DEF ToggleAuto
<1>5. CASE RaiseBattery
  <2>1. [set EXCEPT !.bat = IF @ + 5 > 80 THEN 80 ELSE @ + 5] \in Values
    BY <1>1 DEF Values
  <2> QED
    BY <1>5, <2>1 DEF RaiseBattery
<1>6. CASE CycleStorage
  <2>1. [set EXCEPT !.stor = CASE @ = 2 -> 5 [] @ = 5 -> 1 [] OTHER -> 2]
           \in Values
    BY <1>1 DEF Values
  <2> QED
    BY <1>6, <2>1 DEF CycleStorage
<1> QED
  BY <1>2, <1>3, <1>4, <1>5, <1>6 DEF Menu

LEMMA StepIInv == IInv /\ [Next]_vars => IInv'
<1> SUFFICES ASSUME IInv, [Next]_vars PROVE IInv'
  OBVIOUS
<1>1. /\ set \in Values /\ WellFormed(file)
      /\ Saved(set) \in Values /\ Saved(Saved(set)) = Saved(set)
      /\ Loaded(Saved(set)) = Saved(set)
  BY SavedValues, LoadedWhole DEF IInv, TypeOK
<1>2. CASE Frame
  <2>1. set' \in Values
    BY <1>1, <1>2, CheckedValues DEF Frame
  <2>2. /\ flags' \in {ZeroFlags} \cup {Flags(m) : m \in Modes}
        /\ WellFormed(file') /\ failed' \in 0 .. MaxFailed
    <3>1. CASE set' = set
      BY <1>2, <3>1 DEF Frame, IInv, TypeOK
    <3>2. CASE set' # set
      <4>1. flags' = Flags(set'.mode) /\ Save(set')
        BY <1>2, <3>2 DEF Frame
      <4> QED
        BY <4>1, <2>1, SaveTyped, ValueFields DEF IInv
    <3> QED
      BY <3>1, <3>2
  <2>3. TypeOK'
    BY <1>2, <2>1, <2>2 DEF Frame, IInv, TypeOK
  <2> QED
    BY <1>2, <2>3 DEF Frame, IInv, InForce
<1>3. CASE OpenMenu \/ CloseMenu \/ Environment \/ UNCHANGED vars
  BY <1>3 DEF OpenMenu, CloseMenu, Environment, vars, IInv, TypeOK, InForce
<1>4. CASE Menu
  BY <1>4, MenuChooses, ChosenKeepsIInv
<1>5. CASE SetPin
  <2>1. /\ WellFormed(file') /\ failed' \in 0 .. MaxFailed
        /\ failed' = 0 => Saved(Loaded(file')) = Saved(set)
    BY <1>1, <1>5, SaveTyped DEF SetPin, IInv
  <2>2. TypeOK'
    BY <2>1, <1>5 DEF SetPin, IInv, TypeOK
  <2> QED
    BY <1>5, <2>1, <2>2 DEF SetPin, IInv, InForce
<1>6. CASE Restart
  <2>1. Started(file) /\ UNCHANGED <<entry, file, battery>>
    BY <1>6 DEF Restart
  <2>2. TypeOK'
    BY <1>1, <2>1, StartedTyped DEF IInv, TypeOK
  <2> QED
    BY <1>1, <2>1, <2>2, StartedTyped DEF IInv, InForce
<1>7. CASE Killed
  <2>1. PICK n \in 0 .. Len(Lines) - 1 :
           file' = Prefix(Saved(set), n) /\ Started(file')
    BY <1>7 DEF Killed
  <2>2. UNCHANGED <<entry, battery>>
    BY <1>7 DEF Killed
  <2>3. WellFormed(file')
    BY <1>1, <2>1, PrefixWellFormed
  <2>4. TypeOK'
    BY <2>1, <2>2, <2>3, StartedTyped DEF IInv, TypeOK
  <2> QED
    BY <2>1, <2>2, <2>3, <2>4, StartedTyped DEF IInv, InForce
<1> QED
  BY <1>2, <1>3, <1>4, <1>5, <1>6, <1>7 DEF Next

LEMMA InductiveInvariant == Spec => []IInv
  BY InitIInv, StepIInv, PTL DEF Spec

\* The settings in memory and in the file always have the types the rest of
\* the program relies on, whichever save was cut off (settings.c:75).
THEOREM TypeCorrect == Spec => []TypeOK
<1>1. IInv => TypeOK
  BY DEF IInv
<1> QED
  BY <1>1, InductiveInvariant, PTL

-----------------------------------------------------------------------------

\* A second check of the same battery decides as the first did.
LEMMA CheckedTwice ==
  ASSUME NEW v \in Values, battery \in -1 .. 100
  PROVE  Checked(Checked(v)) = Checked(v)
<1> DEFINE w == Checked(v)
<1>1. CASE Wanted(v) = v.mode
  BY <1>1 DEF Checked
<1>2. CASE Wanted(v) # v.mode
  <2>1. w = Applied(v, Wanted(v))
    BY <1>2 DEF Checked
  <2>2. /\ w.mode = Wanted(v) /\ w.auto = v.auto /\ w.bat = v.bat
        /\ w.stor = v.stor
    <3>1. Wanted(v) \in Modes
      BY WantedMode
    <3> HIDE DEF w
    <3> QED
      BY <2>1, <3>1, AppliedValues
  <2>3. BatteryLow(w) = BatteryLow(v) /\ StorageLow(w) = StorageLow(v)
    BY <2>2 DEF BatteryLow, StorageLow
  <2>4. v.auto \in BOOLEAN
    BY DEF Values
  <2> HIDE DEF w
  <2>5. Wanted(w) = w.mode
    BY <2>2, <2>3, <2>4 DEF Wanted
  <2> QED
    BY <2>5 DEF Checked, w
<1> QED
  BY <1>1, <1>2

\* One frame decides on the mode: the next one, with the battery as it is,
\* changes nothing, whatever the settings and the levels (settings.c:193).
THEOREM OneFrameSettlesHolds == Spec => []OneFrameSettles
<1>1. IInv => OneFrameSettles
  BY CheckedTwice, ConstantsAssumption DEF IInv, TypeOK, OneFrameSettles
<1> QED
  BY <1>1, InductiveInvariant, PTL

\* A restart of the program that loads its settings brings back those in
\* force, also after saves that were cut off, unless the last save of that
\* run failed (settings.c:75-87, 89).
THEOREM SettingsSurviveRestartHolds == Spec => SettingsSurviveRestart
<1>1. IInv /\ [Next]_vars =>
        [Restart /\ entry = "classic" /\ failed = 0
           => Saved(set') = Saved(set)]_vars
  <2> SUFFICES ASSUME IInv, Restart, entry = "classic", failed = 0
               PROVE  Saved(set') = Saved(set)
    OBVIOUS
  <2>1. set' = Loaded(file)
    BY DEF Restart, Started
  <2> QED
    BY <2>1 DEF IInv, InForce
<1> QED
  BY <1>1, InductiveInvariant, PTL DEF Spec, SettingsSurviveRestart
=============================================================================
