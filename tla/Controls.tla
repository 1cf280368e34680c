------------------------------ MODULE Controls ------------------------------
(***************************************************************************)
(* The mapping of buttons and sticks to events (core/switch_controls.c):   *)
(* one event a frame, the first of a fixed order of tests.                 *)
(***************************************************************************)
EXTENDS Naturals, FiniteSets, Sequences

CONSTANTS
  Buttons,         \* buttons that are used, of those named below
  MaxHeld,         \* bound: buttons held at once
  HoldFrames,      \* frames of holding A until multi-select: over 500 ms at 16
  RepeatDelay,     \* REPEAT_DELAY_FRAMES
  RepeatInterval   \* REPEAT_INTERVAL_FRAMES

VARIABLES
  held,    \* the buttons held
  stick,   \* the left stick: "up", "down" or "mid"
  event,   \* current_event
  hold,    \* button_hold_time, in frames, up to HoldFrames
  multi,   \* multi_select_active
  rate,    \* repeat_rate; beyond the first repeat, only where it is in the interval
  gap      \* frames since the last event of navigation, up to RepeatInterval

vars == <<held, stick, event, hold, multi, rate, gap>>

Nav == {"nav_up", "nav_down"}

\* What the frame sees: the buttons held now, and of those the ones held newly.
Pressed(b) == b \in held' /\ b \notin held
Quiet(bs)  == \A i \in DOMAIN bs : ~Pressed(bs[i])

First == <<"B", "Y", "X">>
Sides == <<"Left", "Right">>
Later == <<"ZL", "ZR", "L", "R", "Plus", "Minus">>

OneOf(bs) ==
  \E i \in DOMAIN bs : Pressed(bs[i]) /\ Quiet(SubSeq(bs, 1, i - 1)) /\ event' = bs[i]

\* A newly pressed.
Open ==
  /\ Pressed("A")
  /\ event' = "open" /\ hold' = 0
  /\ UNCHANGED <<multi, rate>>

Counted == IF "A" \in held' THEN IF hold < HoldFrames THEN hold + 1 ELSE hold ELSE 0

\* A held long enough, for the first time since B was pressed.
MultiSelect ==
  /\ "A" \in held \cap held' /\ Counted = HoldFrames /\ ~multi
  /\ hold' = Counted /\ multi' = TRUE /\ event' = "multi"
  /\ UNCHANGED rate

\* Neither.
PastA ==
  /\ ~Pressed("A")
  /\ ~("A" \in held' /\ Counted = HoldFrames /\ ~multi)
  /\ hold' = Counted

\* B ends the selection; Y and X switch a menu and the search, of which nothing here
\* depends.
Command ==
  /\ PastA /\ OneOf(First)
  /\ multi' = (multi /\ event' # "B")
  /\ UNCHANGED rate

PastCommands == PastA /\ Quiet(First) /\ UNCHANGED multi

\* Mutant of Navigate: the count is not begun anew.
NavigateOn ==
  /\ PastCommands
  /\ \/ (Pressed("Up") \/ stick' = "up") /\ event' = "nav_up"
     \/ ~(Pressed("Up") \/ stick' = "up") /\ (Pressed("Down") \/ stick' = "down") /\ event' = "nav_down"
  /\ UNCHANGED rate

\* A stick that is held navigates in every frame.
Navigate ==
  /\ PastCommands
  /\ \/ (Pressed("Up") \/ stick' = "up") /\ event' = "nav_up"
     \/ ~(Pressed("Up") \/ stick' = "up") /\ (Pressed("Down") \/ stick' = "down") /\ event' = "nav_down"
  /\ rate' = 0

PastNavigation ==
  PastCommands /\ stick' = "mid" /\ Quiet(<<"Up", "Down">>)

Side == PastNavigation /\ OneOf(Sides) /\ UNCHANGED rate

\* Holding up or down counts; one in RepeatInterval frames repeats, after the delay.
Holding == {"Up", "Down"} \cap held' # {}

Ticked == IF rate + 1 > RepeatDelay + RepeatInterval THEN rate + 1 - RepeatInterval ELSE rate + 1

Repeats == Ticked = RepeatDelay + RepeatInterval

Repeat ==
  /\ PastNavigation /\ Quiet(Sides)
  /\ Holding /\ Repeats
  /\ rate' = Ticked
  /\ event' = IF "Up" \in held' THEN "nav_up" ELSE "nav_down"

PastRepeat ==
  /\ PastNavigation /\ Quiet(Sides)
  /\ ~(Holding /\ Repeats)
  /\ rate' = IF Holding THEN Ticked ELSE 0

Late == PastRepeat /\ OneOf(Later)

\* The right stick scrolls when there is nothing else.
Rest == PastRepeat /\ Quiet(Later) /\ event' \in {"none", "scroll"}

Frame ==
  /\ held' \in {h \in SUBSET Buttons : Cardinality(h) <= MaxHeld}
  /\ stick' \in {"up", "down", "mid"}
  /\ Open \/ MultiSelect \/ Command \/ Navigate \/ Side \/ Repeat \/ Late \/ Rest
  /\ gap' = IF event' \in Nav THEN 0 ELSE IF gap < RepeatInterval THEN gap + 1 ELSE gap

\* switch_controls_init: the explorer calls it in every frame, and so neither holds A
\* nor repeats.
Clear ==
  /\ event' = "none" /\ hold' = 0 /\ multi' = FALSE /\ rate' = 0
  /\ UNCHANGED <<held, stick, gap>>

Init ==
  /\ held = {} /\ stick = "mid" /\ event = "none"
  /\ hold = 0 /\ multi = FALSE /\ rate = 0 /\ gap = 0

Next == Frame \/ Clear

Spec == Init /\ [][Next]_vars

-----------------------------------------------------------------------------
\* Holding repeats no sooner than RepeatInterval frames after the last event of
\* navigation, whatever was pressed and let go in between.
RepeatsPaced == [][Repeat => gap + 1 >= RepeatInterval]_vars
=============================================================================
