----------------------------- MODULE Favourites -----------------------------
(***************************************************************************)
(* The list of favourites (ui/ui_data.c): labels, kept in a file that is   *)
(* written anew after every change.  (Loading skips a line of blanks; no   *)
(* label is one, and once a write fails the rest of the file fails too.)   *)
(***************************************************************************)
EXTENDS Naturals, Sequences, SequencesExt

CONSTANTS
  Labels,        \* what may be toggled
  Kept(_),       \* a label as the list keeps it: 63 characters of it
  Trimmed(_),    \* a line as loading makes it: without the blanks at its end
  Broken,        \* what is left of a line that broke off; it may be another label
  MaxFavorites   \* MAX_FAVORITES

VARIABLES
  favorites,  \* g_favorites
  saved       \* the lines of the file, or NoFile

vars == <<favorites, saved>>

NoFile == <<"nofile">>

\* What is in the file after an attempt to write the list: what was there, when
\* it does not open; some of the lines, the last of which may have broken off,
\* when the card is full or the program is killed; or all of them.
Written(list) ==
  {saved, list}
    \cup {SubSeq(list, 1, n) : n \in 0..Len(list)}
    \cup {Append(SubSeq(list, 1, n - 1), Broken) : n \in 1..Len(list)}

Restored ==
  IF saved = NoFile THEN <<>>
  ELSE LET lines == [i \in DOMAIN saved |-> Trimmed(saved[i])]
       IN  SubSeq(lines, 1, IF Len(lines) < MaxFavorites THEN Len(lines) ELSE MaxFavorites)

Load == favorites' = Restored /\ UNCHANGED saved

\* Mutant of Listed: the label is looked for as it is kept.
ListedBroken(l) == IF favorites = <<>> THEN {} ELSE {i \in 2..Len(favorites) : favorites[i] = l}

Listed(l) == {i \in DOMAIN favorites : favorites[i] = l}

\* The label itself is looked for, not what the list keeps of it.
Drop(l) ==
  \E i \in Listed(l) :
    /\ \A j \in Listed(l) : i <= j
    /\ favorites' = RemoveAt(favorites, i)

\* A full list is left as it is, and so is the file.
Add(l) ==
  /\ Listed(l) = {} /\ Len(favorites) < MaxFavorites
  /\ favorites' = Append(favorites, Kept(l))

Toggle(l) ==
  /\ Drop(l) \/ Add(l)
  /\ saved' \in Written(favorites')

Restart == favorites # <<>> /\ favorites' = <<>> /\ UNCHANGED saved

Init == favorites = <<>> /\ saved = NoFile

Next == Load \/ (\E l \in Labels : Toggle(l)) \/ Restart

Spec == Init /\ [][Next]_vars

-----------------------------------------------------------------------------
\* A label is at most once in the list, whatever was toggled, saved in part, loaded
\* and killed; and the list, as the file, never outgrows its room.  Excepted are a
\* label longer than the list keeps, which is never found again and added once more
\* each time, one that another becomes when it is kept or loaded, and one that the
\* line of another is when it breaks off.
FavouritesOnce ==
  /\ Len(favorites) <= MaxFavorites
  /\ saved = NoFile \/ Len(saved) <= MaxFavorites
  /\ \A l \in Labels :
       /\ \A m \in Labels : l \in {Kept(m), Trimmed(Kept(m))} => m = l
       /\ l \notin {Broken, Trimmed(Broken)}
       => \A i, k \in DOMAIN favorites : favorites[i] = l /\ favorites[k] = l => i = k
=============================================================================
