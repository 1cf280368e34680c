------------------------------ MODULE FileOrg ------------------------------
(***************************************************************************)
(* Listings and their selection (file/file_org.c) and the cleanup of a     *)
(* folder (file/file_cleanup.c): the functions that decide which files a   *)
(* task is queued for.                                                     *)
(*                                                                         *)
(* Sorting permutes the entries and nothing below depends on their order   *)
(* but the filter, which is told the first one; so a listing is a set.     *)
(***************************************************************************)
EXTENDS Naturals, FiniteSets, FiniteSetsExt

CONSTANTS
  Item,        \* the things in the folder
  Parent,      \* [Item -> Item or Root]: the folder each is in
  Root,        \* the folder listed and cleaned
  Tags,        \* [Item -> what its name and age say of it: "dir", "shown", "temp", "part", "old"]
  Size,        \* [Item -> Nat]
  FirstRoom,   \* the capacity of a new listing
  MaxSelected  \* bound: selected_count

VARIABLES
  card,     \* the items that exist
  listing,  \* the DirListing
  sent      \* the tasks the last call queued, and total_freed

vars == <<card, listing, sent>>

IsDir(i)  == "dir" \in Tags[i]
InRoot(i) == Parent[i] = Root

\* entries: those shown; picked: those of them with is_selected set; selected:
\* selected_count; dropped: how many were selected when the listing lost them,
\* since all or none were selected.
Nothing == [tasks |-> {}, freed |-> 0]

NoListing == [up |-> FALSE, entries |-> {}, picked |-> {}, room |-> 0, selected |-> 0, dropped |-> 0]

-----------------------------------------------------------------------------
(* The listing.                                                            *)

ListingInit ==
  /\ ~listing.up
  /\ listing' = [NoListing EXCEPT !.up = TRUE, !.room = FirstRoom]
  /\ sent' = Nothing /\ UNCHANGED card

ListingFree ==
  /\ listing.up
  /\ listing' = NoListing
  /\ sent' = Nothing /\ UNCHANGED card

\* The room after n entries were read: doubled whenever it is used up.
Grown(room, n) ==
  LET rooms == {room * 2 ^ k : k \in 0 .. n}
  IN  CHOOSE r \in rooms : r >= n /\ \A q \in rooms : q >= n => r <= q

\* dir_list_files: the entries of the folder whose stat succeeds, all read or
\* until memory runs out.  What was selected is forgotten, but not its count.
ListFiles ==
  /\ listing.up
  /\ \E s \in SUBSET {i \in card : InRoot(i)} :
       listing' = [listing EXCEPT !.entries = s, !.picked = {},
                                  !.room = Grown(@, Cardinality(s)),
                                  !.dropped = @ + Cardinality(listing.picked)]
  /\ sent' = Nothing /\ UNCHANGED card

Narrowed(l, s) ==
  [l EXCEPT !.entries = s, !.picked = @ \cap s, !.dropped = @ + Cardinality(l.picked \ s)]

\* dir_filter_files: folders and what the flags select; the first entry of all
\* is lost even if it is one of them.
Filter ==
  /\ listing.up
  /\ LET kept == {i \in listing.entries : IsDir(i) \/ "shown" \in Tags[i]}
     IN  \E first \in listing.entries : listing' = Narrowed(listing, kept \ {first})
  /\ sent' = Nothing /\ UNCHANGED card

\* dir_search_files: those whose name has the term in it.
Search ==
  /\ listing.up
  /\ \E s \in SUBSET listing.entries : listing' = Narrowed(listing, s)
  /\ sent' = Nothing /\ UNCHANGED card

SelectItem ==
  /\ listing.up /\ listing.selected < MaxSelected
  /\ \E i \in listing.entries :
       listing' = IF i \in listing.picked
                  THEN [listing EXCEPT !.picked = @ \ {i}, !.selected = @ - 1]
                  ELSE [listing EXCEPT !.picked = @ \cup {i}, !.selected = @ + 1]
  /\ sent' = Nothing /\ UNCHANGED card

SelectAll ==
  /\ listing.up
  /\ listing' = [listing EXCEPT !.picked = listing.entries,
                                !.selected = Cardinality(listing.entries), !.dropped = 0]
  /\ sent' = Nothing /\ UNCHANGED card

\* Mutant of DeselectAll: only the count is reset.
DeselectCount ==
  /\ listing.up
  /\ listing' = [listing EXCEPT !.selected = 0, !.dropped = 0]
  /\ sent' = Nothing /\ UNCHANGED card

DeselectAll ==
  /\ listing.up
  /\ listing' = [listing EXCEPT !.picked = {}, !.selected = 0, !.dropped = 0]
  /\ sent' = Nothing /\ UNCHANGED card

\* dir_process_selected: a task for each; they stay selected.
ProcessSelected ==
  /\ listing.up
  /\ \E op \in {"copy", "move"} : sent' = [Nothing EXCEPT !.tasks = {<<op, i>> : i \in listing.picked}]
  /\ UNCHANGED <<card, listing>>

-----------------------------------------------------------------------------
(* The card.                                                               *)

Inside(i, f) == i = f \/ Parent[i] = f

\* What dir_delete_item may remove of a folder before something fails: any of
\* what is in it, and the folder itself only when it is empty.
Deletions(f, recursive) ==
  {s \in SUBSET {i \in card : Inside(i, f)} :
     /\ f \in s => \A i \in card : Parent[i] = f => i \in s
     /\ recursive \/ ~\E i \in s : i # f}

DeleteItem ==
  /\ \E f \in card : \E s \in Deletions(f, TRUE) \cup Deletions(f, FALSE) : card' = card \ s
  /\ sent' = Nothing /\ UNCHANGED listing

\* dir_create_folder, dir_rename_item, and whoever else writes to the card.
Appears ==
  /\ \E i \in Item \ card :
       /\ InRoot(i) \/ Parent[i] \in card
       /\ card' = card \cup {i}
  /\ sent' = Nothing /\ UNCHANGED listing

-----------------------------------------------------------------------------
(* Cleanup.                                                                *)

Passes == {"temp", "part", "old"}

\* process_directory: every file below the folder, but for folders that cannot
\* be opened; nothing at all if that is the root.
Walks ==
  LET top == {i \in card : InRoot(i)}
  IN  {{i \in card : ~IsDir(i) /\ (i \in top \/ Parent[i] \in d)} : d \in SUBSET {i \in top : IsDir(i)}}

\* What the callback of a pass queues: "old" is any file past the age, a
\* backup or not.  Packages that are installed are never found.
Chosen(pass, walk) == {i \in walk : pass \in Tags[i]}

Total(s) == MapThenSumSet(LAMBDA i : Size[i], s)

\* cleanup_scan_directory: the passes the flags select, one after the other,
\* ended by one whose root cannot be opened.  A file that two of them choose is
\* counted, and queued, twice.
Scan ==
  /\ \E p \in SUBSET Passes : \E walk \in [p -> Walks] :
       LET hit == UNION {Chosen(pass, walk[pass]) : pass \in p}
       IN  sent' = [tasks |-> {<<"delete", i>> : i \in hit},
                    freed |-> MapThenSumSet(LAMBDA pass : Total(Chosen(pass, walk[pass])), p)]
  /\ UNCHANGED <<card, listing>>

Init ==
  /\ card \in {s \in SUBSET Item : \A i \in s : InRoot(i) \/ Parent[i] \in s}
  /\ listing = NoListing /\ sent = Nothing

Next ==
  \/ ListingInit \/ ListingFree \/ ListFiles \/ Filter \/ Search
  \/ SelectItem \/ SelectAll \/ DeselectAll \/ ProcessSelected
  \/ DeleteItem \/ Appears \/ Scan

Spec == Init /\ [][Next]_vars

-----------------------------------------------------------------------------
\* selected_count goes stale when a listing is read again, filtered or searched,
\* and by exactly the selected entries that were lost then, until all or none are
\* selected: it counts those and the ones selected now, which are all shown.
\* The space freed is never less than the size of the files a cleanup queued.
CountsCover ==
  /\ listing.selected = Cardinality(listing.picked) + listing.dropped
  /\ listing.picked \subseteq listing.entries
  /\ sent.freed >= Total({t[2] : t \in {u \in sent.tasks : u[1] = "delete"}})
=============================================================================
