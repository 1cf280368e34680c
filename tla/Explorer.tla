------------------------------ MODULE Explorer ------------------------------
(***************************************************************************)
(* The file explorer (file_explorer_open, file/file_explorer.c): a modal   *)
(* loop that reads a folder a few entries per frame, while the user moves  *)
(* the cursor, descends, deletes, marks entries and shakes the console to  *)
(* reload.                                                                 *)
(*                                                                         *)
(* A frame has three phases, in this order: a batch of the folder is read; *)
(* a shake reloads, the tilt may sort the list, the cursor is clamped; one *)
(* button is handled.  The frame also serves the task queue, which is      *)
(* module TaskQueue.                                                       *)
(*                                                                         *)
(* A name is a sequence of characters and a path a sequence of names, the  *)
(* root of the card being the empty one; a folder entered through "../"    *)
(* keeps the ".." in its path, as in the code.  Where the window on the    *)
(* list begins is left out, and so a page up or down goes anywhere; so is  *)
(* the selection of a folder for a caller, since nothing calls it.         *)
(***************************************************************************)
EXTENDS Integers, Sequences, SequencesExt

CONSTANTS
  Tree,     \* the folders of the card: from paths to sequences of entries
  Starts,   \* the paths the explorer is started with
  Batch,    \* how many entries a frame reads (40)
  MaxDepth, \* bound: the names in a path (the code has 512 characters)
  MaxIndex, \* bound: how far the stick moves the cursor of an empty list
  MaxDirs   \* bound: how many handles pile up

Entry(name, dir) == [name |-> name, dir |-> dir]

ASSUME ConstantsAssumption ==
  /\ <<>> \in DOMAIN Tree
  /\ Batch \in Nat \ {0}
  /\ MaxDepth \in Nat
  /\ MaxIndex \in Nat
  /\ MaxDirs \in Nat

VARIABLES
  tree,    \* what the folders hold now
  phase,   \* the next phase of the frame, or "closed"
  cur,     \* cur_dir
  lines,   \* lines_buf
  loader,  \* the incremental loader
  index,   \* input_state.selection_index, counted from 1
  queued,  \* the paths a bulk operation queued in this very step
  dirs     \* how many folder handles the process has open

vars == <<tree, phase, cur, lines, loader, index, queued, dirs>>

-----------------------------------------------------------------------------
(* Paths.                                                                  *)

Dots == <<".", ".">>

\* The folder a path leads to.
Resolve(path) ==
  FoldLeft(LAMBDA at, n : IF n = Dots
                          THEN SubSeq(at, 1, IF at = <<>> THEN 0 ELSE Len(at) - 1)
                          ELSE Append(at, n),
           <<>>, path)

IsFolder(path) == Resolve(path) \in DOMAIN tree

-----------------------------------------------------------------------------
(* Lines.  A mark overwrites the first character of the text.              *)

Line(name, dir) == [name |-> name, dir |-> dir, first |-> "own"]

Up          == Line(Dots, TRUE)
Placeholder == Line(<<"L", "oading...">>, FALSE)

AllEntries == UNION {Range(Tree[f]) : f \in DOMAIN Tree}

\* A folder holds a name once, and reading it gives its entries without
\* "..".  That no file bears the placeholder's text is an assumption on the
\* card: the code tells the placeholder from a file by that text.
ASSUME CardAssumption ==
  /\ Tree \in [DOMAIN Tree -> Seq(AllEntries)]
  /\ \A f \in DOMAIN Tree : \A i, j \in DOMAIN Tree[f] :
        Tree[f][i].name = Tree[f][j].name => i = j
  /\ \A e \in AllEntries : e.name \notin {Up.name, Placeholder.name}

Text(l) ==
  CASE l.first = "own"   -> l.name
    [] l.first = "star"  -> <<"*">> \o Tail(l.name)
    [] l.first = "blank" -> <<" ">> \o Tail(l.name)

\* The path a line stands for when it is opened or deleted.
PathOf(l) == Append(cur, Text(l))

\* Bulk operations take the text from its second character on; of "x" that
\* leaves the folder itself.
BulkPath(l) ==
  IF Len(l.name) = 1 THEN cur ELSE Append(cur, Tail(l.name))

Marked == {i \in DOMAIN lines : lines[i].first = "star"}

\* What the loader makes of an entry; whether it is a folder is asked for
\* under the path the loader was given.
LineOf(e) == Line(e.name, IsFolder(Append(loader.path, e.name)))

LinesOf(entries) == [i \in DOMAIN entries |-> LineOf(entries[i])]

-----------------------------------------------------------------------------
(* The loader.                                                             *)

NoLoader == [open |-> FALSE, done |-> FALSE, path |-> <<>>, rest |-> <<>>]

\* Handles the loader owns.
Own == IF loader.open THEN 1 ELSE 0

\* Mutant of Reopened: the handle in use is overwritten.
ReopenedLeaking(path, rest) ==
  /\ loader' = [open |-> TRUE, done |-> FALSE, path |-> path,
                rest |-> rest]
  /\ lines' = <<Placeholder>>
  /\ dirs' = dirs + 1

\* Mutant of Reopened: the loader is not told that it is not done.
ReopenedDone(path, rest) ==
  /\ loader' = [open |-> TRUE, done |-> loader.done, path |-> path,
                rest |-> rest]
  /\ lines' = <<Placeholder>>
  /\ dirs' = (dirs - Own) + 1

\* The handle in use is closed, a folder that holds rest is opened, and the
\* placeholder shown.  The loader believes it reads path.
Reopened(path, rest) ==
  /\ loader' = [open |-> TRUE, done |-> FALSE, path |-> path,
                rest |-> rest]
  /\ lines' = <<Placeholder>>
  /\ dirs' = (dirs - Own) + 1

\* The handle in use is closed and none could be opened.
ReopenFailed(path) ==
  /\ loader' = [loader EXCEPT !.open = FALSE, !.path = path, !.rest = <<>>]
  /\ dirs' = dirs - Own

\* file_explorer_open: the folder asked for, or the root instead; the loader
\* keeps the path that could not be opened.  When the root cannot be opened
\* either the explorer returns.
OpenExplorer(start) ==
  /\ phase = "closed"
  /\ dirs < MaxDirs
  /\ phase' = "load"
  /\ index' = 1
  /\ \/ IsFolder(start) /\ Reopened(start, tree[Resolve(start)]) /\ cur' = start
     \/ Reopened(start, tree[<<>>]) /\ cur' = <<>>
  /\ queued' = {}
  /\ UNCHANGED tree

-----------------------------------------------------------------------------
(* First phase: the stick moves the cursor and a batch is read.            *)

StickMoved == index' \in {index - 1, index, index + 1} \cap (0 .. MaxIndex)

Loading == loader.open /\ ~loader.done

\* The placeholder gives way to the first entries, if it can be recognised.
Kept == IF lines = <<Placeholder>> THEN <<>> ELSE lines

\* A batch was read and the folder may have more: the batch is shown.
LoadBatch ==
  /\ phase = "load" /\ Loading
  /\ Len(loader.rest) >= Batch
  /\ lines' = Kept \o LinesOf(SubSeq(loader.rest, 1, Batch))
  /\ loader' = [loader EXCEPT !.rest = SubSeq(@, Batch + 1, Len(@))]
  /\ StickMoved
  /\ phase' = "settle"
  /\ queued' = {}
  /\ UNCHANGED <<tree, cur, dirs>>

\* Mutant of LastLines: the last batch is added to what is shown.
LastLinesAdded ==
  Kept \o (IF loader.path = <<>> THEN <<>> ELSE <<Up>>) \o LinesOf(loader.rest)

\* The last batch, with the parent in front, replaces what is shown.
LastLines ==
  (IF loader.path = <<>> THEN <<>> ELSE <<Up>>) \o LinesOf(loader.rest)

LoadLast ==
  /\ phase = "load" /\ Loading
  /\ Len(loader.rest) < Batch
  /\ lines' = LastLines
  /\ loader' = [loader EXCEPT !.open = FALSE, !.done = TRUE, !.rest = <<>>]
  /\ dirs' = dirs - 1
  /\ StickMoved
  /\ phase' = "settle"
  /\ queued' = {}
  /\ UNCHANGED <<tree, cur>>

LoadNothing ==
  /\ phase = "load" /\ ~Loading
  /\ StickMoved
  /\ phase' = "settle"
  /\ queued' = {}
  /\ UNCHANGED <<tree, cur, lines, loader, dirs>>

-----------------------------------------------------------------------------
(* Second phase: a shake reloads, a tilt sorts, the cursor is clamped.     *)

\* Mutant of Clamped: the count itself is taken for a row.
ClampedLate(ls) ==
  IF ls = <<>> THEN index
  ELSE IF index < 1 THEN 1
  ELSE IF index > Len(ls) + 1 THEN Len(ls) + 1 ELSE index

\* selection_index is brought into the list, unless the list is empty.
Clamped(ls) ==
  IF ls = <<>> THEN index
  ELSE IF index < 1 THEN 1
  ELSE IF index > Len(ls) THEN Len(ls) ELSE index

\* sort_directory_listing asks for dates and sizes of files in another
\* folder than the one shown, and uses what its memory held where that
\* fails: any order may result.
Ordered(ls) ==
  {[i \in DOMAIN ls |-> ls[p[i]]] : p \in Bijection(DOMAIN ls, DOMAIN ls)}

Calm ==
  /\ phase = "settle"
  /\ lines' \in Ordered(lines)
  /\ index' = Clamped(lines)
  /\ phase' = "act"
  /\ UNCHANGED <<tree, cur, loader, queued, dirs>>

\* A shake: the folder is opened again, or the root instead.
Shake ==
  /\ phase = "settle"
  /\ \/ IsFolder(cur) /\ Reopened(cur, tree[Resolve(cur)]) /\ UNCHANGED cur
     \/ Reopened(cur, tree[<<>>]) /\ cur' = <<>>
  /\ index' = 1
  /\ phase' = "act"
  /\ UNCHANGED <<tree, queued>>

\* Neither could be opened: nothing is shown and the frame ends.
ShakeFails ==
  /\ phase = "settle"
  /\ ReopenFailed(cur)
  /\ lines' = <<>>
  /\ cur' = <<>>
  /\ phase' = "load"
  /\ UNCHANGED <<tree, index, queued>>

-----------------------------------------------------------------------------
(* Third phase: one button.                                                *)

AtLine == phase = "act" /\ lines # <<>>

Here == lines[index]

\* No button, one that only shows a message, or one that moves the cursor.
MoveCursor ==
  /\ phase = "act"
  /\ index' \in IF lines = <<>> THEN {1} ELSE DOMAIN lines
  /\ phase' = "load"
  /\ UNCHANGED <<tree, cur, lines, loader, queued, dirs>>

\* A on a folder.
OpenFolder ==
  /\ AtLine /\ Here.dir
  /\ Len(cur) < MaxDepth
  /\ IsFolder(PathOf(Here))
  /\ Reopened(PathOf(Here), tree[Resolve(PathOf(Here))])
  /\ cur' = PathOf(Here)
  /\ phase' = "load"
  /\ UNCHANGED <<tree, index, queued>>

\* Mutant of OpenFolderFails: the path is not set back.
OpenFailsElsewhere ==
  /\ AtLine /\ Here.dir
  /\ Len(cur) < MaxDepth
  /\ ReopenFailed(PathOf(Here))
  /\ cur' = PathOf(Here)
  /\ phase' = "load"
  /\ UNCHANGED <<tree, lines, index, queued>>

\* The folder cannot be opened: the list shown before comes back, but not
\* the loader that was still filling it.
OpenFolderFails ==
  /\ AtLine /\ Here.dir
  /\ ReopenFailed(PathOf(Here))
  /\ phase' = "load"
  /\ UNCHANGED <<tree, cur, lines, index, queued>>

\* A on a file, then B (prompt_file_action): if remove succeeds the folder
\* is opened again.
DeleteFile ==
  LET folder == Resolve(cur)
      gone   == Entry(Text(Here), FALSE)
  IN  /\ AtLine /\ ~Here.dir
      /\ IsFolder(cur)
      /\ \E k \in DOMAIN tree[folder] :
            /\ tree[folder][k] = gone
            /\ tree' = [tree EXCEPT ![folder] = RemoveAt(@, k)]
      /\ \/ Reopened(cur, tree'[folder])
         \/ ReopenFailed(cur) /\ lines' = <<>>
      /\ phase' = "load"
      /\ UNCHANGED <<cur, index, queued>>

\* Y writes the mark over the first character, or a blank over the mark.
ToggleMark ==
  /\ AtLine
  /\ lines' = [lines EXCEPT ![index].first =
                 IF @ = "star" THEN "blank" ELSE "star"]
  /\ phase' = "load"
  /\ UNCHANGED <<tree, cur, loader, index, queued, dirs>>

\* L: a task is queued for every marked line.
Bulk ==
  /\ phase = "act"
  /\ Marked # {}
  /\ queued' = {BulkPath(lines[i]) : i \in Marked}
  /\ phase' = "load"
  /\ UNCHANGED <<tree, cur, lines, loader, index, dirs>>

\* B leaves the explorer; a handle still in use stays open.
Back ==
  /\ phase = "act"
  /\ phase' = "closed"
  /\ lines' = <<>>
  /\ loader' = NoLoader
  /\ cur' = <<>>
  /\ index' = 1
  /\ UNCHANGED <<tree, queued, dirs>>

-----------------------------------------------------------------------------

Init ==
  /\ tree = Tree
  /\ phase = "closed"
  /\ cur = <<>>
  /\ lines = <<>>
  /\ loader = NoLoader
  /\ index = 1
  /\ queued = {}
  /\ dirs = 0

Load   == LoadBatch \/ LoadLast \/ LoadNothing
Settle == Calm \/ Shake \/ ShakeFails
Act    == \/ MoveCursor \/ OpenFolder \/ OpenFolderFails
          \/ DeleteFile \/ ToggleMark \/ Bulk \/ Back

Next == \/ \E start \in Starts : OpenExplorer(start)
        \/ Load \/ Settle \/ Act

Spec == Init /\ [][Next]_vars

\* The loop runs until it is left.
FairSpec == Spec /\ WF_vars(Load \/ Settle \/ Act)

-----------------------------------------------------------------------------
(* Properties.                                                             *)

\* Among others: whenever a button is handled, the cursor is on a line.
TypeOK ==
  /\ phase \in {"closed", "load", "settle", "act"}
  /\ \A i \in DOMAIN lines : /\ lines[i].dir \in BOOLEAN
                             /\ lines[i].first \in {"own", "star", "blank"}
  /\ loader.open => loader.rest \in Seq(Range(Tree[Resolve(cur)]))
  /\ index \in Nat
  /\ phase = "act" /\ lines # <<>> => index \in DOMAIN lines
  /\ dirs \in 0 .. MaxDirs

IsEntry(l) == l.name \notin {Up.name, Placeholder.name}

\* What is shown belongs to the folder the explorer says it is in: every
\* line names an entry that is there now, once, whatever batches, failed
\* opens, reloads, deletions and sorts came between.
ShownBelongsToCur ==
  /\ \A i \in DOMAIN lines : IsEntry(lines[i]) =>
       /\ IsFolder(cur)
       /\ \E e \in Range(tree[Resolve(cur)]) : e.name = lines[i].name
  /\ \A i, j \in DOMAIN lines : lines[i].name = lines[j].name => i = j

\* Once a folder of less than a batch is loaded, all of it is shown, and
\* the parent unless the loader was told it reads the root.  (Of a larger
\* folder only the last batch stays: file/file_explorer.c:261.)
SmallFolderWhole ==
  loader.done /\ lines # <<>> /\ Len(tree[Resolve(cur)]) < Batch =>
    /\ \A e \in Range(tree[Resolve(cur)]) :
         \E i \in DOMAIN lines : lines[i].name = e.name
    /\ \A i \in DOMAIN lines : lines[i].name # Placeholder.name

\* While the explorer runs, the process gains and loses a folder handle
\* exactly when the loader does: no reload forgets to close one or closes
\* one twice.
HandlesFollowLoader ==
  [][phase # "closed" /\ phase' # "closed" => dirs' - dirs = Own' - Own]_vars

Restart ==
  \/ OpenFolder \/ Shake \/ DeleteFile
  \/ \E start \in Starts : OpenExplorer(start)

\* Unless the user reloads again and again, "Loading..." alone does not
\* stay on the screen.  (A placeholder the user marked is not recognised any
\* more, and stays with the first batch if a folder then fails to open.)
PlaceholderGoes ==
  (<>[][~Restart]_vars) => <>[](lines # <<Placeholder>>)

\* "gather selected entries (marked by leading '*')",
\* file/file_explorer.c:651: a bulk operation is queued for the entries that
\* were marked and for nothing else.
BulkHitsMarked ==
  (\A i \in Marked : IsEntry(lines[i])) =>
    queued \subseteq {Append(cur, lines[i].name) : i \in Marked}
=============================================================================
