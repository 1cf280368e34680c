-------------------------------- MODULE Paths --------------------------------
(***************************************************************************)
(* Paths on the card and the listing of folders (file/sdcard.c,            *)
(* file/fs.c).                                                             *)
(*                                                                         *)
(* A path is a prefix and segments.  Segments are names, "." and "..",     *)
(* "empty" ones, and "bad": with a character FAT forbids, or too long.     *)
(***************************************************************************)
EXTENDS Naturals, Sequences, FiniteSets, SequencesExt

CONSTANTS
  Names,      \* names of files and folders
  MaxSegs,    \* bound: segments of a path
  MaxTokens,  \* length of tokens, the root included
  Room        \* segments for which there is room in the result

VARIABLES
  asked,   \* the path: [prefix, segs: as many of its segments as tmp has room for,
           \* the last of which may have broken off; long: whether there were more]
  at,      \* segments looked at
  tokens,  \* the segments kept
  status,  \* "idle", "walking", "done" or "invalid"
  lines    \* the listing: names, and whether each is shown as a folder

vars == <<asked, at, tokens, status, lines>>

Segments == Names \cup {".", "..", "empty", "bad"}
Roots == {"/", "sdmc:/", "other"}
UpLine == [name |-> "..", folder |-> TRUE]
NoName == "(null)"   \* what is written for a segment there was no memory for

Blank == [prefix |-> "other", segs |-> <<>>, long |-> FALSE]

\* Only two prefixes are known.  A path that is too long is refused if it begins
\* with "/", and just cut if it begins with "sdmc:/".
Canonicalize(path) ==
  /\ status = "idle"
  /\ asked' = path /\ at' = 0 /\ tokens' = <<>> /\ lines' = <<>>
  /\ status' = IF path.prefix = "other" \/ (path.prefix = "/" /\ path.long) THEN "invalid"
               ELSE "walking"

Seg == asked.segs[at + 1]

Walking == status = "walking" /\ at < Len(asked.segs)

Skip == Seg \in {".", "empty"} /\ UNCHANGED <<tokens, status>>

\* Mutant of Up: the root's parent makes the path invalid, and a parent takes all.
UpAll == Seg = ".." /\ tokens' = <<>> /\ UNCHANGED status

\* The root has no parent.
Up ==
  /\ Seg = ".."
  /\ tokens' = IF tokens = <<>> THEN <<>> ELSE Front(tokens)
  /\ UNCHANGED status

\* With the last token that fits, the path is refused; that there was memory for
\* it is not looked at.
Keep ==
  /\ Seg \in Names
  /\ tokens' \in {Append(tokens, Seg), Append(tokens, NoName)}
  /\ status' = IF Len(tokens) + 2 >= MaxTokens THEN "invalid" ELSE "walking"

Refuse == Seg = "bad" /\ status' = "invalid" /\ UNCHANGED tokens

Walk ==
  /\ Walking
  /\ Skip \/ Up \/ Keep \/ Refuse
  /\ at' = at + 1
  /\ UNCHANGED <<asked, lines>>

Rebuild ==
  /\ status = "walking" /\ at = Len(asked.segs)
  /\ status' = IF Len(tokens) > Room THEN "invalid" ELSE "done"
  /\ UNCHANGED <<asked, at, tokens, lines>>

\* list_directory: whether a name is a folder is asked of the path as it was given,
\* with the name behind it: without a slash at its end, that is something else.
ListDirectory ==
  /\ status = "done"
  /\ \E there, folders \in SUBSET Names :
       lines' = (IF tokens = <<>> THEN <<>> ELSE <<UpLine>>)
                  \o [i \in 1..Cardinality(there) |->
                        LET n == SetToSeq(there)[i] IN [name |-> n, folder |-> n \in folders]]
  /\ UNCHANGED <<asked, at, tokens, status>>

\* The next path.
Forget ==
  /\ status \in {"done", "invalid"}
  /\ asked' = Blank /\ at' = 0 /\ tokens' = <<>> /\ lines' = <<>> /\ status' = "idle"

Init == asked = Blank /\ at = 0 /\ tokens = <<>> /\ status = "idle" /\ lines = <<>>

Next ==
  \/ \E p \in Roots, l \in BOOLEAN, n \in 0..MaxSegs : \E segs \in [1..n -> Segments] :
       Canonicalize([prefix |-> p, segs |-> segs, long |-> l])
  \/ Walk \/ Rebuild \/ ListDirectory \/ Forget

Spec == Init /\ [][Next]_vars

-----------------------------------------------------------------------------
\* The segments from i + 1 to j that go up, and those that go down.
Ups(i, j)   == Cardinality({k \in (i + 1)..j : asked.segs[k] = ".."})
Downs(i, j) == Cardinality({k \in (i + 1)..j : asked.segs[k] \in Names})

\* A name is still there when nothing behind it went up more often than down.
Remains(i) ==
  /\ asked.segs[i] \in Names
  /\ \A j \in i..at : Ups(i, j) <= Downs(i, j)

Meant ==
  [n \in 1..Cardinality({i \in 1..at : Remains(i)}) |->
     asked.segs[CHOOSE i \in 1..at : Remains(i) /\ Cardinality({k \in 1..i : Remains(k)}) = n]]

\* What is kept is what a path means, segment by segment, whatever tries to leave the
\* root, but for the names there was no memory for; of a path that begins with
\* "sdmc:/" and is too long it is what its beginning means, up to where it was cut.
\* A path with a segment that is refused never comes through, nor does one that
\* begins with "/" and is too long; and only the root is listed without its parent.
CanonicalInside ==
  /\ status \in {"walking", "done"} =>
       /\ \A i \in 1..at : asked.segs[i] # "bad"
       /\ asked.long => asked.prefix = "sdmc:/"
       /\ Len(tokens) = Len(Meant)
       /\ \A n \in 1..Len(Meant) : tokens[n] \in {Meant[n], NoName}
  /\ lines # <<>> => (lines[1] = UpLine <=> tokens # <<>>)
=============================================================================
