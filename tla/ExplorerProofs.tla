--------------------------- MODULE ExplorerProofs ---------------------------
(***************************************************************************)
(* What module Explorer guarantees for every card, every batch size and    *)
(* every order of loads, reloads, openings, deletions, marks and sorts.    *)
(***************************************************************************)
EXTENDS Explorer, TLAPS

-----------------------------------------------------------------------------
(* Lemmas on paths and sequences.                                          *)

\* The empty path is the root.  (Resolve folds over the names of the path;
\* of an empty one only the base remains.)
LEMMA ResolveRoot == Resolve(<<>>) = <<>>
<1> DEFINE Body(f, s) ==
             IF s = {} THEN <<>>
             ELSE LET x == Max(s)
                  IN  IF <<>>[x] = Dots
                      THEN SubSeq(f[s \ {x}], 1,
                                  IF f[s \ {x}] = <<>> THEN 0
                                  ELSE Len(f[s \ {x}]) - 1)
                      ELSE Append(f[s \ {x}], <<>>[x])
           fold == CHOOSE f : f = [s \in SUBSET (DOMAIN <<>>) |-> Body(f, s)]
<1>1. Resolve(<<>>) = fold[DOMAIN <<>>]
  BY Zenon DEF Resolve, FoldLeft, MapThenFoldSet
<1> HIDE DEF Body
<1>2. DOMAIN <<>> = {} /\ SUBSET (DOMAIN <<>>) = {{}}
  OBVIOUS
<1>3. \A f : Body(f, {}) = <<>>
  BY DEF Body
<1>4. \E f : f = [s \in SUBSET (DOMAIN <<>>) |-> Body(f, s)]
  <2> DEFINE g == [s \in SUBSET (DOMAIN <<>>) |-> <<>>]
  <2>1. g = [s \in SUBSET (DOMAIN <<>>) |-> Body(g, s)]
    BY <1>2, <1>3
  <2> QED
    BY <2>1
<1>5. fold = [s \in SUBSET (DOMAIN <<>>) |-> Body(fold, s)]
  BY <1>4, Zenon
<1> QED
  BY <1>1, <1>2, <1>3, <1>5

\* Distinct names: the property that folders, what is left of them, and the
\* list shown have in common.
Distinct(s) == \A i, j \in DOMAIN s : s[i].name = s[j].name => i = j

\* A sequence and its elements.
LEMMA SeqData ==
  ASSUME NEW S, NEW s \in Seq(S)
  PROVE  /\ Len(s) \in Nat /\ DOMAIN s = 1 .. Len(s)
         /\ \A i \in 1 .. Len(s) : s[i] \in S
         /\ s = <<>> <=> Len(s) = 0
         /\ s \in Seq(Range(s))
  BY DEF Range

\* One sequence behind another.
LEMMA JoinData ==
  ASSUME NEW S, NEW a \in Seq(S), NEW b \in Seq(S)
  PROVE  /\ a \o b \in Seq(S)
         /\ Len(a \o b) = Len(a) + Len(b)
         /\ \A i \in 1 .. Len(a) : (a \o b)[i] = a[i]
         /\ \A i \in 1 .. Len(b) : (a \o b)[Len(a) + i] = b[i]
         /\ \A i \in 1 .. Len(a \o b) :
               \/ i \in 1 .. Len(a)
               \/ i - Len(a) \in 1 .. Len(b) /\ (a \o b)[i] = b[i - Len(a)]
  OBVIOUS

\* What is left when one element goes.
LEMMA RemoveAtData ==
  ASSUME NEW S, NEW s \in Seq(S), NEW k \in DOMAIN s
  PROVE  /\ RemoveAt(s, k) \in Seq(S)
         /\ Len(RemoveAt(s, k)) = Len(s) - 1
         /\ \A i \in 1 .. Len(s) - 1 :
               RemoveAt(s, k)[i] = IF i < k THEN s[i] ELSE s[i + 1]
<1>1. k \in Nat /\ k >= 1 /\ k <= Len(s) /\ Len(s) \in Nat
  OBVIOUS
<1>2. /\ SubSeq(s, 1, k - 1) \in Seq(S) /\ Len(SubSeq(s, 1, k - 1)) = k - 1
      /\ \A i \in 1 .. k - 1 : SubSeq(s, 1, k - 1)[i] = s[i]
  BY <1>1
<1>3. /\ SubSeq(s, k + 1, Len(s)) \in Seq(S)
      /\ Len(SubSeq(s, k + 1, Len(s))) = Len(s) - k
      /\ \A i \in 1 .. Len(s) - k : SubSeq(s, k + 1, Len(s))[i] = s[i + k]
  BY <1>1
<1> DEFINE a == SubSeq(s, 1, k - 1)
           b == SubSeq(s, k + 1, Len(s))
<1>4. RemoveAt(s, k) = a \o b
  BY DEF RemoveAt
<1> HIDE DEF a, b
<1>5. /\ a \in Seq(S) /\ Len(a) = k - 1 /\ \A i \in 1 .. k - 1 : a[i] = s[i]
      /\ b \in Seq(S) /\ Len(b) = Len(s) - k
      /\ \A i \in 1 .. Len(s) - k : b[i] = s[i + k]
  BY <1>2, <1>3 DEF a, b
<1>6. RemoveAt(s, k) \in Seq(S) /\ Len(RemoveAt(s, k)) = Len(s) - 1
  <2>1. a \o b \in Seq(S) /\ Len(a \o b) = Len(a) + Len(b)
    BY <1>5, JoinData
  <2> QED
    BY <1>1, <1>4, <1>5, <2>1
<1>7. ASSUME NEW i \in 1 .. Len(s) - 1
      PROVE  RemoveAt(s, k)[i] = IF i < k THEN s[i] ELSE s[i + 1]
  <2>1. CASE i < k
    <3>1. i \in 1 .. Len(a)
      BY <1>1, <1>5, <2>1
    <3>2. (a \o b)[i] = a[i]
      BY <1>5, <3>1, JoinData
    <3> QED
      BY <1>1, <1>4, <1>5, <2>1, <3>2
  <2>2. CASE ~(i < k)
    <3>1. i \in 1 .. Len(a \o b) /\ i \notin 1 .. Len(a)
      BY <1>1, <1>4, <1>5, <1>6, <2>2
    <3>2. (a \o b)[i] = b[i - Len(a)] /\ i - Len(a) \in 1 .. Len(b)
      <4>1. a \in Seq(S) /\ b \in Seq(S)
        BY <1>5
      <4>2. \A j \in 1 .. Len(a \o b) :
               \/ j \in 1 .. Len(a)
               \/ j - Len(a) \in 1 .. Len(b) /\ (a \o b)[j] = b[j - Len(a)]
        BY <4>1, JoinData
      <4> QED
        BY <3>1, <4>2
    <3>3. b[i - Len(a)] = s[(i - Len(a)) + k] /\ (i - Len(a)) + k = i + 1
      BY <1>1, <1>5, <3>2
    <3> QED
      BY <1>4, <2>2, <3>2, <3>3
  <2> QED
    BY <2>1, <2>2
<1> QED
  BY <1>6, <1>7

LEMMA JoinDistinct ==
  ASSUME NEW S, NEW a \in Seq(S), NEW b \in Seq(S), Distinct(a), Distinct(b),
         \A i \in DOMAIN a, j \in DOMAIN b : a[i].name # b[j].name
  PROVE  Distinct(a \o b)
<1> SUFFICES ASSUME NEW i \in 1 .. Len(a \o b), NEW j \in 1 .. Len(a \o b),
                    (a \o b)[i].name = (a \o b)[j].name
             PROVE  i = j
  BY JoinData DEF Distinct
<1>1. /\ Len(a) \in Nat /\ DOMAIN a = 1 .. Len(a)
      /\ Len(b) \in Nat /\ DOMAIN b = 1 .. Len(b)
  OBVIOUS
<1>2. CASE i \in 1 .. Len(a) /\ j \in 1 .. Len(a)
  <2>1. (a \o b)[i] = a[i] /\ (a \o b)[j] = a[j]
    BY <1>2, JoinData
  <2> QED
    BY <1>1, <1>2, <2>1 DEF Distinct
<1>3. CASE i \in 1 .. Len(a) /\ j \notin 1 .. Len(a)
  <2>1. (a \o b)[i] = a[i]
    BY <1>3, JoinData
  <2>2. j - Len(a) \in 1 .. Len(b) /\ (a \o b)[j] = b[j - Len(a)]
    BY <1>3, JoinData
  <2> QED
    BY <1>1, <1>3, <2>1, <2>2
<1>4. CASE i \notin 1 .. Len(a) /\ j \in 1 .. Len(a)
  <2>1. (a \o b)[j] = a[j]
    BY <1>4, JoinData
  <2>2. i - Len(a) \in 1 .. Len(b) /\ (a \o b)[i] = b[i - Len(a)]
    BY <1>4, JoinData
  <2> QED
    BY <1>1, <1>4, <2>1, <2>2
<1>5. CASE i \notin 1 .. Len(a) /\ j \notin 1 .. Len(a)
  <2>1. /\ i - Len(a) \in 1 .. Len(b) /\ (a \o b)[i] = b[i - Len(a)]
        /\ j - Len(a) \in 1 .. Len(b) /\ (a \o b)[j] = b[j - Len(a)]
    BY <1>5, JoinData
  <2>2. i - Len(a) = j - Len(a)
    BY <1>1, <2>1 DEF Distinct
  <2> QED
    BY <1>1, <2>2
<1> QED
  BY <1>2, <1>3, <1>4, <1>5

-----------------------------------------------------------------------------
(* The inductive invariant.  That the list belongs to the folder shown is  *)
(* not inductive: the next batch may be anything unless what is left to    *)
(* read is of that folder too, holds no name twice, and none that is       *)
(* already shown.  And a small folder is shown whole only because nothing  *)
(* of it was taken away before the last batch.                             *)

NameSet == {e.name : e \in AllEntries} \cup {Up.name, Placeholder.name}

Shown == [name : NameSet, dir : BOOLEAN, first : {"own", "star", "blank"}]

\* The folder the explorer says it is in.
Folder == tree[Resolve(cur)]

\* Folders only lose entries.
CardKept ==
  /\ tree \in [DOMAIN Tree -> Seq(AllEntries)]
  /\ \A f \in DOMAIN Tree : /\ Range(tree[f]) \subseteq Range(Tree[f])
                            /\ Distinct(tree[f])

ListTyped ==
  /\ lines \in Seq(Shown)
  /\ loader = [open |-> loader.open, done |-> loader.done,
               path |-> loader.path, rest |-> loader.rest]
  /\ loader.open \in BOOLEAN
  /\ loader.done \in BOOLEAN

\* The handles that piled up leave room for the loader's.
HandleKept ==
  /\ loader.open => dirs > 0 /\ ~loader.done
  /\ phase # "closed" => dirs - Own < MaxDirs
  /\ phase = "closed" => ~loader.open /\ lines = <<>>

Reading ==
  /\ loader.open \/ lines # <<>> => IsFolder(cur)
  /\ loader.open =>
       /\ loader.rest \in Seq(Range(Folder))
       /\ Distinct(loader.rest)
       /\ \A i \in DOMAIN lines, k \in DOMAIN loader.rest :
             lines[i].name # loader.rest[k].name
       /\ Len(Folder) < Batch => loader.rest = Folder

IInv ==
  /\ TypeOK /\ CardKept /\ ListTyped /\ HandleKept /\ Reading
  /\ ShownBelongsToCur /\ SmallFolderWhole

-----------------------------------------------------------------------------
(* What the actions do to the list and the loader, in lemmas that several  *)
(* actions share.                                                          *)

\* Entries of a folder have a name that neither "../" nor the placeholder
\* bears, and their place among the names a line can have.
LEMMA EntryNames ==
  ASSUME CardKept, NEW f \in DOMAIN Tree, NEW e \in Range(tree[f])
  PROVE  e \in AllEntries /\ e.name \in NameSet
         /\ e.name # Up.name /\ e.name # Placeholder.name
<1>1. tree[f] \in Seq(AllEntries) /\ DOMAIN tree = DOMAIN Tree
  BY DEF CardKept
<1>2. e \in AllEntries
  BY <1>1 DEF Range
<1> QED
  BY <1>2, CardAssumption DEF NameSet

LEMMA InitIInv == Init => IInv
<1> SUFFICES ASSUME Init PROVE IInv
  OBVIOUS
<1>1. CardKept
  BY CardAssumption DEF Init, CardKept, Distinct
<1>2. TypeOK /\ ListTyped /\ HandleKept /\ Reading
  BY ConstantsAssumption DEF Init, TypeOK, ListTyped, HandleKept, Reading, NoLoader, Own
<1>3. ShownBelongsToCur /\ SmallFolderWhole
  BY DEF Init, ShownBelongsToCur, SmallFolderWhole, NoLoader
<1> QED
  BY <1>1, <1>2, <1>3 DEF IInv

\* A folder was opened, and the explorer says that it is the one shown.
LEMMA ReopenedKeepsIInv ==
  ASSUME IInv, CardKept', NEW path,
         Resolve(cur') \in DOMAIN Tree,
         Reopened(path, tree'[Resolve(cur')]),
         dirs - Own < MaxDirs,
         phase' \in {"load", "act"}, index' \in Nat,
         phase' = "act" => index' = 1
  PROVE  IInv'
<1> DEFINE rest == tree'[Resolve(cur')]
<1>1. /\ loader' = [open |-> TRUE, done |-> FALSE, path |-> path, rest |-> rest]
      /\ lines' = <<Placeholder>>
      /\ dirs' = (dirs - Own) + 1
  BY DEF Reopened
<1>2. /\ rest \in Seq(AllEntries) /\ DOMAIN tree' = DOMAIN Tree
      /\ Range(rest) \subseteq Range(Tree[Resolve(cur')])
      /\ Distinct(rest)
  BY DEF CardKept
<1>3. Placeholder \in Shown /\ Placeholder.dir = FALSE /\ Placeholder.first = "own"
  BY DEF Placeholder, Line, Shown, NameSet
<1> HIDE DEF rest
<1>4. rest \in Seq(Range(rest)) /\ rest \in Seq(Range(Tree[Resolve(cur')]))
  <2>1. rest \in Seq(Range(rest))
    BY <1>2, SeqData
  <2> QED
    BY <1>2, <2>1
<1>5. \A k \in DOMAIN rest : rest[k].name # Placeholder.name
  <2> SUFFICES ASSUME NEW k \in DOMAIN rest PROVE rest[k].name # Placeholder.name
    OBVIOUS
  <2>1. rest[k] \in AllEntries
    BY <1>2
  <2> QED
    BY <2>1, CardAssumption
<1>6. TypeOK'
  <2>1. dirs \in 0 .. MaxDirs /\ Own \in {0, 1} /\ (Own = 1 => dirs > 0)
    BY DEF IInv, TypeOK, HandleKept, Own
  <2>2. dirs' \in 0 .. MaxDirs
    BY <1>1, <2>1, ConstantsAssumption
  <2>3. \A i \in DOMAIN lines' : /\ lines'[i].dir \in BOOLEAN
                                 /\ lines'[i].first \in {"own", "star", "blank"}
    <3>1. DOMAIN lines' = {1} /\ lines'[1] = Placeholder
      BY <1>1
    <3> QED
      BY <1>3, <3>1
  <2>4. loader'.rest \in Seq(Range(Tree[Resolve(cur')]))
    BY <1>1, <1>4
  <2>5. phase' = "act" => index' \in DOMAIN lines'
    BY <1>1
  <2> QED
    BY <2>2, <2>3, <2>4, <2>5 DEF TypeOK
<1>7. ListTyped'
  BY <1>1, <1>3 DEF ListTyped
<1>8. HandleKept'
  <2>1. dirs \in 0 .. MaxDirs /\ Own \in {0, 1} /\ (Own = 1 => dirs > 0)
    BY DEF IInv, TypeOK, HandleKept, Own
  <2>2. Own' = 1 /\ dirs' > 0 /\ dirs' - Own' < MaxDirs
    BY <1>1, <2>1, ConstantsAssumption DEF Own
  <2> QED
    BY <1>1, <2>2 DEF HandleKept
<1>9. Reading'
  <2>1. Folder' = rest
    BY DEF Folder, rest
  <2>2. IsFolder(cur)'
    BY <1>2 DEF IsFolder
  <2>3. \A i \in DOMAIN lines', k \in DOMAIN rest : lines'[i].name # rest[k].name
    BY <1>1, <1>5
  <2> QED
    BY <1>1, <1>2, <1>4, <2>1, <2>2, <2>3 DEF Reading
<1>10. ShownBelongsToCur'
  BY <1>1 DEF ShownBelongsToCur, IsEntry
<1>11. SmallFolderWhole'
  BY <1>1 DEF SmallFolderWhole
<1> QED
  BY <1>6, <1>7, <1>8, <1>9, <1>10, <1>11 DEF IInv

\* No folder could be opened: the list stays with everything it is about, or
\* nothing is shown.
LEMMA FailedKeepsIInv ==
  ASSUME IInv, CardKept', NEW path,
         ReopenFailed(path),
         phase # "closed", phase' = "load", index' = index,
         lines' = <<>> \/ UNCHANGED <<tree, cur, lines>>
  PROVE  IInv'
<1>1. /\ loader' = [open |-> FALSE, done |-> loader.done, path |-> path,
                    rest |-> <<>>]
      /\ dirs' = dirs - Own
  BY DEF ReopenFailed, IInv, ListTyped
<1>2. dirs \in 0 .. MaxDirs /\ Own \in {0, 1} /\ (Own = 1 => dirs > 0)
      /\ dirs - Own < MaxDirs
  BY DEF IInv, TypeOK, HandleKept, Own
<1>3. Own' = 0
  BY <1>1 DEF Own
<1>4. TypeOK'
  BY <1>1, <1>2, ConstantsAssumption DEF IInv, TypeOK
<1>5. ListTyped'
  <2>1. lines \in Seq(Shown) /\ loader.done \in BOOLEAN
    BY DEF IInv, ListTyped
  <2>2. CASE lines' = <<>>
    BY <1>1, <2>1, <2>2 DEF ListTyped
  <2>3. CASE lines' = lines
    BY <1>1, <2>1, <2>3 DEF ListTyped
  <2> QED
    BY <2>2, <2>3
<1>6. HandleKept'
  BY <1>1, <1>2, <1>3 DEF HandleKept
<1>7. Reading'
  BY <1>1 DEF IInv, Reading, IsFolder
<1>8. ShownBelongsToCur'
  BY DEF IInv, ShownBelongsToCur, IsFolder
<1>9. SmallFolderWhole'
  BY <1>1 DEF IInv, SmallFolderWhole
<1> QED
  BY <1>4, <1>5, <1>6, <1>7, <1>8, <1>9 DEF IInv

\* The list is the one before in another order, or with other marks.
LEMMA RearrangedKeepsIInv ==
  ASSUME IInv,
         UNCHANGED <<tree, cur, loader, dirs>>,
         lines' \in Seq(Shown), Len(lines') = Len(lines),
         NEW p \in Bijection(DOMAIN lines, DOMAIN lines),
         \A i \in DOMAIN lines : lines'[i].name = lines[p[i]].name,
         phase # "closed", phase' \in {"load", "settle", "act"}, index' \in Nat,
         phase' = "act" /\ lines' # <<>> => index' \in DOMAIN lines'
  PROVE  IInv'
<1>1. lines \in Seq(Shown)
  BY DEF IInv, ListTyped
<1>2. /\ DOMAIN lines' = DOMAIN lines
      /\ lines' = <<>> <=> lines = <<>>
  BY <1>1
<1>3. /\ \A i \in DOMAIN lines : p[i] \in DOMAIN lines
      /\ \A i, j \in DOMAIN lines : p[i] = p[j] => i = j
      /\ \A j \in DOMAIN lines : \E i \in DOMAIN lines : p[i] = j
  <2>1. /\ p \in [DOMAIN lines -> DOMAIN lines]
        /\ IsInjective(p)
        /\ \A j \in DOMAIN lines : \E i \in DOMAIN lines : p[i] = j
    BY Zenon DEF Bijection, Injection, Surjection
  <2>2. \A i, j \in DOMAIN lines : p[i] = p[j] => i = j
    BY <2>1, Zenon DEF IsInjective
  <2> QED
    BY <2>1, <2>2
<1>4. \A i \in DOMAIN lines' : lines'[i] \in Shown
  OBVIOUS
<1>5. TypeOK'
  <2>1. \A i \in DOMAIN lines' : /\ lines'[i].dir \in BOOLEAN
                                 /\ lines'[i].first \in {"own", "star", "blank"}
    BY <1>4 DEF Shown
  <2> QED
    BY <2>1 DEF IInv, TypeOK
<1>6. ListTyped' /\ CardKept'
  BY DEF IInv, ListTyped, CardKept
<1>7. HandleKept'
  BY DEF IInv, HandleKept, Own
<1>8. Reading'
  BY <1>2, <1>3 DEF IInv, Reading, Folder, IsFolder
<1>9. ShownBelongsToCur'
  <2>1. ASSUME NEW i \in DOMAIN lines', IsEntry(lines'[i])
        PROVE  /\ IsFolder(cur)
               /\ \E e \in Range(tree[Resolve(cur)]) : e.name = lines'[i].name
    <3>1. IsEntry(lines[p[i]]) /\ p[i] \in DOMAIN lines
      BY <1>2, <1>3, <2>1 DEF IsEntry
    <3> QED
      BY <1>2, <2>1, <3>1 DEF IInv, ShownBelongsToCur
  <2>2. \A i, j \in DOMAIN lines' : lines'[i].name = lines'[j].name => i = j
    <3>1. \A i, j \in DOMAIN lines : lines[i].name = lines[j].name => i = j
      BY DEF IInv, ShownBelongsToCur
    <3> SUFFICES ASSUME NEW i \in DOMAIN lines, NEW j \in DOMAIN lines,
                        lines'[i].name = lines'[j].name
                 PROVE  i = j
      BY <1>2
    <3>2. lines[p[i]].name = lines[p[j]].name /\ p[i] \in DOMAIN lines /\ p[j] \in DOMAIN lines
      BY <1>3
    <3>3. p[i] = p[j]
      BY <3>1, <3>2
    <3> QED
      BY <1>3, <3>3
  <2> QED
    BY <2>1, <2>2 DEF ShownBelongsToCur, IsFolder, IsEntry
<1>10. SmallFolderWhole'
  <2> SUFFICES ASSUME loader.done, lines # <<>>, Len(tree[Resolve(cur)]) < Batch
               PROVE  /\ \A e \in Range(tree[Resolve(cur)]) :
                           \E i \in DOMAIN lines' : lines'[i].name = e.name
                      /\ \A i \in DOMAIN lines' : lines'[i].name # Placeholder.name
    BY <1>2 DEF SmallFolderWhole
  <2>1. /\ \A e \in Range(tree[Resolve(cur)]) :
                \E i \in DOMAIN lines : lines[i].name = e.name
        /\ \A i \in DOMAIN lines : lines[i].name # Placeholder.name
    BY DEF IInv, SmallFolderWhole
  <2>2. ASSUME NEW e \in Range(tree[Resolve(cur)])
        PROVE  \E i \in DOMAIN lines' : lines'[i].name = e.name
    <3>1. PICK j \in DOMAIN lines : lines[j].name = e.name
      BY <2>1
    <3>2. PICK i \in DOMAIN lines : p[i] = j
      BY <1>3, <3>1
    <3>3. lines'[i].name = e.name
      BY <3>1, <3>2
    <3> QED
      BY <1>2, <3>3
  <2>3. ASSUME NEW i \in DOMAIN lines' PROVE lines'[i].name # Placeholder.name
    BY <1>2, <1>3, <2>1
  <2> QED
    BY <2>2, <2>3
<1> QED
  BY <1>5, <1>6, <1>7, <1>8, <1>9, <1>10 DEF IInv

-----------------------------------------------------------------------------
(* The actions.                                                            *)

\* The same list with nothing moved.
LEMMA SameListKeepsIInv ==
  ASSUME IInv,
         UNCHANGED <<tree, cur, lines, loader, dirs>>,
         phase # "closed", phase' \in {"load", "settle", "act"}, index' \in Nat,
         phase' = "act" /\ lines # <<>> => index' \in DOMAIN lines
  PROVE  IInv'
<1> DEFINE p == [i \in DOMAIN lines |-> i]
<1>1. p \in Bijection(DOMAIN lines, DOMAIN lines)
  BY DEF Bijection, Injection, Surjection, IsInjective
<1>2. \A i \in DOMAIN lines : lines'[i].name = lines[p[i]].name
  OBVIOUS
<1>3. lines' \in Seq(Shown) /\ Len(lines') = Len(lines)
  BY DEF IInv, ListTyped
<1> HIDE DEF p
<1> QED
  BY <1>1, <1>2, <1>3, RearrangedKeepsIInv

\* What the loader makes of entries of the folder shown.
LEMMA LinesOfData ==
  ASSUME CardKept, IsFolder(cur), NEW es \in Seq(Range(Folder)), Distinct(es)
  PROVE  /\ LinesOf(es) \in Seq(Shown) /\ Len(LinesOf(es)) = Len(es)
         /\ \A i \in 1 .. Len(es) : LinesOf(es)[i].name = es[i].name
         /\ Distinct(LinesOf(es))
         /\ \A i \in 1 .. Len(es) : /\ LinesOf(es)[i].name # Up.name
                                    /\ LinesOf(es)[i].name # Placeholder.name
<1>1. DOMAIN es = 1 .. Len(es) /\ Len(es) \in Nat
      /\ \A i \in 1 .. Len(es) : es[i] \in Range(Folder)
  OBVIOUS
<1>2. Resolve(cur) \in DOMAIN Tree
  BY DEF IsFolder, CardKept
<1>3. \A i \in 1 .. Len(es) : /\ es[i].name \in NameSet
                              /\ es[i].name # Up.name
                              /\ es[i].name # Placeholder.name
  BY <1>1, <1>2, EntryNames DEF Folder
<1>4. \A e : LineOf(e) = [name |-> e.name, dir |-> LineOf(e).dir, first |-> "own"]
             /\ LineOf(e).dir \in BOOLEAN
  BY DEF LineOf, Line, IsFolder
<1>5. LinesOf(es) = [i \in 1 .. Len(es) |-> LineOf(es[i])]
  BY <1>1 DEF LinesOf
<1>6. \A i \in 1 .. Len(es) : LineOf(es[i]) \in Shown
                              /\ LineOf(es[i]).name = es[i].name
  BY <1>3, <1>4 DEF Shown
<1>7. LinesOf(es) \in Seq(Shown) /\ Len(LinesOf(es)) = Len(es)
  BY <1>1, <1>5, <1>6
<1>8. \A i \in 1 .. Len(es) : LinesOf(es)[i].name = es[i].name
  BY <1>5, <1>6
<1>9. Distinct(LinesOf(es))
  BY <1>1, <1>5, <1>8 DEF Distinct
<1> QED
  BY <1>3, <1>7, <1>8, <1>9

LEMMA LoadLastKeepsIInv ==
  ASSUME IInv, LoadLast
  PROVE  IInv'
<1> DEFINE es == loader.rest
           ls == LinesOf(es)
           up == IF loader.path = <<>> THEN <<>> ELSE <<Up>>
<1>1. /\ loader.open /\ ~loader.done /\ IsFolder(cur) /\ CardKept
      /\ es \in Seq(Range(Folder)) /\ Distinct(es)
      /\ Len(Folder) < Batch => es = Folder
  BY DEF LoadLast, Loading, IInv, Reading
<1>2. /\ lines' = up \o ls
      /\ loader' = [open |-> FALSE, done |-> TRUE, path |-> loader.path,
                    rest |-> <<>>]
      /\ dirs' = dirs - 1
      /\ phase' = "settle" /\ phase = "load"
      /\ tree' = tree /\ cur' = cur
  BY DEF LoadLast, LastLines, IInv, ListTyped
<1>3. index' \in Nat
  BY ConstantsAssumption DEF LoadLast, StickMoved
<1> HIDE DEF es
<1>4. /\ ls \in Seq(Shown) /\ Len(ls) = Len(es) /\ Distinct(ls)
      /\ \A i \in 1 .. Len(es) : /\ ls[i].name = es[i].name
                                 /\ ls[i].name # Up.name
                                 /\ ls[i].name # Placeholder.name
  BY <1>1, LinesOfData
<1>5. /\ up \in Seq(Shown) /\ Distinct(up)
      /\ \A i \in DOMAIN up : up[i].name = Up.name
  <2>1. Up \in Shown
    BY DEF Up, Line, Shown, NameSet
  <2> QED
    BY <2>1 DEF Distinct
<1> HIDE DEF ls, up
<1>6. /\ lines' \in Seq(Shown)
      /\ Len(lines') = Len(up) + Len(ls)
      /\ \A i \in 1 .. Len(ls) : lines'[Len(up) + i] = ls[i]
      /\ \A i \in 1 .. Len(lines') :
            \/ lines'[i].name = Up.name
            \/ \E k \in 1 .. Len(ls) : lines'[i] = ls[k]
      /\ Distinct(lines')
  <2>1. Len(up) \in Nat /\ DOMAIN up = 1 .. Len(up)
        /\ Len(ls) \in Nat /\ DOMAIN ls = 1 .. Len(ls)
    BY <1>4, <1>5
  <2>2. /\ up \o ls \in Seq(Shown)
        /\ Len(up \o ls) = Len(up) + Len(ls)
        /\ \A i \in 1 .. Len(up) : (up \o ls)[i] = up[i]
        /\ \A i \in 1 .. Len(ls) : (up \o ls)[Len(up) + i] = ls[i]
        /\ \A i \in 1 .. Len(up \o ls) :
               \/ i \in 1 .. Len(up)
               \/ i - Len(up) \in 1 .. Len(ls) /\ (up \o ls)[i] = ls[i - Len(up)]
    <3>1. up \in Seq(Shown) /\ ls \in Seq(Shown)
      BY <1>4, <1>5
    <3> QED
      BY <3>1, JoinData, Zenon
  <2>3. \A i \in DOMAIN up, j \in DOMAIN ls : up[i].name # ls[j].name
    BY <1>4, <1>5, <2>1
  <2>4. Distinct(up \o ls)
    BY <1>4, <1>5, <2>3, JoinDistinct
  <2>5. \A i \in 1 .. Len(up \o ls) :
            \/ (up \o ls)[i].name = Up.name
            \/ \E k \in 1 .. Len(ls) : (up \o ls)[i] = ls[k]
    BY <1>5, <2>1, <2>2
  <2> QED
    BY <1>2, <2>2, <2>4, <2>5
<1>7. DOMAIN lines' = 1 .. Len(lines') /\ Len(up) \in Nat /\ Len(ls) \in Nat
      /\ \A i \in DOMAIN lines' : lines'[i] \in Shown
  BY <1>4, <1>5, <1>6
<1>8. TypeOK' /\ ListTyped' /\ HandleKept'
  <2>1. dirs \in 0 .. MaxDirs /\ dirs > 0 /\ Own = 1 /\ dirs - Own < MaxDirs
    BY <1>1, <1>2 DEF IInv, TypeOK, HandleKept, Own
  <2>2. dirs' \in 0 .. MaxDirs /\ Own' = 0 /\ dirs' - Own' < MaxDirs
    BY <1>2, <2>1, ConstantsAssumption DEF Own
  <2>3. \A i \in DOMAIN lines' : /\ lines'[i].dir \in BOOLEAN
                                 /\ lines'[i].first \in {"own", "star", "blank"}
    BY <1>7 DEF Shown
  <2> QED
    BY <1>2, <1>3, <1>6, <2>2, <2>3 DEF TypeOK, ListTyped, HandleKept
<1>9. Reading' /\ CardKept'
  BY <1>1, <1>2 DEF Reading, IsFolder, CardKept
<1>10. ShownBelongsToCur'
  <2>1. ASSUME NEW i \in DOMAIN lines', IsEntry(lines'[i])
        PROVE  \E e \in Range(Folder) : e.name = lines'[i].name
    <3>1. PICK k \in 1 .. Len(ls) : lines'[i] = ls[k]
      BY <1>6, <1>7, <2>1 DEF IsEntry
    <3>2. ls[k].name = es[k].name /\ es[k] \in Range(Folder)
      BY <1>1, <1>4
    <3> QED
      BY <3>1, <3>2
  <2>2. \A i, j \in DOMAIN lines' : lines'[i].name = lines'[j].name => i = j
    BY <1>6 DEF Distinct
  <2> QED
    BY <1>1, <1>2, <2>1, <2>2 DEF ShownBelongsToCur, IsFolder, IsEntry, Folder
<1>11. SmallFolderWhole'
  <2>1. \A i \in DOMAIN lines' : lines'[i].name # Placeholder.name
    <3>1. Up.name # Placeholder.name
      <4>1. Up.name = <<".", ".">> /\ Placeholder.name = <<"L", "oading...">>
        BY DEF Up, Placeholder, Line, Dots
      <4>2. Up.name[1] = "." /\ Placeholder.name[1] = "L"
        BY <4>1
      <4> QED
        BY <4>2
    <3> QED
      BY <1>4, <1>6, <1>7, <3>1
  <2>2. ASSUME Len(Folder) < Batch, NEW e \in Range(Folder)
        PROVE  \E i \in DOMAIN lines' : lines'[i].name = e.name
    <3>1. es = Folder
      BY <1>1, <2>2
    <3>2. PICK k \in DOMAIN es : es[k] = e
      BY <2>2, <3>1 DEF Range
    <3>3. k \in 1 .. Len(ls)
      BY <1>1, <1>4, <3>2
    <3>4. lines'[Len(up) + k] = ls[k] /\ ls[k].name = e.name
      BY <1>4, <1>6, <3>2, <3>3
    <3>5. Len(up) + k \in DOMAIN lines'
      BY <1>6, <1>7, <3>3
    <3> QED
      BY <3>4, <3>5
  <2> QED
    BY <1>2, <2>1, <2>2 DEF SmallFolderWhole, Folder
<1> QED
  BY <1>8, <1>9, <1>10, <1>11 DEF IInv

LEMMA LoadBatchKeepsIInv ==
  ASSUME IInv, LoadBatch
  PROVE  IInv'
<1> DEFINE es   == SubSeq(loader.rest, 1, Batch)
           left == SubSeq(loader.rest, Batch + 1, Len(loader.rest))
           ls   == LinesOf(es)
           kept == Kept
<1>1. /\ loader.open /\ ~loader.done /\ IsFolder(cur) /\ CardKept
      /\ loader.rest \in Seq(Range(Folder)) /\ Distinct(loader.rest)
      /\ Len(Folder) < Batch => loader.rest = Folder
      /\ Len(loader.rest) >= Batch
      /\ \A i \in DOMAIN lines, k \in DOMAIN loader.rest :
             lines[i].name # loader.rest[k].name
      /\ lines \in Seq(Shown)
      /\ \A i, j \in DOMAIN lines : lines[i].name = lines[j].name => i = j
      /\ \A i \in DOMAIN lines : IsEntry(lines[i]) =>
            \E e \in Range(Folder) : e.name = lines[i].name
  BY DEF LoadBatch, Loading, IInv, Reading, ListTyped, ShownBelongsToCur, Folder
<1>2. /\ lines' = kept \o ls
      /\ loader' = [open |-> TRUE, done |-> FALSE, path |-> loader.path,
                    rest |-> left]
      /\ dirs' = dirs
      /\ phase' = "settle" /\ phase = "load"
      /\ tree' = tree /\ cur' = cur
  <2>1. loader' = [loader EXCEPT !.rest = left]
    BY DEF LoadBatch
  <2>2. loader = [open |-> TRUE, done |-> FALSE, path |-> loader.path,
                  rest |-> loader.rest]
    BY <1>1, Zenon DEF IInv, ListTyped
  <2> HIDE DEF left
  <2>3. PICK q, old : loader = [open |-> TRUE, done |-> FALSE,
                                path |-> q, rest |-> old]
    BY <2>2, Zenon
  <2>4. loader' = [open |-> TRUE, done |-> FALSE, path |-> loader.path,
                   rest |-> left]
    BY <2>1, <2>3
  <2> QED
    BY <2>4 DEF LoadBatch
<1>3. index' \in Nat
  BY ConstantsAssumption DEF LoadBatch, StickMoved
<1>4. Batch \in Nat \ {0} /\ Len(loader.rest) \in Nat
  BY <1>1, ConstantsAssumption
<1>5. /\ es \in Seq(Range(Folder)) /\ Len(es) = Batch
      /\ \A i \in 1 .. Batch : es[i] = loader.rest[i]
  BY <1>1, <1>4
<1>6. /\ left \in Seq(Range(Folder)) /\ Len(left) = Len(loader.rest) - Batch
      /\ \A i \in 1 .. Len(loader.rest) - Batch : left[i] = loader.rest[i + Batch]
  BY <1>1, <1>4
<1> HIDE DEF es, left
<1>7. Distinct(es)
  <2>1. DOMAIN es = 1 .. Batch /\ DOMAIN loader.rest = 1 .. Len(loader.rest)
    BY <1>1, <1>4, <1>5
  <2> QED
    BY <1>1, <1>4, <1>5, <2>1 DEF Distinct
<1>8. /\ DOMAIN left = 1 .. Len(loader.rest) - Batch
      /\ DOMAIN loader.rest = 1 .. Len(loader.rest)
      /\ \A i \in DOMAIN left : i + Batch \in DOMAIN loader.rest
                                /\ left[i] = loader.rest[i + Batch]
                                /\ i + Batch \notin 1 .. Batch
  <2>1. DOMAIN left = 1 .. Len(left) /\ DOMAIN loader.rest = 1 .. Len(loader.rest)
    BY <1>1, <1>6
  <2>2. \A i \in 1 .. Len(loader.rest) - Batch :
           i + Batch \in 1 .. Len(loader.rest) /\ i + Batch \notin 1 .. Batch
    BY <1>4
  <2> QED
    BY <1>6, <2>1, <2>2
<1>9. Distinct(left)
  BY <1>1, <1>4, <1>8 DEF Distinct
<1>10. /\ ls \in Seq(Shown) /\ Len(ls) = Batch /\ Distinct(ls)
       /\ \A i \in 1 .. Batch : /\ ls[i].name = loader.rest[i].name
                                /\ i \in DOMAIN loader.rest
  <2>1. /\ ls \in Seq(Shown) /\ Len(ls) = Len(es) /\ Distinct(ls)
        /\ \A i \in 1 .. Len(es) : ls[i].name = es[i].name
    BY <1>1, <1>5, <1>7, LinesOfData
  <2> QED
    BY <1>1, <1>4, <1>5, <1>8, <2>1
<1>11. /\ kept \in Seq(Shown) /\ Distinct(kept)
       /\ \A i \in DOMAIN kept : i \in DOMAIN lines /\ kept[i] = lines[i]
  BY <1>1 DEF Kept, Distinct
<1> HIDE DEF ls, kept
<1>12. /\ DOMAIN ls = 1 .. Batch /\ Len(kept) \in Nat /\ DOMAIN kept = 1 .. Len(kept)
  BY <1>4, <1>10, <1>11
<1>13. /\ lines' \in Seq(Shown)
       /\ Distinct(lines')
       /\ \A i \in DOMAIN lines' :
             \/ i \in DOMAIN kept /\ lines'[i] = kept[i]
             \/ \E k \in 1 .. Batch : lines'[i] = ls[k]
       /\ \A i \in DOMAIN lines' : lines'[i] \in Shown
  <2>1. \A i \in DOMAIN kept, j \in DOMAIN ls : kept[i].name # ls[j].name
    BY <1>1, <1>10, <1>11, <1>12
  <2>2. Distinct(kept \o ls)
    BY <1>10, <1>11, <2>1, JoinDistinct
  <2>3. /\ kept \o ls \in Seq(Shown)
        /\ \A i \in 1 .. Len(kept) : (kept \o ls)[i] = kept[i]
        /\ \A i \in 1 .. Len(kept \o ls) :
               \/ i \in 1 .. Len(kept)
               \/ i - Len(kept) \in 1 .. Len(ls) /\ (kept \o ls)[i] = ls[i - Len(kept)]
    <3>1. kept \in Seq(Shown) /\ ls \in Seq(Shown)
      BY <1>10, <1>11
    <3> QED
      BY <3>1, JoinData, Zenon
  <2>4. DOMAIN (kept \o ls) = 1 .. Len(kept \o ls)
    BY <2>3
  <2> QED
    BY <1>2, <1>10, <1>12, <2>2, <2>3, <2>4
<1>14. TypeOK' /\ ListTyped' /\ HandleKept'
  <2>1. dirs \in 0 .. MaxDirs /\ dirs > 0 /\ Own = 1 /\ dirs - Own < MaxDirs
    BY <1>1, <1>2 DEF IInv, TypeOK, HandleKept, Own
  <2>2. dirs' \in 0 .. MaxDirs /\ dirs' > 0 /\ Own' = 1 /\ dirs' - Own' < MaxDirs
    BY <1>2, <2>1, ConstantsAssumption DEF Own
  <2>3. \A i \in DOMAIN lines' : /\ lines'[i].dir \in BOOLEAN
                                 /\ lines'[i].first \in {"own", "star", "blank"}
    BY <1>13 DEF Shown
  <2>4. left \in Seq(Range(Tree[Resolve(cur)]))
    <3>1. Range(Folder) \subseteq Range(Tree[Resolve(cur)])
      BY <1>1 DEF IsFolder, CardKept, Folder
    <3> QED
      BY <1>6, <3>1
  <2>5. TypeOK'
    BY <1>2, <1>3, <2>2, <2>3, <2>4 DEF TypeOK
  <2> QED
    BY <1>2, <1>13, <2>2, <2>5 DEF ListTyped, HandleKept
<1>15. Reading'
  <2>1. ~(Len(Folder) < Batch)
    BY <1>1, <1>4
  <2>2. ASSUME NEW i \in DOMAIN lines', NEW k \in DOMAIN left
        PROVE  lines'[i].name # left[k].name
    <3>1. k + Batch \in DOMAIN loader.rest /\ left[k] = loader.rest[k + Batch]
          /\ k + Batch \notin 1 .. Batch
      BY <1>8
    <3>2. CASE i \in DOMAIN kept /\ lines'[i] = kept[i]
      BY <1>1, <1>11, <3>1, <3>2
    <3>3. ASSUME NEW n \in 1 .. Batch, lines'[i] = ls[n]
          PROVE  lines'[i].name # left[k].name
      <4>1. ls[n].name = loader.rest[n].name /\ n \in DOMAIN loader.rest
        BY <1>10
      <4>2. loader.rest[n].name # loader.rest[k + Batch].name
        BY <1>1, <3>1, <4>1 DEF Distinct
      <4> QED
        BY <3>1, <3>3, <4>1, <4>2
    <3> QED
      BY <1>13, <3>2, <3>3
  <2>3. Folder' = Folder /\ IsFolder(cur)'
    BY <1>1, <1>2 DEF Folder, IsFolder
  <2> QED
    BY <1>2, <1>6, <1>9, <2>1, <2>2, <2>3 DEF Reading
<1>16. CardKept'
  BY <1>1, <1>2 DEF CardKept
<1>17. ShownBelongsToCur'
  <2>1. ASSUME NEW i \in DOMAIN lines', IsEntry(lines'[i])
        PROVE  \E e \in Range(Folder) : e.name = lines'[i].name
    <3>1. CASE i \in DOMAIN kept /\ lines'[i] = kept[i]
      <4>1. i \in DOMAIN lines /\ lines'[i] = lines[i]
        BY <1>11, <3>1
      <4> QED
        BY <1>1, <2>1, <4>1
    <3>2. ASSUME NEW k \in 1 .. Batch, lines'[i] = ls[k]
          PROVE  \E e \in Range(Folder) : e.name = lines'[i].name
      BY <1>1, <1>10, <3>2
    <3> QED
      BY <1>13, <3>1, <3>2
  <2>2. \A i, j \in DOMAIN lines' : lines'[i].name = lines'[j].name => i = j
    BY <1>13 DEF Distinct
  <2> QED
    BY <1>1, <1>2, <2>1, <2>2 DEF ShownBelongsToCur, IsFolder, IsEntry, Folder
<1>18. SmallFolderWhole'
  BY <1>2 DEF SmallFolderWhole
<1> QED
  BY <1>14, <1>15, <1>16, <1>17, <1>18 DEF IInv

\* What a folder holds after remove: one entry less.
LEMMA RemovedKeepsCard ==
  ASSUME CardKept, NEW f \in DOMAIN Tree, NEW k \in DOMAIN tree[f],
         tree' = [tree EXCEPT ![f] = RemoveAt(@, k)]
  PROVE  CardKept'
<1> DEFINE s    == tree[f]
           less == RemoveAt(s, k)
<1>1. /\ s \in Seq(AllEntries) /\ Distinct(s)
      /\ Range(s) \subseteq Range(Tree[f])
      /\ tree \in [DOMAIN Tree -> Seq(AllEntries)]
  BY DEF CardKept
<1>2. /\ Len(s) \in Nat /\ DOMAIN s = 1 .. Len(s)
      /\ k \in Nat /\ k >= 1 /\ k <= Len(s)
  BY <1>1
<1>3. /\ less \in Seq(AllEntries)
      /\ Len(less) = Len(s) - 1
      /\ \A i \in 1 .. Len(s) - 1 : less[i] = IF i < k THEN s[i] ELSE s[i + 1]
  BY <1>1, RemoveAtData
<1>4. tree' = [tree EXCEPT ![f] = less]
  OBVIOUS
<1> HIDE DEF less, s
<1>5. DOMAIN less = 1 .. Len(s) - 1
  BY <1>2, <1>3
<1>6. Range(less) \subseteq Range(s)
  <2> SUFFICES ASSUME NEW i \in DOMAIN less PROVE less[i] \in Range(s)
    BY Zenon DEF Range
  <2>1. CASE i < k
    <3>1. less[i] = s[i] /\ i \in DOMAIN s
      BY <1>2, <1>3, <1>5, <2>1
    <3> QED
      BY <3>1 DEF Range
  <2>2. CASE ~(i < k)
    <3>1. less[i] = s[i + 1] /\ i + 1 \in DOMAIN s
      BY <1>2, <1>3, <1>5, <2>2
    <3> QED
      BY <3>1 DEF Range
  <2> QED
    BY <2>1, <2>2
<1>7. Distinct(less)
  <2> SUFFICES ASSUME NEW i \in 1 .. Len(s) - 1, NEW j \in 1 .. Len(s) - 1,
                      less[i].name = less[j].name
               PROVE  i = j
    BY <1>5 DEF Distinct
  <2> DEFINE at(n) == IF n < k THEN n ELSE n + 1
  <2>1. /\ at(i) \in DOMAIN s /\ at(j) \in DOMAIN s
        /\ less[i] = s[at(i)] /\ less[j] = s[at(j)]
    BY <1>2, <1>3
  <2>2. at(i) = at(j)
    <3> HIDE DEF at
    <3> QED
      BY <1>1, <2>1 DEF Distinct
  <2> QED
    BY <1>2, <2>2
<1>8. /\ tree' \in [DOMAIN Tree -> Seq(AllEntries)]
      /\ tree'[f] = less
      /\ \A g \in DOMAIN Tree : g # f => tree'[g] = tree[g]
  BY <1>1, <1>3, <1>4
<1>9. ASSUME NEW g \in DOMAIN Tree
      PROVE  Range(tree'[g]) \subseteq Range(Tree[g]) /\ Distinct(tree'[g])
  <2>1. CASE g = f
    BY <1>1, <1>6, <1>7, <1>8, <2>1
  <2>2. CASE g # f
    BY <1>8, <2>2 DEF CardKept
  <2> QED
    BY <2>1, <2>2
<1> QED
  BY <1>8, <1>9 DEF CardKept

\* Facts every step of the frame relies on.
LEMMA Room ==
  ASSUME IInv, phase # "closed" \/ dirs < MaxDirs
  PROVE  /\ dirs - Own < MaxDirs /\ CardKept /\ ListTyped
         /\ DOMAIN tree = DOMAIN Tree /\ <<>> \in DOMAIN Tree
         /\ index \in Nat /\ dirs \in 0 .. MaxDirs
<1>1. dirs \in 0 .. MaxDirs /\ Own \in {0, 1}
      /\ (phase = "closed" => Own = 0)
  BY DEF IInv, TypeOK, HandleKept, Own
<1>2. dirs - Own < MaxDirs
  BY <1>1, ConstantsAssumption DEF IInv, HandleKept
<1> QED
  BY <1>1, <1>2, ConstantsAssumption DEF IInv, CardKept, TypeOK

LEMMA OpenKeepsIInv ==
  ASSUME IInv, NEW start, OpenExplorer(start)
  PROVE  IInv'
<1>1. /\ phase' = "load" /\ index' = 1 /\ tree' = tree /\ dirs < MaxDirs
      /\ \/ /\ Resolve(start) \in DOMAIN tree /\ cur' = start
            /\ Reopened(start, tree[Resolve(start)])
         \/ Reopened(start, tree[<<>>]) /\ cur' = <<>>
  BY DEF OpenExplorer, IsFolder
<1>2. /\ Resolve(cur') \in DOMAIN Tree
      /\ Reopened(start, tree'[Resolve(cur')])
  BY <1>1, Room, ResolveRoot
<1>3. CardKept'
  BY <1>1, Room DEF CardKept
<1> QED
  BY <1>1, <1>2, <1>3, Room, ReopenedKeepsIInv

LEMMA ShakeKeepsIInv ==
  ASSUME IInv, Shake
  PROVE  IInv'
<1>1. /\ phase = "settle" /\ phase' = "act" /\ index' = 1 /\ tree' = tree
      /\ \/ /\ Resolve(cur) \in DOMAIN tree /\ cur' = cur
            /\ Reopened(cur, tree[Resolve(cur)])
         \/ Reopened(cur, tree[<<>>]) /\ cur' = <<>>
  BY DEF Shake, IsFolder
<1>2. /\ Resolve(cur') \in DOMAIN Tree
      /\ Reopened(cur, tree'[Resolve(cur')])
  BY <1>1, Room, ResolveRoot
<1>3. CardKept'
  BY <1>1, Room DEF CardKept
<1> QED
  BY <1>1, <1>2, <1>3, Room, ReopenedKeepsIInv

LEMMA DeleteKeepsIInv ==
  ASSUME IInv, DeleteFile
  PROVE  IInv'
<1> DEFINE folder == Resolve(cur)
<1>1. /\ phase = "act" /\ phase' = "load" /\ folder \in DOMAIN tree
      /\ cur' = cur /\ index' = index
      /\ \E k \in DOMAIN tree[folder] :
            tree' = [tree EXCEPT ![folder] = RemoveAt(@, k)]
      /\ \/ Reopened(cur, tree'[folder])
         \/ ReopenFailed(cur) /\ lines' = <<>>
  BY DEF DeleteFile, AtLine, IsFolder
<1>2. CardKept'
  BY <1>1, Room, RemovedKeepsCard
<1>3. CASE Reopened(cur, tree'[folder])
  <2>1. Resolve(cur') \in DOMAIN Tree /\ Reopened(cur, tree'[Resolve(cur')])
    BY <1>1, <1>3, Room
  <2> QED
    BY <1>1, <1>2, <2>1, Room, ReopenedKeepsIInv
<1>4. CASE ReopenFailed(cur) /\ lines' = <<>>
  BY <1>1, <1>2, <1>4, FailedKeepsIInv
<1> QED
  BY <1>1, <1>3, <1>4

LEMMA CalmKeepsIInv ==
  ASSUME IInv, Calm
  PROVE  IInv'
<1>1. PICK p \in Bijection(DOMAIN lines, DOMAIN lines) :
        lines' = [i \in DOMAIN lines |-> lines[p[i]]]
  BY DEF Calm, Ordered
<1>2. /\ phase = "settle" /\ phase' = "act" /\ index' = Clamped(lines)
      /\ UNCHANGED <<tree, cur, loader, dirs>>
  BY DEF Calm
<1>3. lines \in Seq(Shown) /\ Len(lines) \in Nat /\ DOMAIN lines = 1 .. Len(lines)
      /\ index \in Nat
  BY DEF IInv, ListTyped, TypeOK
<1>4. \A i \in DOMAIN lines : p[i] \in DOMAIN lines
  BY Zenon DEF Bijection, Injection
<1>5. lines' \in Seq(Shown) /\ Len(lines') = Len(lines)
  <2>1. lines' = [i \in 1 .. Len(lines) |-> lines[p[i]]]
    BY <1>1, <1>3
  <2>2. \A i \in 1 .. Len(lines) : lines[p[i]] \in Shown
    BY <1>3, <1>4
  <2> QED
    BY <1>3, <2>1, <2>2
<1>6. /\ index' \in Nat
      /\ lines # <<>> => index' \in DOMAIN lines
  <2>1. lines # <<>> => Len(lines) >= 1
    BY <1>3
  <2> QED
    BY <1>2, <1>3, <2>1 DEF Clamped
<1>7. \A i \in DOMAIN lines : lines'[i].name = lines[p[i]].name
  BY <1>1
<1>8. DOMAIN lines' = DOMAIN lines /\ (lines' # <<>> => lines # <<>>)
  BY <1>3, <1>5
<1> QED
  BY <1>2, <1>5, <1>6, <1>7, <1>8, RearrangedKeepsIInv

LEMMA MarkKeepsIInv ==
  ASSUME IInv, ToggleMark
  PROVE  IInv'
<1> DEFINE p == [i \in DOMAIN lines |-> i]
<1>1. /\ phase = "act" /\ phase' = "load" /\ index' = index
      /\ lines' = [lines EXCEPT ![index].first =
                     IF @ = "star" THEN "blank" ELSE "star"]
      /\ UNCHANGED <<tree, cur, loader, dirs>>
  BY DEF ToggleMark, AtLine
<1>2. lines \in Seq(Shown) /\ index \in Nat /\ DOMAIN lines = 1 .. Len(lines)
      /\ Len(lines) \in Nat
  BY DEF IInv, ListTyped, TypeOK
<1>3. p \in Bijection(DOMAIN lines, DOMAIN lines)
  BY DEF Bijection, Injection, Surjection, IsInjective
<1>4. /\ DOMAIN lines' = 1 .. Len(lines)
      /\ lines' = [i \in 1 .. Len(lines) |-> lines'[i]]
      /\ \A i \in 1 .. Len(lines) :
            lines'[i] \in Shown /\ lines'[i].name = lines[i].name
  <2>1. \A i \in 1 .. Len(lines) : lines[i] \in Shown
    BY <1>2
  <2> QED
    BY <1>1, <1>2, <2>1 DEF Shown
<1>5. lines' \in Seq(Shown) /\ Len(lines') = Len(lines)
  BY <1>2, <1>4
<1>6. \A i \in DOMAIN lines : lines'[i].name = lines[p[i]].name
  BY <1>2, <1>4
<1> HIDE DEF p
<1> QED
  BY <1>1, <1>2, <1>3, <1>5, <1>6, RearrangedKeepsIInv

LEMMA StepKeepsIInv ==
  ASSUME IInv, [Next]_vars
  PROVE  IInv'
<1>1. ASSUME NEW start \in Starts, OpenExplorer(start) PROVE IInv'
  BY <1>1, OpenKeepsIInv
<1>2. CASE LoadBatch
  BY <1>2, LoadBatchKeepsIInv
<1>3. CASE LoadLast
  BY <1>3, LoadLastKeepsIInv
<1>4. CASE LoadNothing
  <2>1. index' \in Nat
    BY <1>4, ConstantsAssumption DEF LoadNothing, StickMoved
  <2> QED
    BY <1>4, <2>1, SameListKeepsIInv DEF LoadNothing
<1>5. CASE Calm
  BY <1>5, CalmKeepsIInv
<1>6. CASE Shake
  BY <1>6, ShakeKeepsIInv
<1>7. CASE ShakeFails
  <2>1. /\ ReopenFailed(cur) /\ lines' = <<>> /\ phase # "closed"
        /\ phase' = "load" /\ index' = index /\ tree' = tree
    BY <1>7 DEF ShakeFails
  <2>2. CardKept'
    BY <2>1, Room DEF CardKept
  <2> QED
    BY <2>1, <2>2, FailedKeepsIInv
<1>8. CASE MoveCursor
  <2>1. index' \in Nat
    BY <1>8, Room DEF MoveCursor, ListTyped
  <2> QED
    BY <1>8, <2>1, SameListKeepsIInv DEF MoveCursor
<1>9. CASE OpenFolder
  <2>1. /\ phase = "act" /\ phase' = "load" /\ index' = index /\ tree' = tree
        /\ Resolve(cur') \in DOMAIN tree
        /\ Reopened(cur', tree'[Resolve(cur')])
    BY <1>9 DEF OpenFolder, AtLine, IsFolder
  <2>2. CardKept'
    BY <2>1, Room DEF CardKept
  <2> QED
    BY <2>1, <2>2, Room, ReopenedKeepsIInv
<1>10. CASE OpenFolderFails
  <2>1. /\ phase = "act" /\ phase' = "load" /\ index' = index
        /\ ReopenFailed(PathOf(Here)) /\ UNCHANGED <<tree, cur, lines>>
    BY <1>10 DEF OpenFolderFails, AtLine
  <2>2. CardKept'
    BY <2>1, Room DEF CardKept
  <2> QED
    BY <2>1, <2>2, FailedKeepsIInv
<1>11. CASE DeleteFile
  BY <1>11, DeleteKeepsIInv
<1>12. CASE ToggleMark
  BY <1>12, MarkKeepsIInv
<1>13. CASE Bulk
  BY <1>13, Room, SameListKeepsIInv DEF Bulk
<1>14. CASE Back
  <2>1. /\ phase' = "closed" /\ lines' = <<>> /\ cur' = <<>> /\ index' = 1
        /\ loader' = NoLoader /\ tree' = tree /\ dirs' = dirs
        /\ dirs \in 0 .. MaxDirs
    BY <1>14, Room DEF Back
  <2>2. CardKept'
    BY <2>1 DEF IInv, CardKept
  <2>3. TypeOK' /\ ListTyped' /\ HandleKept' /\ Reading'
    BY <2>1 DEF TypeOK, ListTyped, HandleKept, Reading, NoLoader, Own
  <2>4. ShownBelongsToCur' /\ SmallFolderWhole'
    BY <2>1 DEF ShownBelongsToCur, SmallFolderWhole
  <2> QED
    BY <2>2, <2>3, <2>4 DEF IInv
<1>15. CASE UNCHANGED vars
  BY <1>15 DEF vars, IInv, TypeOK, CardKept, ListTyped, HandleKept, Reading,
     ShownBelongsToCur, SmallFolderWhole, Folder, IsFolder, IsEntry, Own
<1> QED
  BY <1>1, <1>2, <1>3, <1>4, <1>5, <1>6, <1>7, <1>8, <1>9, <1>10, <1>11,
     <1>12, <1>13, <1>14, <1>15 DEF Next, Load, Settle, Act

LEMMA Invariant == Spec => []IInv
BY InitIInv, StepKeepsIInv, PTL DEF Spec

-----------------------------------------------------------------------------
(* The theorems.                                                           *)

\* The explorer's variables keep their types whatever the card holds and
\* however large a batch is; when a button is handled the cursor is on a
\* line; and the handles that pile up stay within their bound.
THEOREM TypeCorrect == Spec => []TypeOK
<1>1. IInv => TypeOK
  BY DEF IInv
<1> QED
  BY <1>1, Invariant, PTL

\* Every line shown names an entry that is in the folder the explorer says
\* it is in, and none is shown twice (explorer_list_batch, file_explorer.c).
THEOREM ShownBelongsToCurHolds == Spec => []ShownBelongsToCur
<1>1. IInv => ShownBelongsToCur
  BY DEF IInv
<1> QED
  BY <1>1, Invariant, PTL

\* A folder of less than a batch is shown whole once it is loaded, whatever
\* was reloaded, deleted, sorted or marked before.
THEOREM SmallFolderWholeHolds == Spec => []SmallFolderWhole
<1>1. IInv => SmallFolderWhole
  BY DEF IInv
<1> QED
  BY <1>1, Invariant, PTL

\* While the explorer runs, a folder handle is gained or lost exactly when
\* the loader gains or loses one.
THEOREM HandlesFollowLoaderHolds == Spec => HandlesFollowLoader
<1> DEFINE A == phase # "closed" /\ phase' # "closed" => dirs' - dirs = Own' - Own
<1>1. ASSUME IInv, [Next]_vars PROVE [A]_vars
  <2> SUFFICES ASSUME Next, phase # "closed", phase' # "closed"
               PROVE  dirs' - dirs = Own' - Own
    BY <1>1
  <2>1. dirs \in Nat /\ Own \in {0, 1} /\ loader \in [open : BOOLEAN, done : BOOLEAN, path : {loader.path}, rest : {loader.rest}]
    BY <1>1 DEF IInv, TypeOK, ListTyped, Own
  <2>2. ASSUME NEW path, NEW rest, Reopened(path, rest)
        PROVE  dirs' - dirs = Own' - Own
    BY <2>1, <2>2 DEF Reopened, Own
  <2>3. ASSUME NEW path, ReopenFailed(path)
        PROVE  dirs' - dirs = Own' - Own
    BY <2>1, <2>3 DEF ReopenFailed, Own
  <2>4. ASSUME dirs' = dirs, loader'.open = loader.open
        PROVE  dirs' - dirs = Own' - Own
    BY <2>1, <2>4 DEF Own
  <2>5. CASE LoadLast
    BY <2>1, <2>5 DEF LoadLast, Loading, Own
  <2>6. CASE LoadBatch
    BY <2>1, <2>4, <2>6 DEF LoadBatch
  <2>7. CASE LoadNothing \/ Calm \/ MoveCursor \/ ToggleMark \/ Bulk
    BY <2>4, <2>7 DEF LoadNothing, Calm, MoveCursor, ToggleMark, Bulk
  <2>8. CASE Shake
    BY <2>2, <2>8 DEF Shake
  <2>9. CASE ShakeFails \/ OpenFolderFails
    BY <2>3, <2>9 DEF ShakeFails, OpenFolderFails
  <2>10. CASE OpenFolder
    BY <2>2, <2>10 DEF OpenFolder
  <2>11. CASE DeleteFile
    BY <2>2, <2>3, <2>11 DEF DeleteFile
  <2>12. ~Back /\ \A start \in Starts : ~OpenExplorer(start)
    BY DEF Back, OpenExplorer
  <2> QED
    BY <2>5, <2>6, <2>7, <2>8, <2>9, <2>10, <2>11, <2>12 DEF Next, Load, Settle, Act
<1> QED
  BY <1>1, Invariant, PTL DEF Spec, HandlesFollowLoader

=============================================================================
