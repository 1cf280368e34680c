---------------------------- MODULE StorageProofs ----------------------------
(***************************************************************************)
(* What module Storage guarantees for every content of the card.           *)
(***************************************************************************)
EXTENDS Storage, Integers, SequenceTheorems, TLAPS

-----------------------------------------------------------------------------
(* A secured move.                                                         *)

\* What may be in either place of a move: nothing, or a file.
Held == [kind : {"none", "file"}, data : Seq(Chunk)]

\* What a move may be at.
Moves ==
  [stage : {"copy", "compare", "wipe", "drop", "done"}, before : Seq(Chunk),
   clean : BOOLEAN, rc : {"ok", "err"}, at : Nat]

\* A move that has begun.
Begun == [X!NoMove EXCEPT !.stage = "copy", !.before = src.data, !.clean = TRUE]

\* One that could not begin.
GivenUp == X!At(X!Failed(Begun), "done")

\* The types of the three variables.
MoveType ==
  /\ src \in Held
  /\ dst \in Held
  /\ move \in Moves

\* Until it is wiped, the source is what it was; what is copied is a beginning
\* of it, and all of it when the comparison begins; while the source is being
\* wiped the destination is whole.
MoveInv ==
  /\ move.stage \in {"copy", "compare", "drop"} => src = X!File(move.before)
  /\ move.stage = "copy" =>
       /\ Len(dst.data) <= Len(move.before)
       /\ dst = X!File(SubSeq(move.before, 1, Len(dst.data)))
  /\ move.stage \in {"compare", "wipe"} /\ move.clean => dst = X!File(move.before)
  /\ move.clean => src = X!File(move.before) \/ dst = X!File(move.before)

IMove == running = "secured" => MoveType /\ MoveInv

\* One more element of a sequence.
LEMMA ExtendPrefix ==
  ASSUME NEW T, NEW s \in Seq(T), NEW n \in Nat, n < Len(s)
  PROVE  /\ Append(SubSeq(s, 1, n), s[n + 1]) = SubSeq(s, 1, n + 1)
         /\ SubSeq(s, 1, n + 1) \in Seq(T) /\ Len(SubSeq(s, 1, n + 1)) = n + 1
<1>1. SubSeq(s, 1, n) \in Seq(T) /\ Len(SubSeq(s, 1, n)) = n
  OBVIOUS
<1>2. SubSeq(s, 1, n + 1) \in Seq(T) /\ Len(SubSeq(s, 1, n + 1)) = n + 1
  OBVIOUS
<1>3. /\ Append(SubSeq(s, 1, n), s[n + 1]) \in Seq(T)
      /\ Len(Append(SubSeq(s, 1, n), s[n + 1])) = n + 1
  BY <1>1
<1>4. ASSUME NEW i \in 1 .. n + 1
      PROVE  Append(SubSeq(s, 1, n), s[n + 1])[i] = SubSeq(s, 1, n + 1)[i]
  BY <1>1, <1>2
<1> QED
  BY <1>2, <1>3, <1>4

\* A file of chunks.
LEMMA FileHeld ==
  ASSUME NEW s \in Seq(Chunk)
  PROVE  X!File(s) \in Held /\ X!File(s).data = s /\ X!File(s).kind = "file"
BY DEF X!File, Held

\* No file.
LEMMA NoneHeld == X!None \in Held /\ X!None.kind = "none"
<1>1. <<>> \in Seq(Chunk)
  OBVIOUS
<1> QED
  BY <1>1 DEF X!None, Held

\* A file is the file of its chunks.
LEMMA HeldFile ==
  ASSUME NEW f \in Held, f.kind = "file"
  PROVE  f = X!File(f.data) /\ f.data \in Seq(Chunk)
BY DEF X!File, Held

\* Nothing is there and nothing moves at first.
LEMMA MoveInit == Init => IMove
<1> SUFFICES ASSUME X!Init PROVE MoveType /\ MoveInv
  BY DEF Init, IMove
<1>1. <<>> \in Seq(Chunk)
  OBVIOUS
<1>2. src \in Held /\ dst \in Held
  BY NoneHeld DEF X!Init
<1>3. move = X!NoMove
  BY DEF X!Init
<1> QED
  BY <1>1, <1>2, <1>3 DEF MoveType, MoveInv, Moves, X!NoMove

\* Whatever the secured part does, a failed read or write and a kill included,
\* keeps the move's invariant.
LEMMA MoveStep ==
  ASSUME IMove, running = "secured", X!Next
  PROVE  MoveType' /\ MoveInv'
<1>0. MoveType /\ MoveInv
  BY DEF IMove
<1>1. CASE X!MoveStart
  <2>1. src = X!File(src.data) /\ src.data \in Seq(Chunk) /\ src' = src
    BY <1>0, <1>1, HeldFile DEF X!MoveStart, MoveType
  <2>2. X!File(<<>>) \in Held /\ X!File(<<>>).data = <<>>
    <3>1. <<>> \in Seq(Chunk)
      OBVIOUS
    <3> QED
      BY <3>1, FileHeld
  <2>3. SubSeq(src.data, 1, 0) = <<>>
    BY <2>1
  <2>4. dst' \in {dst, X!File(<<>>)}
    BY <1>1 DEF X!MoveStart, X!Finish
  <2>5. X!NoMove \in Moves
    <3>1. <<>> \in Seq(Chunk)
      OBVIOUS
    <3> QED
      BY <3>1 DEF X!NoMove, Moves
  <2>6. Begun \in Moves /\ Begun.stage = "copy" /\ Begun.before = src.data
    BY <2>1, <2>5 DEF Begun, Moves
  <2>7. GivenUp \in Moves /\ GivenUp.stage = "done" /\ GivenUp.before = src.data
    BY <2>6 DEF GivenUp, X!Failed, X!At, Moves
  <2>8. \/ move' = GivenUp
        \/ move' = Begun /\ dst' = X!File(<<>>)
    BY <1>1 DEF X!MoveStart, X!Finish, X!Set, Begun, GivenUp
  <2>9. dst' \in Held
    BY <1>0, <2>2, <2>4 DEF MoveType
  <2>10. MoveType'
    BY <1>0, <2>1, <2>6, <2>7, <2>8, <2>9 DEF MoveType
  <2>11. CASE move' = GivenUp
    BY <2>1, <2>7, <2>10, <2>11 DEF MoveInv
  <2>12. CASE move' = Begun /\ dst' = X!File(<<>>)
    <3>1. dst'.data = <<>> /\ Len(dst'.data) = 0 /\ move'.before = src.data
      BY <2>2, <2>6, <2>12
    <3>2. dst' = X!File(SubSeq(move'.before, 1, Len(dst'.data)))
      BY <2>3, <2>12, <3>1
    <3>3. Len(dst'.data) <= Len(move'.before)
      BY <2>1, <3>1
    <3>4. src' = X!File(move'.before) /\ move'.stage = "copy"
      BY <2>1, <2>6, <2>12
    <3> QED
      BY <2>10, <3>2, <3>3, <3>4 DEF MoveInv
  <2> QED
    BY <2>8, <2>11, <2>12
<1>2. CASE X!MoveChunk
  <2> DEFINE n == Len(dst.data)
  <2>1. /\ src = X!File(move.before) /\ src' = src /\ src.data = move.before
        /\ dst = X!File(SubSeq(move.before, 1, n)) /\ n <= Len(move.before)
        /\ move.before \in Seq(Chunk) /\ n \in Nat /\ move.stage = "copy" /\ dst.data \in Seq(Chunk)
    BY <1>0, <1>2 DEF X!MoveChunk, MoveType, MoveInv, X!File, Held
  <2>2. CASE n < Len(src.data) /\ dst' = X!File(Append(dst.data, src.data[n + 1])) /\ UNCHANGED move
    <3>1. dst.data = SubSeq(move.before, 1, n)
      BY <2>1 DEF X!File
    <3>2. Append(dst.data, src.data[n + 1]) = SubSeq(move.before, 1, n + 1)
      BY <2>1, <2>2, <3>1, ExtendPrefix
    <3>3. SubSeq(move.before, 1, n + 1) \in Seq(Chunk) /\ Len(SubSeq(move.before, 1, n + 1)) = n + 1
      BY <2>1, <2>2
    <3>4. dst' \in Held /\ Len(dst'.data) = n + 1
      BY <2>2, <3>2, <3>3, FileHeld
    <3>5. MoveType'
      BY <1>0, <2>1, <2>2, <3>4 DEF MoveType
    <3> QED
      BY <1>0, <2>1, <2>2, <3>2, <3>4, <3>5 DEF MoveInv
  <2>3. CASE \E d \in X!Copies :
               /\ dst' = X!File(d)
               /\ move' = [move EXCEPT !.stage = "compare", !.clean = Len(d) = Len(src.data)]
    <3>1. PICK d \in X!Copies :
            /\ dst' = X!File(d)
            /\ move' = [move EXCEPT !.stage = "compare", !.clean = Len(d) = Len(src.data)]
      BY <2>3
    <3>2. d = dst.data \/ (n # 0 /\ d = SubSeq(dst.data, 1, n - 1))
      BY <2>1 DEF X!Copies
    <3>3. d \in Seq(Chunk) /\ (Len(d) = Len(move.before) => d = dst.data)
      BY <2>1, <3>2
    <3>4. dst' \in Held
      BY <3>1, <3>3, FileHeld
    <3>5. /\ move' \in Moves /\ move'.before = move.before /\ move'.stage = "compare"
          /\ move'.clean => Len(d) = Len(move.before)
      BY <1>0, <2>1, <3>1 DEF MoveType, Moves
    <3>6. move'.clean => dst' = X!File(move.before)
      <4>1. SubSeq(move.before, 1, Len(move.before)) = move.before
        BY <2>1
      <4>2. dst.data = SubSeq(move.before, 1, n)
        BY <2>1 DEF X!File
      <4> QED
        BY <3>1, <3>3, <3>5, <4>1, <4>2
    <3>7. MoveType'
      BY <1>0, <2>1, <3>4, <3>5 DEF MoveType
    <3> QED
      BY <2>1, <3>5, <3>6, <3>7 DEF MoveInv
  <2>4. CASE UNCHANGED dst /\ move' = [move EXCEPT !.rc = "err", !.stage = "drop"]
    <3>1. move' \in Moves /\ move'.before = move.before /\ move'.stage = "drop"
      BY <1>0, <2>4 DEF MoveType, Moves
    <3>2. MoveType'
      BY <1>0, <2>1, <2>4, <3>1 DEF MoveType
    <3> QED
      BY <2>1, <2>4, <3>1, <3>2 DEF MoveInv
  <2> QED
    BY <1>2, <2>2, <2>3, <2>4 DEF X!MoveChunk, X!At, X!Failed, X!Set
<1>3. CASE X!Compare
  BY <1>0, <1>3 DEF X!Compare, X!At, X!Failed, X!Set, X!File, MoveType, MoveInv, Moves, Held
<1>4. CASE X!Drop
  <2>1. /\ src = X!File(move.before) /\ src' = src
        /\ dst' \in {X!None, dst} /\ move' = [move EXCEPT !.stage = "done"]
    BY <1>0, <1>4 DEF X!Drop, X!Finish, X!At, MoveInv
  <2>2. dst' \in Held
    BY <1>0, <2>1, NoneHeld DEF MoveType
  <2> QED
    BY <1>0, <2>1, <2>2 DEF MoveType, MoveInv, Moves
<1>5. CASE X!Wipe
  <2>1. move.stage = "wipe" /\ dst' = dst /\ (move.clean => dst = X!File(move.before))
    BY <1>0, <1>5 DEF X!Wipe, MoveInv
  <2>2. /\ move' \in Moves /\ move'.stage \in {"wipe", "done"}
        /\ move'.before = move.before /\ move'.clean = move.clean
    <3>1. move \in Moves
      BY <1>0 DEF MoveType
    <3>2. CASE move' = [move EXCEPT !.at = @ + 1]
      BY <3>1, <3>2, <2>1 DEF Moves
    <3>3. CASE move' = [move EXCEPT !.stage = "done"]
      BY <3>1, <3>3, <2>1 DEF Moves
    <3>4. CASE move' = [[move EXCEPT !.rc = "err"] EXCEPT !.stage = "done"]
      BY <3>1, <3>4, <2>1 DEF Moves
    <3> QED
      BY <1>5, <3>2, <3>3, <3>4 DEF X!Wipe, X!AfterWipe, X!Failed, X!Finish, X!Set, X!At
  <2>3. X!Wiped(move.at + 1) \in Seq(Chunk)
    <3>1. Junk \in Chunk
      BY DEF Chunk
    <3>2. src.data \in Seq(Chunk)
      BY <1>0 DEF MoveType, Held
    <3> QED
      BY <3>1, <3>2 DEF X!Wiped
  <2>4. src' \in Held
    BY <1>0, <1>5, <2>3, FileHeld, NoneHeld DEF X!Wipe, MoveType
  <2>5. MoveType'
    BY <1>0, <2>1, <2>2, <2>4 DEF MoveType
  <2> QED
    BY <2>1, <2>2, <2>5 DEF MoveInv
<1>6. CASE X!NewFile
  BY <1>0, <1>6, DataAssumption DEF X!NewFile, X!Idle, X!Set, X!File, X!NoMove, MoveType, MoveInv, Moves, Held
<1>7. CASE X!Kill
  BY <1>0, <1>7 DEF X!Kill, X!At, X!Failed, X!Finish, MoveType, MoveInv, Moves, Held
<1>8. CASE UNCHANGED <<src, dst, move>>
  BY <1>0, <1>8 DEF MoveType, MoveInv
<1> QED
  BY <1>1, <1>2, <1>3, <1>4, <1>5, <1>6, <1>7, <1>8
  DEF X!Next, X!LogOperation, X!SecureInit, X!SecureExit, X!VerifyInit, X!Admit

\* Whatever the comparison says and wherever a secured move stops or is killed,
\* the source is as it was or the destination is whole, unless the copy came
\* out short without the code noticing.
THEOREM OneCopySurvivesHolds == Spec => []OneCopySurvives
<1>1. IMove /\ [Next]_vars => IMove'
  <2> SUFFICES ASSUME IMove, [Next]_vars, running' = "secured"
               PROVE  MoveType' /\ MoveInv'
    BY DEF IMove
  <2>1. CASE running = "secured" /\ X!Next
    BY <2>1, MoveStep
  <2>2. CASE UNCHANGED vars
    BY <2>2 DEF IMove, vars, securedVars, MoveType, MoveInv
  <2> QED
    BY <2>1, <2>2 DEF Next, Others
<1>2. IMove => OneCopySurvives
  BY DEF IMove, MoveInv, OneCopySurvives, X!OneCopySurvives
<1> QED
  BY MoveInit, <1>1, <1>2, PTL DEF Spec

-----------------------------------------------------------------------------
(* The log of operations.                                                  *)

\* The log: the entries buffered, written and lost, and how many there have been.
Log == [buffer : SUBSET Nat, used : Nat, file : SUBSET Nat, lost : SUBSET Nat, count : Nat]

ILog == running = "secured" => log \in Log /\ X!LogKept

\* No step forgets an entry.
LEMMA LogStep ==
  ASSUME ILog, running = "secured", X!Next
  PROVE  log' \in Log /\ X!LogKept'
<1>1. log \in Log /\ X!LogKept
  BY DEF ILog
<1>2. ASSUME NEW l \in Log, l \in X!Flushed
      PROVE  /\ l.count = log.count /\ l.buffer = log.buffer
             /\ log.buffer \subseteq l.file \cup l.lost
             /\ log.file \subseteq l.file /\ log.lost \subseteq l.lost
  BY <1>1, <1>2 DEF X!Flushed, Log
<1>3. X!Flushed \subseteq Log
  BY <1>1 DEF X!Flushed, Log
<1>4. CASE X!LogOperation
  <2>1. ASSUME NEW l \in X!MakeRoom
        PROVE  /\ l \in Log /\ l.count = log.count
               /\ log.file \cup log.buffer \cup log.lost \subseteq l.file \cup l.buffer \cup l.lost
    <3>1. CASE X!Full
      <4>1. PICK k \in X!Flushed : l = [k EXCEPT !.buffer = {}, !.used = 0]
        BY <2>1, <3>1 DEF X!MakeRoom
      <4>2. k \in Log
        BY <1>3
      <4>3. l \in Log /\ l.count = k.count /\ l.file = k.file /\ l.lost = k.lost
        BY <4>1, <4>2 DEF Log
      <4> QED
        BY <1>2, <4>2, <4>3
    <3>2. CASE ~X!Full
      BY <1>1, <2>1, <3>2 DEF X!MakeRoom
    <3> QED
      BY <3>1, <3>2
  <2>2. PICK l \in X!MakeRoom :
          log' = [l EXCEPT !.count = @ + 1, !.used = @ + 1, !.buffer = @ \cup {log.count + 1}]
    BY <1>4 DEF X!LogOperation
  <2>3. l \in Log /\ l.count = log.count /\ l.count \in Nat
    BY <2>1 DEF Log
  <2>4. log.count + 1 \in Nat
    BY <2>3
  <2>5. l.buffer \cup {log.count + 1} \in SUBSET Nat
    BY <2>3, <2>4 DEF Log
  <2>6. /\ log' \in Log /\ log'.count = log.count + 1
        /\ log'.buffer = l.buffer \cup {log.count + 1} /\ log'.file = l.file /\ log'.lost = l.lost
    <3>1. l.used + 1 \in Nat /\ l.count + 1 \in Nat /\ l.count + 1 = log.count + 1
      BY <2>3 DEF Log
    <3>2. log' \in Log
      BY <2>2, <2>3, <2>5, <3>1 DEF Log
    <3>3. log'.count = l.count + 1 /\ log'.file = l.file /\ log'.lost = l.lost
      BY <2>2, <2>3 DEF Log
    <3>4. log'.buffer = l.buffer \cup {log.count + 1}
      BY <2>2, <2>3 DEF Log
    <3> QED
      BY <3>1, <3>2, <3>3, <3>4
  <2> QED
    BY <1>1, <2>1, <2>3, <2>6 DEF X!LogKept
<1>5. CASE X!SecureExit
  <2>1. log' \in X!Flushed
    BY <1>5 DEF X!SecureExit
  <2>2. log' \in Log
    BY <2>1, <1>3
  <2> QED
    BY <1>1, <1>2, <2>1, <2>2 DEF X!LogKept
<1>6. CASE X!Kill
  <2>1. /\ log' \in Log /\ log'.count = log.count /\ log'.buffer = {} /\ log'.file = log.file
        /\ log'.lost = log.lost \cup log.buffer
    BY <1>1, <1>6 DEF X!Kill, Log
  <2> QED
    BY <1>1, <2>1 DEF X!LogKept
<1>7. CASE UNCHANGED log
  BY <1>1, <1>7 DEF X!LogKept
<1> QED
  BY <1>4, <1>5, <1>6, <1>7
  DEF X!Next, X!MoveStart, X!MoveChunk, X!Compare, X!Drop, X!Wipe, X!NewFile,
      X!SecureInit, X!VerifyInit, X!Admit

\* Every operation's entry is in the file or in the buffer, or was lost by a
\* write that failed or a kill, however often the buffer was emptied.
THEOREM LogKeptHolds == Spec => []LogKept
<1>1. Init => ILog
  <2> SUFFICES ASSUME X!Init PROVE log \in Log /\ X!LogKept
    BY DEF Init, ILog
  <2> QED
    BY DEF X!Init, Log, X!LogKept
<1>2. ILog /\ [Next]_vars => ILog'
  <2> SUFFICES ASSUME ILog, [Next]_vars, running' = "secured"
               PROVE  log' \in Log /\ X!LogKept'
    BY DEF ILog
  <2>1. CASE running = "secured" /\ X!Next
    BY <2>1, LogStep
  <2>2. CASE UNCHANGED vars
    BY <2>2 DEF ILog, vars, securedVars, X!LogKept
  <2> QED
    BY <2>1, <2>2 DEF Next, Others
<1>3. ILog => LogKept
  BY DEF ILog, LogKept
<1> QED
  BY <1>1, <1>2, <1>3, PTL DEF Spec

-----------------------------------------------------------------------------
(* Title keys.                                                             *)

\* What a key file may be.
KeyFile == [kind : {"none", "file"}, data : Seq(Unit)]

\* Units long enough to be read as a key are a key some import decrypted.
Decrypted(s) ==
  Len(s) >= 3 => \E g \in granted : g[1] = s[1] /\ g[2] = <<s[2], s[3]>>

\* So is what is on the card and what is being written to it.
KeysInv ==
  /\ keys \in [Id -> KeyFile]
  /\ \A id \in Id : Decrypted(keys[id].data)
  /\ pending.what = "key" => pending.data \in Seq(Unit) /\ Decrypted(pending.data)
  /\ K!KeysGenuine

IKeys == running = "keys" => KeysInv

\* What an import decrypts, and what it writes.
KeyOf(s)   == Dec(SubSeq(s, 1, 2), SubSeq(s, 3, 4))
KeyData(s) == <<s[1]>> \o KeyOf(s) \o SubSeq(s, 3, 4)

\* A sequence of two is their pair.
LEMMA Pair ==
  ASSUME NEW s \in Seq(Unit), Len(s) = 2
  PROVE  s = <<s[1], s[2]>>
<1>1. s[1] \in Unit /\ s[2] \in Unit
  BY ElementOfSeq
<1>2. <<s[1], s[2]>> \in Seq(Unit) /\ Len(<<s[1], s[2]>>) = 2
  BY <1>1
<1>3. ASSUME NEW i \in 1 .. 2 PROVE s[i] = <<s[1], s[2]>>[i]
  <2>1. i = 1 \/ i = 2
    OBVIOUS
  <2> QED
    BY <2>1
<1> QED
  BY <1>2, <1>3, SeqEqual

\* Two units in the middle of a sequence.
LEMMA TwoUnits ==
  ASSUME NEW s \in Seq(Unit), NEW n \in Nat, n >= 1, n < Len(s)
  PROVE  SubSeq(s, n, n + 1) \in Seq(Unit) /\ SubSeq(s, n, n + 1) = <<s[n], s[n + 1]>>
<1>1. \A i \in n .. n + 1 : s[i] \in Unit
  BY ElementOfSeq
<1>2. /\ SubSeq(s, n, n + 1) \in Seq(Unit) /\ Len(SubSeq(s, n, n + 1)) = 2
      /\ \A i \in 1 .. 2 : SubSeq(s, n, n + 1)[i] = s[n + i - 1]
  BY <1>1, SubSeqProperties, n + 1 \in Int, n \in Int
<1>3. SubSeq(s, n, n + 1)[1] = s[n] /\ SubSeq(s, n, n + 1)[2] = s[n + 1]
  BY <1>2
<1>4. <<s[n], s[n + 1]>> \in Seq(Unit)
  BY <1>1
<1> QED
  BY <1>2, <1>3, <1>4, Pair

\* What an import writes begins with the title's id and the key it decrypted.
LEMMA ImportedKey ==
  ASSUME NEW s \in Tickets, K!WholeTicket(s)
  PROVE  /\ KeyData(s) \in Seq(Unit)
         /\ KeyData(s)[1] = s[1] /\ <<KeyData(s)[2], KeyData(s)[3]>> = KeyOf(s)
<1>1. s \in Seq(Unit) /\ Len(s) = 4 /\ KeyOf(s) \in Seq(Unit) /\ Len(KeyOf(s)) = 2
  BY KeysAssumption DEF K!WholeTicket, KeyOf
<1>2. <<s[1]>> \in Seq(Unit) /\ Len(<<s[1]>>) = 1 /\ <<s[1]>>[1] = s[1]
  BY <1>1
<1>3. SubSeq(s, 3, 4) \in Seq(Unit) /\ Len(SubSeq(s, 3, 4)) = 2
  BY <1>1, TwoUnits
<1> DEFINE k == <<s[1]>> \o KeyOf(s)
<1>4. k \in Seq(Unit) /\ Len(k) = 3 /\ k[1] = s[1] /\ k[2] = KeyOf(s)[1] /\ k[3] = KeyOf(s)[2]
  BY <1>1, <1>2, ConcatProperties
<1>5. KeyData(s) = k \o SubSeq(s, 3, 4)
  BY DEF KeyData
<1> HIDE DEF k
<1>6. KeyData(s) \in Seq(Unit) /\ \A i \in 1 .. 3 : KeyData(s)[i] = k[i]
  <2> DEFINE r == SubSeq(s, 3, 4)
  <2>1. r \in Seq(Unit) /\ Len(r) = 2
    BY <1>3
  <2> HIDE DEF r
  <2>2. /\ k \o r \in Seq(Unit)
        /\ \A i \in 1 .. Len(k) + Len(r) : (k \o r)[i] = IF i <= Len(k) THEN k[i] ELSE r[i - Len(k)]
    BY <2>1, <1>4, ConcatProperties
  <2>3. \A i \in 1 .. 3 : i \in 1 .. Len(k) + Len(r) /\ i <= Len(k)
    BY <2>1, <1>4
  <2>4. KeyData(s) = k \o r
    BY <1>5 DEF r
  <2> QED
    BY <2>2, <2>3, <2>4
<1>7. KeyOf(s) = <<KeyOf(s)[1], KeyOf(s)[2]>>
  BY <1>1, Pair
<1> QED
  BY <1>4, <1>6, <1>7

\* A beginning of a key is one, too.
LEMMA DecryptedPrefix ==
  ASSUME NEW d \in Seq(Unit), Decrypted(d), NEW s \in K!Prefixes(d)
  PROVE  s \in Seq(Unit) /\ Decrypted(s)
<1>1. PICK n \in 0 .. Len(d) : s = SubSeq(d, 1, n)
  BY DEF K!Prefixes
<1>2. s \in Seq(Unit) /\ Len(s) = n /\ \A i \in 1 .. n : s[i] = d[i]
  BY <1>1
<1>3. n >= 3 => 1 \in 1 .. n /\ 2 \in 1 .. n /\ 3 \in 1 .. n /\ Len(d) >= 3
  OBVIOUS
<1> QED
  BY <1>2, <1>3 DEF Decrypted

\* Only an import writes units that read as a key, and no step breaks them.
LEMMA KeysStep ==
  ASSUME IKeys, running = "keys", K!Next
  PROVE  KeysInv'
<1>1. KeysInv
  BY DEF IKeys
<1>2. <<>> \in Seq(Unit) /\ Len(<<>>) = 0
  OBVIOUS
<1>3. K!File(<<>>) \in KeyFile /\ K!None \in KeyFile /\ K!File(<<>>).data = <<>> /\ K!None.data = <<>>
  BY <1>2 DEF K!File, K!None, KeyFile
<1>4. ASSUME answer'.rc # "ok" \/ answer' = answer \/ answer'.found = {},
             granted \subseteq granted'
      PROVE  K!KeysGenuine'
  BY <1>1, <1>4 DEF KeysInv, K!KeysGenuine
<1>stays. ASSUME NEW id \in Id, keys'[id].data \in {<<>>, keys[id].data}, granted \subseteq granted'
       PROVE  Decrypted(keys[id].data)'
  <2>1. CASE keys'[id].data = <<>>
    BY <2>1, <1>2 DEF Decrypted
  <2>2. CASE keys'[id].data = keys[id].data
    BY <2>2, <1>1, <1>stays DEF KeysInv, Decrypted
  <2> QED
    BY <1>stays, <2>1, <2>2
<1>5. CASE K!Import
  <2>1. CASE K!Refused /\ UNCHANGED granted
    BY <1>1, <1>4, <2>1 DEF K!Refused, K!Answered, KeysInv, Decrypted
  <2>2. CASE \E s \in Tickets :
               LET rights == SubSeq(s, 3, 4)
                   key    == Dec(SubSeq(s, 1, 2), rights)
               IN  /\ K!WholeTicket(s)
                   /\ K!OpenedKey(s[1], <<s[1]>> \o key \o rights)
                   /\ granted' = granted \cup {<<s[1], key, rights>>}
                   /\ UNCHANGED answer
    <3>1. PICK s \in Tickets :
            /\ K!WholeTicket(s)
            /\ K!OpenedKey(s[1], KeyData(s))
            /\ granted' = granted \cup {<<s[1], KeyOf(s), SubSeq(s, 3, 4)>>}
            /\ UNCHANGED answer
      BY <2>2 DEF KeyData, KeyOf
    <3>2. KeyData(s) \in Seq(Unit) /\ KeyData(s)[1] = s[1] /\ <<KeyData(s)[2], KeyData(s)[3]>> = KeyOf(s)
      BY <3>1, ImportedKey
    <3>3. pending'.data = KeyData(s) /\ keys' = [keys EXCEPT ![s[1]] = K!File(<<>>)]
      BY <3>1 DEF K!OpenedKey
    <3>4. <<s[1], KeyOf(s), SubSeq(s, 3, 4)>> \in granted' /\ granted \subseteq granted'
      BY <3>1
    <3>5. K!KeysGenuine'
      BY <3>1, <3>4, <1>4
    <3>6. Decrypted(pending.data)'
      BY <3>2, <3>3, <3>4 DEF Decrypted
    <3>7. keys' \in [Id -> KeyFile] /\ \A id \in Id : keys'[id].data \in {<<>>, keys[id].data}
      BY <1>1, <1>3, <3>3 DEF KeysInv
    <3>8. \A id \in Id : Decrypted(keys[id].data)'
      BY <3>4, <3>7, <1>stays
    <3> QED
      BY <3>2, <3>3, <3>5, <3>6, <3>7, <3>8 DEF KeysInv
  <2> QED
    BY <1>5, <2>1, <2>2 DEF K!Import
<1>6. CASE K!Export
  <2>1. /\ UNCHANGED <<keys, pending, granted>>
        /\ \/ answer'.rc = "err"
           \/ \E id \in Id :
                /\ K!Exports(id)
                /\ answer'.found = {<<id, <<K!Unit(keys[id].data, 2), K!Unit(keys[id].data, 3)>>>>}
    BY <1>6 DEF K!Export, K!Answered
  <2>2. ASSUME NEW id \in Id, K!Exports(id)
        PROVE  \E g \in granted : /\ g[1] = id
                                  /\ g[2] = <<K!Unit(keys[id].data, 2), K!Unit(keys[id].data, 3)>>
    <3>1. keys[id].data \in Seq(Unit) /\ Len(keys[id].data) >= 3 /\ keys[id].data[1] = id
      BY <1>1, <2>2 DEF KeysInv, KeyFile, K!Exports
    <3>2. /\ K!Unit(keys[id].data, 2) = keys[id].data[2]
          /\ K!Unit(keys[id].data, 3) = keys[id].data[3]
      BY <3>1 DEF K!Unit
    <3> QED
      BY <1>1, <3>1, <3>2 DEF KeysInv, Decrypted
  <2>3. K!KeysGenuine'
    BY <2>1, <2>2 DEF K!KeysGenuine
  <2> QED
    BY <1>1, <2>1, <2>3 DEF KeysInv, Decrypted
<1>7. CASE K!ListKeys
  <2> DEFINE whole == {id \in Id : Len(keys[id].data) = 5}
  <2>1. /\ UNCHANGED <<keys, pending, granted>>
        /\ \/ answer'.rc = "err"
           \/ answer'.found = {<<keys[id].data[1], SubSeq(keys[id].data, 2, 3)>> : id \in whole}
    BY <1>7 DEF K!ListKeys, K!Answered
  <2>2. ASSUME NEW id \in whole
        PROVE  \E g \in granted : g[1] = keys[id].data[1] /\ g[2] = SubSeq(keys[id].data, 2, 3)
    <3>1. keys[id].data \in Seq(Unit) /\ Len(keys[id].data) = 5
      BY <1>1 DEF KeysInv, KeyFile
    <3>2. SubSeq(keys[id].data, 2, 3) = <<keys[id].data[2], keys[id].data[3]>>
      BY <3>1, TwoUnits
    <3>3. Decrypted(keys[id].data)
      BY <1>1 DEF KeysInv
    <3>4. PICK g \in granted : g[1] = keys[id].data[1] /\ g[2] = <<keys[id].data[2], keys[id].data[3]>>
      BY <3>1, <3>3 DEF Decrypted
    <3> QED
      BY <3>2, <3>4
  <2>3. K!KeysGenuine'
    <3> SUFFICES ASSUME answer'.rc = "ok", NEW f \in answer'.found
                 PROVE  \E g \in granted : g[1] = f[1] /\ g[2] = f[2]
      BY <2>1 DEF K!KeysGenuine
    <3>1. PICK id \in whole : f = <<keys[id].data[1], SubSeq(keys[id].data, 2, 3)>>
      BY <2>1
    <3> QED
      BY <2>2, <3>1
  <2> QED
    BY <1>1, <2>1, <2>3 DEF KeysInv, Decrypted
<1>8. CASE K!RemoveKey
  <2>1. /\ UNCHANGED <<pending, granted>>
        /\ answer'.rc # "ok" \/ answer'.found = {}
        /\ keys' = keys \/ \E id \in Id : keys' = [keys EXCEPT ![id] = K!None]
    BY <1>8 DEF K!RemoveKey, K!Answered
  <2>2. keys' \in [Id -> KeyFile] /\ \A id \in Id : keys'[id].data \in {<<>>, keys[id].data}
    BY <1>1, <1>3, <2>1 DEF KeysInv
  <2> QED
    BY <1>1, <1>4, <1>stays, <2>1, <2>2 DEF KeysInv, Decrypted
<1>9. CASE K!InstallTicket \/ K!ImportTicketKey
  <2>1. /\ UNCHANGED <<keys, granted>>
        /\ pending'.what = "ticket" \/ pending' = pending
        /\ answer' = answer \/ answer'.rc = "err"
    <3>1. CASE K!InstallTicket
      BY <3>1 DEF K!InstallTicket, K!Refused, K!OpenedTicket, K!Answered
    <3>2. CASE K!ImportTicketKey
      <4>1. CASE K!Refused
        BY <3>2, <4>1 DEF K!ImportTicketKey, K!Refused, K!Answered
      <4>2. CASE ~K!Refused
        <5>1. PICK id \in Id, k \in PlainKeys : K!OpenedTicket(id, k \o <<id, Zero>>)
          BY <3>2, <4>2 DEF K!ImportTicketKey
        <5>2. UNCHANGED <<answer, granted>>
          BY <3>2, <4>2 DEF K!ImportTicketKey
        <5> QED
          BY <5>1, <5>2 DEF K!OpenedTicket
      <4> QED
        BY <4>1, <4>2
    <3> QED
      BY <1>9, <3>1, <3>2
  <2> QED
    BY <1>1, <1>4, <2>1 DEF KeysInv, Decrypted
<1>10. CASE K!Close
  <2>1. PICK s \in K!Prefixes(pending.data) :
          /\ IF pending.what = "key"
             THEN keys' = [keys EXCEPT ![pending.id] = K!File(s)]
             ELSE UNCHANGED keys
          /\ answer'.found = {} /\ pending' = K!NotWriting /\ UNCHANGED granted
    BY <1>10 DEF K!Close, K!Answered
  <2>2. pending'.what # "key"
    BY <2>1 DEF K!NotWriting
  <2>3. CASE pending.what = "key"
    <3>1. s \in Seq(Unit) /\ Decrypted(s)
      BY <1>1, <2>3, DecryptedPrefix DEF KeysInv
    <3>2. K!File(s) \in KeyFile /\ K!File(s).data = s
      BY <3>1 DEF K!File, KeyFile
    <3>3. keys' \in [Id -> KeyFile] /\ \A id \in Id : keys'[id].data \in {s, keys[id].data}
      BY <1>1, <2>1, <2>3, <3>2 DEF KeysInv
    <3>4. \A id \in Id : Decrypted(keys'[id].data)
      BY <1>1, <3>1, <3>3 DEF KeysInv
    <3> QED
      BY <1>4, <2>1, <2>2, <3>3, <3>4 DEF KeysInv, Decrypted
  <2>4. CASE pending.what # "key"
    BY <1>1, <1>4, <2>1, <2>2, <2>4 DEF KeysInv, Decrypted
  <2> QED
    BY <2>3, <2>4
<1>11. CASE K!Kill
  BY <1>1, <1>4, <1>11 DEF K!Kill, K!Answered, K!NotWriting, KeysInv, Decrypted
<1>12. CASE /\ UNCHANGED <<keys, pending, granted>>
            /\ answer' = answer \/ answer'.rc # "ok" \/ answer'.found = {}
  BY <1>1, <1>4, <1>12 DEF KeysInv, Decrypted
<1>13. CASE K!TitlekeyInit \/ K!TitlekeyExit \/ K!Exists \/ K!ListTickets \/ K!DumpTicket \/ K!ReadTicket
  BY <1>12, <1>13 DEF K!TitlekeyInit, K!TitlekeyExit, K!Exists, K!ListTickets, K!DumpTicket, K!ReadTicket, K!Answered
<1>14. CASE K!RemoveTicket \/ K!TicketKey
  BY <1>12, <1>14 DEF K!RemoveTicket, K!TicketKey, K!Answered
<1> QED
  BY <1>5, <1>6, <1>7, <1>8, <1>9, <1>10, <1>11, <1>13, <1>14 DEF K!Next

\* A key that is exported or listed is one an import decrypted for that title,
\* whatever part of which file reached the card.
THEOREM KeysGenuineHolds == Spec => []KeysGenuine
<1>1. Init => IKeys
  <2> SUFFICES ASSUME K!Init PROVE KeysInv
    BY DEF Init, IKeys
  <2>1. <<>> \in Seq(Unit) /\ Len(<<>>) = 0
    OBVIOUS
  <2>2. K!None \in KeyFile /\ K!None.data = <<>>
    BY <2>1 DEF K!None, KeyFile
  <2>3. keys = [i \in Id |-> K!None] /\ pending.what = "none" /\ answer.rc = "err"
    BY DEF K!Init, K!NotWriting
  <2> QED
    BY <2>1, <2>2, <2>3 DEF KeysInv, Decrypted, K!KeysGenuine
<1>2. IKeys /\ [Next]_vars => IKeys'
  <2> SUFFICES ASSUME IKeys, [Next]_vars, running' = "keys"
               PROVE  KeysInv'
    BY DEF IKeys
  <2>1. CASE running = "keys" /\ K!Next
    BY <2>1, KeysStep
  <2>2. CASE UNCHANGED vars
    BY <2>2 DEF IKeys, vars, keysVars, KeysInv, Decrypted, K!KeysGenuine
  <2> QED
    BY <2>1, <2>2 DEF Next, Others
<1>3. IKeys => KeysGenuine
  BY DEF IKeys, KeysInv, KeysGenuine
<1> QED
  BY <1>1, <1>2, <1>3, PTL DEF Spec

-----------------------------------------------------------------------------
(* Restoring a save.                                                       *)

\* The fields of a call.
CallFields == {"op", "title", "stage", "todo", "file", "rc", "clean", "before"}

\* The entry being copied into the save was not there when the call began.
SavesInv ==
  /\ DOMAIN call = CallFields /\ call.todo \subseteq Name
  /\ \A t \in DOMAIN saves : DOMAIN saves[t] = Name
  /\ S!RestoreKeepsExisting
  /\ call.op = "restore" /\ call.stage = "copy" /\ S!Listed(call.title) =>
       call.file \in Name /\ call.before[call.file] = S!None

ISaves == running = "saves" => SavesInv

\* A call that goes on is about the save it was about.
SameCall ==
  /\ DOMAIN call' = CallFields
  /\ call'.op = call.op /\ call'.title = call.title /\ call'.before = call.before
  /\ call'.todo \subseteq Name

\* A step that writes to one entry of the save, which the call found missing.
LEMMA RestoredStep ==
  ASSUME SavesInv, SameCall, NEW n \in Name, NEW e,
         call.op = "restore", saves' = S!Restored(call.title, n, e),
         S!Listed(call.title) => call.before[n] = S!None,
         call'.stage = "copy" => call'.file = n
  PROVE  SavesInv'
<1>1. /\ DOMAIN saves' = DOMAIN saves
      /\ \A t \in DOMAIN saves : DOMAIN saves'[t] = DOMAIN saves[t]
  BY DEF S!Restored
<1>2. ASSUME S!Listed(call.title), NEW m \in Name, m # n
      PROVE  saves'[call.title][m] = saves[call.title][m]
  BY <1>2 DEF SavesInv, S!Restored, S!Listed
<1>3. S!Listed(call.title)' <=> S!Listed(call.title)
  BY <1>1 DEF S!Listed, SameCall
<1>4. S!RestoreKeepsExisting'
  BY <1>2, <1>3 DEF SavesInv, SameCall, S!RestoreKeepsExisting
<1> QED
  BY <1>1, <1>3, <1>4 DEF SavesInv, SameCall, S!Listed

\* A step that leaves the saves alone.
LEMMA UnrestoredStep ==
  ASSUME SavesInv, SameCall, UNCHANGED saves,
         call.op = "restore" /\ call'.stage = "copy" => call.stage = "copy" /\ call'.file = call.file
  PROVE  SavesInv'
<1>1. S!Listed(call.title)' <=> S!Listed(call.title)
  BY DEF S!Listed, SameCall
<1> QED
  BY <1>1 DEF SavesInv, SameCall, S!RestoreKeepsExisting, S!Listed

\* What is missing from the save now was missing when the call began.
LEMMA StillMissing ==
  ASSUME SavesInv, call.op = "restore", NEW n \in Name, saves[call.title][n] = S!None, S!Listed(call.title)
  PROVE  call.before[n] = S!None
BY DEF SavesInv, S!RestoreKeepsExisting

\* Every step of the saves' part keeps what a restore found in the save.
LEMMA SavesStep ==
  ASSUME ISaves, running = "saves", S!Next
  PROVE  SavesInv'
<1>1. SavesInv /\ DOMAIN call = CallFields
  BY DEF ISaves, SavesInv
<1>2. ASSUME NEW op, NEW t, UNCHANGED saves,
             call' = S!Begun(op, t) \/ call' = S!At(S!Failed(S!Begun(op, t)), "done")
      PROVE  SavesInv'
  <2> DEFINE c == S!Begun(op, t)
  <2>1. /\ DOMAIN c = CallFields /\ c.title = t /\ c.stage = "mount" /\ c.todo = {}
        /\ c.before = IF S!Listed(t) THEN saves[t] ELSE S!Empty
    BY DEF S!Begun, CallFields
  <2> HIDE DEF c
  <2>2. call' = c \/ call' = [[c EXCEPT !.rc = "err", !.clean = FALSE] EXCEPT !.stage = "done"]
    BY <1>2 DEF S!At, S!Failed, c
  <2>3. /\ DOMAIN call' = CallFields /\ call'.title = t /\ call'.stage # "copy" /\ call'.todo = {}
        /\ call'.before = IF S!Listed(t) THEN saves[t] ELSE S!Empty
    BY <2>1, <2>2 DEF CallFields
  <2>4. S!Listed(t)' <=> S!Listed(t)
    BY <1>2 DEF S!Listed
  <2> QED
    BY <1>1, <1>2, <2>3, <2>4 DEF SavesInv, S!RestoreKeepsExisting
<1>3. ASSUME DOMAIN call' = CallFields, call'.op = "none", call'.todo \subseteq Name,
             \A t \in DOMAIN saves' : DOMAIN saves'[t] = Name
      PROVE  SavesInv'
  BY <1>1, <1>3 DEF SavesInv, S!RestoreKeepsExisting
\* How a call goes on.
<1>4. ASSUME NEW c, NEW todo, c = [call EXCEPT !.todo = todo], todo \subseteq Name
      PROVE  /\ DOMAIN c = CallFields /\ c.todo \subseteq Name
             /\ c.op = call.op /\ c.title = call.title /\ c.before = call.before
             /\ c.stage = call.stage /\ c.file = call.file
  BY <1>1, <1>4 DEF CallFields
<1>5. CASE S!RestoreEntry
  <2>1. PICK n \in call.todo :
          IF backup[call.title].entry[n].kind = "dir"
          THEN S!RestoreDir([call EXCEPT !.todo = @ \ {n}], n)
          ELSE S!RestoreFile([call EXCEPT !.todo = @ \ {n}], n)
    BY <1>5 DEF S!RestoreEntry
  <2> DEFINE c == [call EXCEPT !.todo = @ \ {n}]
  <2>2. n \in Name /\ call.op = "restore" /\ call.stage = "next"
    BY <1>1, <1>5 DEF SavesInv, S!RestoreEntry
  <2>3. /\ DOMAIN c = CallFields /\ c.todo \subseteq Name
        /\ c.op = call.op /\ c.title = call.title /\ c.before = call.before /\ c.stage = "next"
    BY <1>1, <2>2 DEF SavesInv, CallFields
  <2> HIDE DEF c
  <2>4. ASSUME \/ call' = S!Failed(c)
               \/ call' = [c EXCEPT !.clean = FALSE]
               \/ call' = [c EXCEPT !.rc = "ok"]
               \/ call' = [S!At(c, "copy") EXCEPT !.file = n, !.rc = "ok"]
        PROVE  SameCall /\ (call'.stage = "copy" => call'.file = n)
    BY <2>3, <2>4 DEF SameCall, S!Failed, S!At, CallFields
  <2>5. ASSUME SameCall, UNCHANGED saves, call'.stage # "copy"
        PROVE  SavesInv'
    BY <1>1, <2>5, UnrestoredStep
  <2>6. ASSUME NEW e, SameCall, S!MayMake(call.title, n), saves' = S!Restored(call.title, n, e),
               call'.stage = "copy" => call'.file = n
        PROVE  SavesInv'
    BY <1>1, <2>2, <2>6, RestoredStep, StillMissing DEF S!MayMake
  <2>7. call' = S!Failed(c) \/ call' = [c EXCEPT !.clean = FALSE] => call'.stage # "copy"
    BY <2>3 DEF S!Failed, CallFields
  <2>8. CASE S!RestoreDir(c, n)
    BY <2>3, <2>4, <2>5, <2>6, <2>7, <2>8 DEF S!RestoreDir
  <2>9. CASE S!RestoreFile(c, n)
    BY <2>3, <2>4, <2>5, <2>6, <2>7, <2>9 DEF S!RestoreFile
  <2> QED
    BY <2>1, <2>8, <2>9 DEF c
<1>6. CASE S!RestoreChunk
  <2>1. call.op = "restore" /\ call.stage = "copy"
    BY <1>6 DEF S!RestoreChunk
  <2>2. ASSUME NEW c, c = call \/ c = [call EXCEPT !.rc = "ok"] \/
                      (\E r \in {"ok", "err"} : c = [call EXCEPT !.rc = r, !.clean = FALSE]),
               S!CopyEnds(c), UNCHANGED saves
        PROVE  SavesInv'
    <3>1. /\ DOMAIN c = CallFields /\ c.todo \subseteq Name
          /\ c.op = call.op /\ c.title = call.title /\ c.before = call.before
      BY <1>1, <2>2 DEF SavesInv, CallFields
    <3>2. SameCall /\ call'.stage = "next"
      BY <2>2, <3>1 DEF S!CopyEnds, S!At, SameCall, CallFields
    <3> QED
      BY <1>1, <2>2, <3>2, UnrestoredStep
  <2>3. ASSUME NEW e, saves' = S!Restored(call.title, call.file, e), UNCHANGED call
        PROVE  SavesInv'
    <3>1. SameCall
      BY <1>1, <2>3 DEF SavesInv, SameCall
    <3>2. CASE S!Listed(call.title)
      BY <1>1, <2>1, <2>3, <3>1, <3>2, RestoredStep DEF SavesInv
    <3>3. CASE ~S!Listed(call.title)
      <4>1. saves' = [saves EXCEPT ![call.title] = [saves[call.title] EXCEPT ![call.file] = e]]
        BY <2>3 DEF S!Restored
      <4>2. DOMAIN saves' = DOMAIN saves /\ \A t \in DOMAIN saves : saves'[t] = saves[t]
        BY <3>3, <4>1 DEF S!Listed
      <4> QED
        BY <1>1, <2>3, <3>3, <4>2 DEF SavesInv, S!RestoreKeepsExisting, S!Listed
    <3> QED
      BY <3>2, <3>3
  <2> QED
    BY <1>6, <2>2, <2>3 DEF S!RestoreChunk
<1>7. ASSUME UNCHANGED saves,
             \/ call' = call
             \/ /\ DOMAIN call' = CallFields /\ call'.todo \subseteq Name
                /\ call'.op = call.op /\ call'.title = call.title /\ call'.before = call.before
                /\ call.op = "restore" => call'.stage # "copy"
      PROVE  SavesInv'
  BY <1>1, <1>7, UnrestoredStep DEF SameCall, SavesInv
<1>8. ASSUME NEW c, c = call \/ c = S!Failed(call) \/ c = [call EXCEPT !.rc = "ok"],
             S!Return(c), UNCHANGED saves
      PROVE  SavesInv'
  <2>1. /\ DOMAIN c = CallFields /\ c.todo \subseteq Name
        /\ c.op = call.op /\ c.title = call.title /\ c.before = call.before
    BY <1>1, <1>8 DEF SavesInv, S!Failed, CallFields
  <2>2. /\ DOMAIN call' = CallFields /\ call'.todo \subseteq Name
        /\ call'.op = call.op /\ call'.title = call.title /\ call'.before = call.before
        /\ call'.stage # "copy"
    BY <1>8, <2>1 DEF S!Return, S!At, CallFields
  <2> QED
    BY <1>7, <1>8, <2>2
<1>9. CASE S!Mount
  <2>1. UNCHANGED saves
    BY <1>9 DEF S!Mount
  <2>2. CASE S!Return(S!Failed(call))
    BY <1>8, <2>1, <2>2
  <2>3. CASE call' = S!At(S!Failed(call), "done") \/ call' = S!At(call, "open")
    <3>1. /\ DOMAIN call' = CallFields /\ call'.todo \subseteq Name
          /\ call'.op = call.op /\ call'.title = call.title /\ call'.before = call.before
          /\ call'.stage # "copy"
      BY <1>1, <2>3 DEF SavesInv, S!Failed, S!At, CallFields
    <3> QED
      BY <1>7, <2>1, <3>1
  <2> QED
    BY <1>9, <2>2, <2>3 DEF S!Mount
<1>10. CASE S!RestoreOpen \/ S!RestoreEnd
  <2>1. UNCHANGED saves
    BY <1>10 DEF S!RestoreOpen, S!RestoreEnd
  <2>2. CASE S!Return(S!Failed(call)) \/ S!Return(call)
    BY <1>8, <2>1, <2>2
  <2>3. CASE call' = [S!At(call, "next") EXCEPT !.todo = {n \in Name : backup[call.title].entry[n] # S!None}]
    <3>1. /\ DOMAIN call' = CallFields /\ call'.todo \subseteq Name
          /\ call'.op = call.op /\ call'.title = call.title /\ call'.before = call.before
          /\ call'.stage # "copy"
      BY <1>1, <2>3 DEF S!At, CallFields
    <3> QED
      BY <1>7, <2>1, <3>1
  <2> QED
    BY <1>10, <2>2, <2>3 DEF S!RestoreOpen, S!RestoreEnd
<1>11. CASE S!BackupOpen \/ S!BackupEnd \/ S!BackupEntry \/ S!BackupChunk
  <2>1. UNCHANGED saves /\ call.op = "backup"
    BY <1>11 DEF S!BackupOpen, S!BackupEnd, S!BackupEntry, S!BackupChunk
  <2>2. DOMAIN call' = CallFields /\ call'.op = "backup" /\ call'.todo \subseteq Name
    <3>1. CASE S!BackupOpen
      BY <1>1, <2>1, <3>1 DEF SavesInv, S!BackupOpen, S!Return, S!Failed, S!At, CallFields
    <3>2. CASE S!BackupEnd
      BY <1>1, <2>1, <3>2 DEF SavesInv, S!BackupEnd, S!Return, S!Failed, S!At, CallFields
    <3>3. CASE S!BackupChunk
      <4>1. \/ call' = call
            \/ \E c \in {call, S!Failed(call), [call EXCEPT !.clean = FALSE],
                       [S!Failed(call) EXCEPT !.clean = FALSE]} : S!CopyEnds(c)
        BY <3>3 DEF S!BackupChunk
      <4>2. ASSUME NEW c \in {call, S!Failed(call), [call EXCEPT !.clean = FALSE],
                              [S!Failed(call) EXCEPT !.clean = FALSE]}
            PROVE  DOMAIN c = CallFields /\ c.op = "backup" /\ c.todo = call.todo
        BY <1>1, <2>1, <4>2 DEF S!Failed, CallFields
      <4> QED
        BY <1>1, <2>1, <4>1, <4>2 DEF SavesInv, S!CopyEnds, S!At, CallFields
    <3>4. CASE S!BackupEntry
      <4>1. PICK n \in call.todo : \E c \in {[call EXCEPT !.todo = @ \ {n}]} :
              \/ call' = c
              \/ call' = [c EXCEPT !.clean = FALSE]
              \/ call' = S!Failed(c)
              \/ call' = [c EXCEPT !.rc = "ok", !.clean = FALSE]
              \/ call' = [S!At(c, "copy") EXCEPT !.file = n, !.rc = "ok"]
        BY <3>4 DEF S!BackupEntry
      <4> DEFINE c == [call EXCEPT !.todo = @ \ {n}]
      <4>2. DOMAIN c = CallFields /\ c.op = "backup" /\ c.todo \subseteq Name
        BY <1>1, <2>1 DEF SavesInv, CallFields
      <4> QED
        BY <4>1, <4>2 DEF S!Failed, S!At, CallFields
    <3> QED
      BY <1>11, <3>1, <3>2, <3>3, <3>4
  <2> QED
    BY <1>1, <2>1, <2>2 DEF SavesInv, S!RestoreKeepsExisting
<1>12. CASE S!AllEnd \/ S!ListCount \/ S!ListFill
  BY <1>7, <1>12 DEF S!AllEnd, S!ListCount, S!ListFill
<1>13. CASE (\E op \in {"backup", "restore"}, t \in Title : S!Start(op, t)) \/ S!AllNext
  BY <1>2, <1>13 DEF S!Start, S!AllNext
<1>14. CASE S!StartAll \/ S!Kill
  <2> DEFINE c == S!Begun("none", CHOOSE t \in Title : TRUE)
  <2>1. DOMAIN c = CallFields /\ c.op = "none" /\ c.todo = {}
    BY DEF S!Begun, CallFields
  <2> HIDE DEF c
  <2>2. call' = S!At(c, "done") \/ call' = S!At(S!Failed(c), "done")
    BY <1>14 DEF S!StartAll, S!Kill, c
  <2>3. DOMAIN call' = CallFields /\ call'.op = "none" /\ call'.todo = {}
    BY <2>1, <2>2 DEF S!At, S!Failed, CallFields
  <2>4. UNCHANGED saves
    BY <1>14 DEF S!StartAll, S!Kill
  <2> QED
    BY <1>1, <1>3, <2>3, <2>4 DEF SavesInv
<1>15. CASE S!Play
  <2>1. saves' \in Saves0 /\ call' = [call EXCEPT !.op = "none"]
    BY <1>15 DEF S!Play
  <2>2. DOMAIN call' = CallFields /\ call'.op = "none" /\ call'.todo \subseteq Name
    BY <1>1, <2>1 DEF SavesInv, CallFields
  <2> QED
    BY <1>3, <2>1, <2>2, SavesAssumption
<1> QED
  BY <1>5, <1>6, <1>9, <1>10, <1>11, <1>12, <1>13, <1>14, <1>15 DEF S!Next

\* What was in a save before a restore is as it was, at every step of it.
THEOREM RestoreKeepsExistingHolds == Spec => []RestoreKeepsExisting
<1>1. Init => ISaves
  <2> SUFFICES ASSUME S!Init PROVE SavesInv
    BY DEF Init, ISaves
  <2>1. saves \in Saves0 /\ DOMAIN call = CallFields /\ call.op = "none" /\ call.todo = {}
    BY DEF S!Init, CallFields
  <2> QED
    BY <2>1, SavesAssumption DEF SavesInv, S!RestoreKeepsExisting
<1>2. ISaves /\ [Next]_vars => ISaves'
  <2> SUFFICES ASSUME ISaves, [Next]_vars, running' = "saves"
               PROVE  SavesInv'
    BY DEF ISaves
  <2>1. CASE running = "saves" /\ S!Next
    BY <2>1, SavesStep
  <2>2. CASE UNCHANGED vars
    BY <2>2 DEF ISaves, vars, savesVars, SavesInv, S!RestoreKeepsExisting, S!Listed
  <2> QED
    BY <2>1, <2>2 DEF Next, Others
<1>3. ISaves => RestoreKeepsExisting
  BY DEF ISaves, SavesInv, RestoreKeepsExisting
<1> QED
  BY <1>1, <1>2, <1>3, PTL DEF Spec
=============================================================================
