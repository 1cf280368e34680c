------------------------------- MODULE Digest -------------------------------
(***************************************************************************)
(* SHA-256 as it takes a message in pieces (security/crypto.c).  The       *)
(* compression of a block is left out: what the digest depends on is which *)
(* blocks are compressed, and in which order.                              *)
(***************************************************************************)
EXTENDS Naturals, Sequences, SequencesExt

CONSTANTS
  Byte,        \* bytes of messages
  BlockBytes,  \* 64
  CountBytes,  \* 8, the room for the length at the end of the last block; less than BlockBytes
  MaxMessage   \* bound: length of a message

VARIABLES
  message,  \* what was given so far
  buffer,   \* of the context; parts of it are of earlier blocks
  blocks,   \* the blocks that were compressed
  final     \* whether the digest was asked for

vars == <<message, buffer, blocks, final>>

End     == "0x80"
Zero    == "0x00"
Count   == "count"   \* one byte of the message's length
Filled  == Len(message) % BlockBytes   \* bitcount / 8 % 64

Zeros(n) == [i \in 1..n |-> Zero]

\* buffer with s written to it from its position at on, that many bytes being before it.
Put(at, s) ==
  [i \in 1..BlockBytes |-> IF i \in (at + 1)..(at + Len(s)) THEN s[i - at] ELSE buffer[i]]

\* The whole blocks of s, and what is left.
Whole(s)    == [n \in 1..(Len(s) \div BlockBytes) |-> SubSeq(s, (n - 1) * BlockBytes + 1, n * BlockBytes)]
Leftover(s) == SubSeq(s, Len(s) - (Len(s) % BlockBytes) + 1, Len(s))

Update(piece) ==
  /\ ~final
  /\ message' = message \o piece
  /\ LET need == BlockBytes - Filled
     IN  IF Filled > 0 /\ Len(piece) < need
         THEN buffer' = Put(Filled, piece) /\ UNCHANGED blocks
         ELSE LET taken == IF Filled > 0 THEN need ELSE 0
                  rest  == SubSeq(piece, taken + 1, Len(piece))
                  first == Put(Filled, SubSeq(piece, 1, taken))
              IN  /\ blocks' = blocks \o (IF Filled > 0 THEN <<first>> ELSE <<>>) \o Whole(rest)
                  /\ buffer' = [i \in 1..BlockBytes |->
                                  IF i <= Len(Leftover(rest)) THEN Leftover(rest)[i]
                                  ELSE IF Filled > 0 THEN first[i] ELSE buffer[i]]
  /\ UNCHANGED final

\* Mutant of OverFull: the length is put behind the end mark however little room
\* is left.
OverFullNever == FALSE

\* No room for the length behind the end mark.
OverFull == Filled + 1 > BlockBytes - CountBytes

Lengths == [i \in 1..CountBytes |-> Count]

Finish ==
  /\ ~final /\ final' = TRUE
  /\ LET room   == IF OverFull THEN BlockBytes - Filled - 1
                   ELSE IF Filled + 1 <= BlockBytes - CountBytes THEN BlockBytes - CountBytes - Filled - 1
                   ELSE 0
         marked == Put(Filled, <<End>> \o Zeros(room))
         last   == IF OverFull THEN Zeros(BlockBytes - CountBytes) ELSE SubSeq(marked, 1, BlockBytes - CountBytes)
     IN  /\ blocks' = blocks \o (IF OverFull THEN <<marked>> ELSE <<>>) \o <<last \o Lengths>>
         /\ buffer' = last \o Lengths
  /\ UNCHANGED message

\* A new context; its buffer is not cleared.
Begin ==
  /\ final
  /\ message' = <<>> /\ blocks' = <<>> /\ final' = FALSE
  /\ UNCHANGED buffer

Init ==
  /\ message = <<>> /\ blocks = <<>> /\ final = FALSE
  /\ buffer = Zeros(BlockBytes)

Next ==
  \/ \E n \in 0..(MaxMessage - Len(message)) : \E piece \in [1..n -> Byte] : Update(piece)
  \/ Finish \/ Begin

Spec == Init /\ [][Next]_vars

-----------------------------------------------------------------------------
\* The message, an end mark, as few zeros as there can be, and its length.
Padded ==
  LET before == Len(message) + 1 + CountBytes
      zeros  == (BlockBytes - (before % BlockBytes)) % BlockBytes
  IN  message \o <<End>> \o Zeros(zeros) \o Lengths

\* In whatever pieces a message was given, the blocks that are compressed are those of
\* the whole message, padded; and before that, those of it that are full.
DigestOfMessage ==
  FlattenSeq(blocks) =
    IF final THEN Padded ELSE SubSeq(message, 1, Len(message) - Filled)
=============================================================================
