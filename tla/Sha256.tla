-------------------------------- MODULE Sha256 --------------------------------
(* How sha256.c cuts a message that arrives in pieces into blocks and pads   *)
(* it.  The transform that digests a block is left out: what is kept is the  *)
(* sequence of blocks it was given, and a byte of the message is its index.  *)
EXTENDS Integers, SequencesExt

CONSTANTS
  BlockSize,     \* 64
  LengthSize,    \* bytes of the length field, 8
  Pieces,        \* lengths of the pieces
  MaxMessage     \* bound: length of the message

ASSUME Sha256Assumption ==
  /\ BlockSize \in Nat /\ LengthSize \in 1..(BlockSize - 1)
  /\ Pieces \subseteq Nat /\ MaxMessage \in Nat

VARIABLES
  message,       \* history: bytes given to sm_sha256_update so far
  buffer,        \* ctx->buffer up to buffer_len
  bitlen,        \* ctx->bitlen, in bytes
  blocks,        \* history: the blocks transformed
  finished       \* sm_sha256_final has been called

hash == <<message, buffer, bitlen, blocks, finished>>

HashInit ==
  message = 0 /\ buffer = <<>> /\ bitlen = 0 /\ blocks = <<>> /\ finished = FALSE

Full(b) == Len(b) = BlockSize

\* Slip: a piece that does not fit is cut off at the end of the block.
UpdateOnce(ctx, data) ==
  LET both == ctx.buffer \o data
      next == IF Len(both) > BlockSize THEN SubSeq(both, 1, BlockSize) ELSE both
  IN  IF Full(next) THEN [buffer |-> <<>>, blocks |-> Append(ctx.blocks, next)]
                    ELSE [buffer |-> next, blocks |-> ctx.blocks]

\* A round of sm_sha256_update: as much as fits, and a block when one is full.
Round(s, data) ==
  LET room == BlockSize - Len(s.buffer)
      left == Len(data) - s.i
      take == IF room > left THEN left ELSE room
      next == s.buffer \o SubSeq(data, s.i + 1, s.i + take)
  IN  [i      |-> s.i + take,
       buffer |-> IF Full(next) THEN <<>> ELSE next,
       blocks |-> IF Full(next) THEN Append(s.blocks, next) ELSE s.blocks]

\* sm_sha256_update: rounds until the data is used up, a byte or more in each.
Update(ctx, data) ==
  LET round[k \in 0..Len(data)] ==
        IF k = 0 THEN [i |-> 0, buffer |-> ctx.buffer, blocks |-> ctx.blocks]
        ELSE IF round[k-1].i < Len(data) THEN Round(round[k-1], data) ELSE round[k-1]
      last == round[Len(data)]
  IN  [buffer |-> last.buffer, blocks |-> last.blocks]

\* Byte i of the message, the mark, the filling and the bytes of the length.
Byte(i) == [is |-> "data", at |-> i]
Mark    == [is |-> "mark", at |-> 0]
Zero    == [is |-> "zero", at |-> 0]
LengthField(n) == [i \in 1..LengthSize |-> [is |-> "length", at |-> n]]
Bytes(from, n) == [i \in 1..n |-> Byte(from + i)]

Piece(n) ==
  /\ ~finished /\ message + n <= MaxMessage
  /\ LET ctx == Update([buffer |-> buffer, blocks |-> blocks], Bytes(message, n))
     IN  buffer' = ctx.buffer /\ blocks' = ctx.blocks
  /\ message' = message + n /\ bitlen' = bitlen + n
  /\ UNCHANGED finished

\* sm_sha256_final: the mark, zeros one by one until the length field fits, for
\* which less than a block of them is enough, and the length as it was before.
Fill(ctx) ==
  LET filled[z \in 0..BlockSize] ==
        IF z = 0 THEN ctx
        ELSE IF Len(filled[z-1].buffer) = BlockSize - LengthSize THEN filled[z-1]
        ELSE Update(filled[z-1], <<Zero>>)
  IN  filled[BlockSize]

Final ==
  /\ ~finished /\ finished' = TRUE
  /\ LET ctx == Fill(Update([buffer |-> buffer, blocks |-> blocks], <<Mark>>))
     IN  /\ blocks' = Append(ctx.blocks, ctx.buffer \o LengthField(bitlen))
         /\ bitlen' = bitlen + (Len(ctx.blocks) - Len(blocks)) * BlockSize + Len(ctx.buffer) - Len(buffer)
  /\ buffer' = <<>>
  /\ UNCHANGED message

HashNext == Final \/ \E n \in Pieces : Piece(n)

HashSpec == HashInit /\ [][HashNext]_hash

-------------------------------------------------------------------------------
\* The padded message of the standard: the shortest multiple of the block size
\* that holds the message, the mark and the length, filled with zeros.
Padded(n) ==
  LET zeros == CHOOSE z \in 0..(BlockSize - 1) : (n + 1 + z + LengthSize) % BlockSize = 0
  IN  Bytes(0, n) \o <<Mark>> \o [i \in 1..zeros |-> Zero] \o LengthField(n)

\* However the message was cut, the blocks are those of the whole message: so
\* far its bytes in order, in the end its padding and nothing else.
BlocksAreTheMessage ==
  FlattenSeq(blocks) \o buffer = IF finished THEN Padded(message) ELSE Bytes(0, message)
===============================================================================
