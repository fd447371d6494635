------------------------------- MODULE Sha256 -------------------------------
(***************************************************************************)
(* libs/sha256, as DirectoryBackup uses it: a message comes in pieces of   *)
(* any length.  The transform is left abstract: the state is the sequence  *)
(* of the blocks that went into it, so that two digests are equal only if  *)
(* their blocks are.  The i-th byte of the message is its number.          *)
(***************************************************************************)
EXTENDS Naturals, Sequences

CONSTANTS
  Block, LengthAt,   \* 64, and 56: where the length begins in the last block
  ByteBits,          \* 8
  Pieces,            \* lengths of the pieces
  Junk,              \* what sha256_init leaves in ctx->data
  MaxMessage         \* bound

ASSUME ShaAssumption ==
  Block \in Nat \ {0} /\ LengthAt \in 0 .. Block - 1 /\ ByteBits \in Nat /\ Pieces \subseteq Nat

VARIABLES state, buffer, datalen, bitlen, hashed, digest

shaVars == <<state, buffer, datalen, bitlen, hashed, digest>>

(* sha256_init *)
ShaInit ==
  /\ state = <<>> /\ datalen = 0 /\ bitlen = 0
  /\ buffer = [i \in 1 .. Block |-> Junk]
  /\ hashed = 0 /\ digest = <<>>

sha256_transform(blocks, block) == Append(blocks, block)

(* Bytes from .. to of the buffer are set by the padding: one bit, then zeros. *)
Padded(data, from, to) ==
  [i \in 1 .. Block |-> IF i = from THEN "one" ELSE IF i > from /\ i <= to THEN "zero" ELSE data[i]]

WithLength(data, bits) == [i \in 1 .. Block |-> IF i > LengthAt THEN <<bits, i>> ELSE data[i]]

TakeByte(ctx, byte) ==
  LET data == [ctx.buffer EXCEPT ![ctx.datalen + 1] = byte]
  IN IF ctx.datalen + 1 = Block
     THEN [state |-> sha256_transform(ctx.state, data), buffer |-> data, datalen |-> 0,
           bitlen |-> ctx.bitlen + Block * ByteBits]
     ELSE [ctx EXCEPT !.buffer = data, !.datalen = @ + 1]

(* The next len bytes of the message, one after another *)
Taken(ctx, len) ==
  LET after[i \in 0 .. len] == IF i = 0 THEN ctx ELSE TakeByte(after[i - 1], hashed + i)
  IN  after[len]

sha256_update(len) ==
  /\ digest = <<>> /\ hashed + len <= MaxMessage
  /\ hashed' = hashed + len
  /\ LET ctx == Taken([state |-> state, buffer |-> buffer, datalen |-> datalen, bitlen |-> bitlen], len)
     IN state' = ctx.state /\ buffer' = ctx.buffer /\ datalen' = ctx.datalen /\ bitlen' = ctx.bitlen
  /\ UNCHANGED digest

(* A plausible bug: a byte too few is kept for the one bit. *)
FitsLength_Bug == datalen <= LengthAt
FitsLength     == datalen < LengthAt

sha256_final ==
  /\ digest = <<>>
  /\ LET full == Padded(buffer, datalen + 1, Block)
         last == IF FitsLength THEN Padded(buffer, datalen + 1, LengthAt)
                 ELSE [i \in 1 .. Block |-> IF i <= LengthAt THEN "zero" ELSE full[i]]
         before == IF FitsLength THEN state ELSE sha256_transform(state, full)
     IN /\ bitlen' = bitlen + datalen * ByteBits
        /\ buffer' = WithLength(last, bitlen')
        /\ digest' = sha256_transform(before, buffer')
        /\ state' = digest'
  /\ UNCHANGED <<datalen, hashed>>

ShaNext == sha256_final \/ \E len \in Pieces : sha256_update(len)
ShaSpec == ShaInit /\ [][ShaNext]_shaVars
-----------------------------------------------------------------------------
(* FIPS 180-4, 5.1.1: the message, a one bit, zeros up to the length, which ends a block *)
PaddedMessage(n) ==
  LET blocks == (n + 1 + (Block - LengthAt) + Block - 1) \div Block
      cell(i) == IF i <= n THEN i ELSE IF i = n + 1 THEN "one"
                 ELSE IF i <= (blocks - 1) * Block + LengthAt THEN "zero"
                 ELSE <<n * ByteBits, i - (blocks - 1) * Block>>
  IN [b \in 1 .. blocks |-> [i \in 1 .. Block |-> cell((b - 1) * Block + i)]]

(* The digest is that of the padded message, whatever its length and the pieces it came in
   (sha256.c:109, 124). *)
DigestIsOfThePaddedMessage == digest # <<>> => digest = PaddedMessage(hashed)
=============================================================================
