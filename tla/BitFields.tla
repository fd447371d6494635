----------------------------- MODULE BitFields -----------------------------
(***************************************************************************)
(* The vendored library libs/bitfield as CanEntryHandler uses it: bits are *)
(* numbered from the most significant bit of byte 0.  A uint8_t is the     *)
(* function from the places of its CharBit bits to the bits, a byte array  *)
(* is a function from 0 .. length - 1 to bytes, and a uint64_t, which has  *)
(* WordBytes bytes, is a number.                                           *)
(***************************************************************************)
EXTENDS Integers, FiniteSets

CONSTANTS
  CharBit, WordBytes,
  Behind              \* the byte that happens to stand behind an array

Places == 0 .. CharBit - 1
Byte   == [Places -> {0, 1}]

ASSUME BitsAssumption == CharBit \in Nat \ {0} /\ WordBytes \in Nat \ {0} /\ Behind \in Byte

Bytes(length) == [0 .. length - 1 -> Byte]
Zeros(length) == [i \in 0 .. length - 1 |-> [b \in Places |-> 0]]
Size(bytes)   == Cardinality(DOMAIN bytes)
WordBits      == WordBytes * CharBit

(* Bit i of a byte array *)
Bit(bytes, i) == bytes[i \div CharBit][i % CharBit]

(* 1 << k *)
PowerOf2[k \in Nat] == IF k = 0 THEN 1 ELSE 2 * PowerOf2[k - 1]

(* x & reverse_mask[k], x & reverse_mask_xor[k], x | y, x << k, x >> k *)
FirstBits(x, k)    == [b \in Places |-> IF b < k THEN x[b] ELSE 0]
WithoutFirst(x, k) == [b \in Places |-> IF b < k THEN 0 ELSE x[b]]
Or(x, y)           == [b \in Places |-> IF x[b] = 1 THEN 1 ELSE y[b]]
ShiftLeft(x, k)    == [b \in Places |-> IF b + k < CharBit THEN x[b + k] ELSE 0]
ShiftRight(x, k)   == [b \in Places |-> IF b < k THEN 0 ELSE x[b - k]]

(* bytes[i], where one byte past the end may be read *)
ByteAt(bytes, i) == IF i \in DOMAIN bytes THEN bytes[i] ELSE Behind

(* The byte that starts `left` bits behind the start of byte i *)
Shifted(source, i, left) ==
  IF left = 0 THEN ByteAt(source, i)
  ELSE Or(ShiftLeft(ByteAt(source, i), left),
          ShiftRight(ByteAt(source, i + 1), CharBit - left))

bits_to_bytes(bits) ==
  (bits \div CharBit) + (IF bits % CharBit = 0 THEN 0 ELSE 1)

find_end_bit(numBits) ==
  IF numBits % CharBit = 0 THEN CharBit ELSE numBits % CharBit

CopyFits(source, soff, n, dest, doff) ==
  /\ n >= 1
  /\ soff >= 0 /\ soff + n <= Size(source) * CharBit
  /\ doff + n <= Size(dest) * CharBit

(* A plausible bug: the bits behind the copied ones are not kept. *)
FirstByte_Bug(old, c, dm, n) == Or(FirstBits(old, dm), c)

(* PREPARE_FIRST_COPY: the first byte of the destination; c holds source bits from dm on *)
FirstByte(old, c, dm, n) ==
  IF n >= CharBit - dm
  THEN Or(FirstBits(old, dm), c)
  ELSE Or(Or(FirstBits(old, dm), WithoutFirst(old, dm + n)), FirstBits(c, dm + n))

(* What copy_bits leaves in the destination: a first byte that is aligned, whole bytes, and
   the rest of the bits. *)
copy_bits(source, soff, n, dest, doff) ==
  LET sm    == soff % CharBit
      dm    == doff % CharBit
      s0    == soff \div CharBit
      d0    == doff \div CharBit
      left  == (sm - dm) % CharBit
      begin == sm # dm \/ sm > 0
      c     == WithoutFirst(IF sm < dm THEN ShiftRight(ByteAt(source, s0), dm - sm)
                                       ELSE Shifted(source, s0, left), dm)
      s1    == IF begin /\ sm >= dm THEN s0 + 1 ELSE s0
      d1    == IF begin THEN d0 + 1 ELSE d0
      rest  == IF ~begin THEN n ELSE IF n >= CharBit - dm THEN n - (CharBit - dm) ELSE 0
      whole == rest \div CharBit
      tail  == rest % CharBit
  IN [j \in DOMAIN dest |->
        IF begin /\ j = d0 THEN FirstByte(dest[j], c, dm, n)
        ELSE IF j \in d1 .. d1 + whole - 1 THEN Shifted(source, s1 + j - d1, left)
        ELSE IF tail > 0 /\ j = d1 + whole
             THEN Or(WithoutFirst(dest[j], tail),
                     FirstBits(Shifted(source, s1 + whole, left), tail))
        ELSE dest[j]]

(* bswap64 of a little-endian host: the number whose bits, the first the highest, these are *)
Whole(bytes) ==
  LET upto[k \in 0 .. WordBits] == IF k = 0 THEN 0 ELSE 2 * upto[k - 1] + Bit(bytes, k - 1)
  IN  upto[WordBits]

WholeBytes(value) ==
  LET shifted[k \in 0 .. WordBits] == IF k = 0 THEN value ELSE shifted[k - 1] \div 2
  IN  [i \in 0 .. WordBytes - 1 |->
        [b \in Places |-> shifted[WordBits - 1 - (i * CharBit + b)] % 2]]

get_bitfield(source, offset, bit_count) ==
  LET zeros == Zeros(WordBytes)
      doff  == (WordBytes - bits_to_bytes(bit_count)) * CharBit
                 + CharBit - find_end_bit(bit_count)
  IN IF /\ bit_count \in 1 .. WordBits
        /\ CopyFits(source, offset, bit_count, zeros, doff)
     THEN Whole(copy_bits(source, offset, bit_count, zeros, doff))
     ELSE 0

bitmask(bit_count) == PowerOf2[IF bit_count >= WordBits THEN WordBits ELSE bit_count] - 1

(* A value that does not fit leaves the destination alone. *)
set_bitfield(value, offset, bit_count, dest) ==
  LET combined == WholeBytes(value)
      soff     == WordBits - bit_count
  IN IF value <= bitmask(bit_count) /\ CopyFits(combined, soff, bit_count, dest, offset)
     THEN copy_bits(combined, soff, bit_count, dest, offset)
     ELSE dest

-----------------------------------------------------------------------------
(* The reference: bits n of the source, from soff on, are in after from doff on; the others are
   as before. *)
IsBitwiseCopy(source, soff, n, before, doff, after) ==
  \A i \in 0 .. Size(before) * CharBit - 1 :
    Bit(after, i) = IF i \in doff .. doff + n - 1 THEN Bit(source, soff + i - doff)
                                                  ELSE Bit(before, i)
=============================================================================
