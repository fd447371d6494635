------------------------ MODULE CanBitMappingProofs ------------------------
(***************************************************************************)
(* The bit fields of a frame, for bytes and words of any size, for any     *)
(* mapping and any byte behind an array: copy_bits copies bit by bit, what *)
(* set_bitfield writes get_bitfield reads, and so a field of the bit       *)
(* editor reads back as the number it was given.                           *)
(***************************************************************************)
EXTENDS CanBitMapping, SequenceFacts

-----------------------------------------------------------------------------
(* Bytes and their bits.                                                   *)

\* The length of a byte array.
LEMMA SizeOfBytes ==
  ASSUME NEW length \in Nat, NEW bytes \in Bytes(length)
  PROVE  DOMAIN bytes = 0 .. length - 1 /\ Size(bytes) = length
<1>1. Cardinality(0 .. length - 1) = length
  BY FS_Interval
<1> QED
  BY <1>1 DEF Bytes, Size

\* A bit is at a place of a byte.
LEMMA BitAtPlace ==
  ASSUME NEW q \in Int, NEW r \in Places
  PROVE  (q * CharBit + r) \div CharBit = q /\ (q * CharBit + r) % CharBit = r
  BY BitsAssumption DEF Places

\* The byte of a bit, and its place there.
LEMMA PlaceOfBit ==
  ASSUME NEW i \in Int
  PROVE  /\ i \div CharBit \in Int /\ i % CharBit \in Places
         /\ i = (i \div CharBit) * CharBit + (i % CharBit)
  BY BitsAssumption DEF Places

\* A byte begins behind all bits of the bytes before it.
LEMMA BytesAreApart ==
  ASSUME NEW j \in Int, NEW k \in Int, j < k
  PROVE  j * CharBit + CharBit <= k * CharBit
  BY BitsAssumption

\* What the bits of a byte are after each operation.
LEMMA ByteOperations ==
  ASSUME NEW x \in Byte, NEW k \in 0 .. CharBit, NEW b \in Places
  PROVE  /\ FirstBits(x, k) \in Byte /\ WithoutFirst(x, k) \in Byte
         /\ ShiftLeft(x, k) \in Byte /\ ShiftRight(x, k) \in Byte
         /\ FirstBits(x, k)[b] = (IF b < k THEN x[b] ELSE 0)
         /\ WithoutFirst(x, k)[b] = (IF b < k THEN 0 ELSE x[b])
         /\ x[b] \in {0, 1}
  BY BitsAssumption DEF FirstBits, WithoutFirst, ShiftLeft, ShiftRight, Byte, Places

\* A bit of x | y.
LEMMA ByteOr ==
  ASSUME NEW x \in Byte, NEW y \in Byte, NEW b \in Places
  PROVE  Or(x, y) \in Byte /\ Or(x, y)[b] = IF x[b] = 1 THEN 1 ELSE y[b]
  BY DEF Or, Byte

\* Every byte read is a byte, also the one behind the array.
LEMMA ByteAtIsByte ==
  ASSUME NEW length \in Nat, NEW bytes \in Bytes(length), NEW i \in Int
  PROVE  ByteAt(bytes, i) \in Byte
<1>1. DOMAIN bytes = 0 .. length - 1 /\ \A k \in 0 .. length - 1 : bytes[k] \in Byte
  BY DEF Bytes
<1> QED
  BY <1>1, BitsAssumption DEF ByteAt

\* The shifted byte has the end of one byte and the beginning of the next.
LEMMA ShiftedBit ==
  ASSUME NEW length \in Nat, NEW source \in Bytes(length), NEW k \in Int,
         NEW left \in Places, NEW b \in Places
  PROVE  /\ Shifted(source, k, left) \in Byte
         /\ Shifted(source, k, left)[b] =
              IF b + left < CharBit THEN ByteAt(source, k)[b + left]
                                    ELSE ByteAt(source, k + 1)[b + left - CharBit]
<1> DEFINE x == ByteAt(source, k)
           y == ByteAt(source, k + 1)
<1>1. x \in Byte /\ y \in Byte
  BY ByteAtIsByte
<1>2. CharBit \in Nat /\ left \in 0 .. CharBit /\ CharBit - left \in 0 .. CharBit /\ left \in Nat /\ b \in Nat
      /\ b < CharBit /\ left < CharBit
  BY BitsAssumption DEF Places
<1> HIDE DEF x, y
<1>3. /\ ShiftLeft(x, left) \in Byte /\ ShiftRight(y, CharBit - left) \in Byte
  BY <1>1, <1>2, ByteOperations
<1>4. ShiftLeft(x, left)[b] = IF b + left < CharBit THEN x[b + left] ELSE 0
  BY DEF ShiftLeft
<1>5. ShiftRight(y, CharBit - left)[b] = IF b < CharBit - left THEN 0 ELSE y[b - (CharBit - left)]
  BY DEF ShiftRight
<1>6. b - (CharBit - left) = b + left - CharBit /\ (b < CharBit - left <=> b + left < CharBit)
  BY <1>2
<1>7. /\ b + left < CharBit => x[b + left] \in {0, 1}
      /\ ~(b + left < CharBit) => y[b + left - CharBit] \in {0, 1}
  BY <1>1, <1>2 DEF Byte, Places
<1>8. CASE left = 0
  <2>1. Shifted(source, k, left) = x
    BY <1>8 DEF Shifted, x
  <2> QED
    BY <1>1, <1>2, <1>8, <2>1 DEF x
<1>9. CASE left # 0
  <2>1. Shifted(source, k, left) = Or(ShiftLeft(x, left), ShiftRight(y, CharBit - left))
    BY <1>9 DEF Shifted, x, y
  <2>2. /\ Or(ShiftLeft(x, left), ShiftRight(y, CharBit - left)) \in Byte
        /\ Or(ShiftLeft(x, left), ShiftRight(y, CharBit - left))[b] =
             IF ShiftLeft(x, left)[b] = 1 THEN 1 ELSE ShiftRight(y, CharBit - left)[b]
    BY <1>3, ByteOr
  <2>3. CASE b + left < CharBit
    BY <1>4, <1>5, <1>6, <1>7, <2>1, <2>2, <2>3 DEF x
  <2>4. CASE ~(b + left < CharBit)
    BY <1>4, <1>5, <1>6, <1>7, <2>1, <2>2, <2>4 DEF y
  <2> QED
    BY <2>3, <2>4
<1> QED
  BY <1>8, <1>9

\* A bit of the array is that of its byte.
LEMMA BitOfByte ==
  ASSUME NEW length \in Nat, NEW bytes \in Bytes(length), NEW k \in Int, NEW r \in Places,
         k * CharBit + r \in 0 .. length * CharBit - 1
  PROVE  /\ k \in 0 .. length - 1
         /\ Bit(bytes, k * CharBit + r) = ByteAt(bytes, k)[r]
         /\ Bit(bytes, k * CharBit + r) = bytes[k][r]
<1>1. k \in 0 .. length - 1
  <2>1. CharBit \in Nat /\ r \in Nat /\ r < CharBit
    BY BitsAssumption DEF Places
  <2>2. ~(k < 0)
    BY <2>1, BytesAreApart
  <2>3. ~(length <= k)
    BY <2>1
  <2> QED
    BY <2>2, <2>3
<1>2. (k * CharBit + r) \div CharBit = k /\ (k * CharBit + r) % CharBit = r
  BY BitAtPlace
<1>3. ByteAt(bytes, k) = bytes[k]
  BY <1>1 DEF ByteAt, Bytes
<1> QED
  BY <1>1, <1>2, <1>3 DEF Bit

\* Each bit of each byte of the destination is what it should be.
LEMMA CopiedByte ==
  ASSUME NEW slen \in Nat, NEW source \in Bytes(slen), NEW dlen \in Nat, NEW dest \in Bytes(dlen),
         NEW soff \in Nat, NEW n \in Nat, NEW doff \in Nat, CopyFits(source, soff, n, dest, doff),
         NEW j \in 0 .. dlen - 1, NEW b \in Places
  PROVE  /\ copy_bits(source, soff, n, dest, doff)[j] \in Byte
         /\ copy_bits(source, soff, n, dest, doff)[j][b] =
              IF j * CharBit + b \in doff .. doff + n - 1
              THEN Bit(source, soff + (j * CharBit + b) - doff) ELSE dest[j][b]
<1> DEFINE sm    == soff % CharBit
           dm    == doff % CharBit
           s0    == soff \div CharBit
           d0    == doff \div CharBit
           left  == (sm - dm) % CharBit
           begin == sm # dm \/ sm > 0
           first == IF sm < dm THEN ShiftRight(ByteAt(source, s0), dm - sm)
                               ELSE Shifted(source, s0, left)
           c     == WithoutFirst(first, dm)
           s1    == IF begin /\ sm >= dm THEN s0 + 1 ELSE s0
           d1    == IF begin THEN d0 + 1 ELSE d0
           rest  == IF ~begin THEN n ELSE IF n >= CharBit - dm THEN n - (CharBit - dm) ELSE 0
           whole == rest \div CharBit
           tail  == rest % CharBit
           i     == j * CharBit + b
           byte  == IF begin /\ j = d0 THEN FirstByte(dest[j], c, dm, n)
                    ELSE IF j \in d1 .. d1 + whole - 1 THEN Shifted(source, s1 + j - d1, left)
                    ELSE IF tail > 0 /\ j = d1 + whole
                         THEN Or(WithoutFirst(dest[j], tail),
                                 FirstBits(Shifted(source, s1 + whole, left), tail))
                    ELSE dest[j]
           Copied == i \in doff .. doff + n - 1
<1>1. DOMAIN dest = 0 .. dlen - 1 /\ dest[j] \in Byte
  BY DEF Bytes
<1>2. copy_bits(source, soff, n, dest, doff)[j] = byte
  BY <1>1 DEF copy_bits
<1>3. /\ CharBit \in Nat \ {0} /\ b \in Nat /\ b < CharBit
      /\ s0 \in Int /\ d0 \in Int /\ sm \in Places /\ dm \in Places
      /\ soff = s0 * CharBit + sm /\ doff = d0 * CharBit + dm
  BY PlaceOfBit, BitsAssumption DEF Places
<1>4. /\ sm \in Nat /\ sm < CharBit /\ dm \in Nat /\ dm < CharBit
  BY <1>3 DEF Places
<1>5. n >= 1 /\ soff + n <= slen * CharBit /\ doff + n <= dlen * CharBit
  BY SizeOfBytes DEF CopyFits
<1> HIDE DEF sm, dm, s0, d0
<1>6. left \in Places /\ left = IF sm >= dm THEN sm - dm ELSE sm - dm + CharBit
  BY <1>3, <1>4 DEF Places
<1>7. rest \in Nat
  BY <1>3, <1>4
<1>8. /\ whole \in Nat /\ tail \in Nat /\ tail < CharBit
      /\ rest = whole * CharBit + tail
  <2> HIDE DEF rest
  <2>1. /\ whole \in Int /\ tail \in Places /\ rest = whole * CharBit + tail
    BY <1>7, PlaceOfBit
  <2>2. tail \in Nat /\ tail < CharBit
    BY <1>3, <2>1 DEF Places
  <2>3. ~(whole < 0)
    <3> HIDE DEF whole, tail
    <3> QED
      BY <1>3, <1>7, <2>1, <2>2, BytesAreApart
  <2> QED
    BY <2>1, <2>2, <2>3
<1>9. /\ begin /\ n < CharBit - dm => rest = 0 /\ doff + n < d1 * CharBit
      /\ ~(begin /\ n < CharBit - dm) => doff + n = d1 * CharBit + rest
      /\ ~begin => dm = 0 /\ sm = 0
  BY <1>3, <1>4
<1> HIDE DEF left, rest, whole, tail, begin
<1>10. i \in Int /\ d1 \in Int /\ s1 \in Int
  BY <1>3
\* A bit that is copied is the one of a byte of the source.
<1>11. ASSUME Copied, NEW k \in Int, NEW r \in Places, k * CharBit + r = soff + i - doff
       PROVE  Bit(source, soff + i - doff) = ByteAt(source, k)[r]
  <2>1. soff + i - doff \in 0 .. slen * CharBit - 1
    BY <1>3, <1>5, <1>10, <1>11
  <2> QED
    BY <1>11, <2>1, BitOfByte
<1>12. ASSUME Copied, NEW k \in Int, k = IF sm >= dm THEN s0 + j - d0 ELSE s0 + j - d0 - 1
       PROVE  Shifted(source, k, left)[b] = Bit(source, soff + i - doff)
  <2>1. k * CharBit + left + b = soff + i - doff
    BY <1>3, <1>4, <1>6, <1>12
  <2>2. CASE b + left < CharBit
    <3>1. b + left \in Places /\ k * CharBit + (b + left) = soff + i - doff
      BY <1>3, <1>6, <2>1, <2>2 DEF Places
    <3> QED
      BY <1>6, <1>11, <1>12, <2>2, <3>1, ShiftedBit
  <2>3. CASE ~(b + left < CharBit)
    <3>1. /\ b + left - CharBit \in Places
          /\ (k + 1) * CharBit + (b + left - CharBit) = soff + i - doff
      BY <1>3, <1>6, <2>1, <2>3 DEF Places
    <3>2. Bit(source, soff + i - doff) = ByteAt(source, k + 1)[b + left - CharBit]
      BY <1>11, <1>12, <3>1, k + 1 \in Int
    <3> QED
      BY <1>6, <1>12, <2>3, <3>2, ShiftedBit
  <2> QED
    BY <2>2, <2>3
<1>13. CASE begin /\ j = d0
  <2>1. /\ first \in Byte
        /\ Copied => first[b] = Bit(source, soff + i - doff)
    <3>1. CASE sm < dm
      <4>1. ByteAt(source, s0) \in Byte /\ dm - sm \in 0 .. CharBit
        BY <1>3, <1>4, <3>1, ByteAtIsByte
      <4>2. first \in Byte
        BY <3>1, <4>1, ByteOperations
      <4>3. ASSUME Copied PROVE first[b] = Bit(source, soff + i - doff)
        <5>1. b >= dm
          BY <1>3, <1>4, <1>13, <4>3
        <5>2. first[b] = ByteAt(source, s0)[b - (dm - sm)]
          BY <1>4, <1>3, <3>1, <5>1 DEF ShiftRight
        <5>3. /\ b - (dm - sm) \in Places
              /\ s0 * CharBit + (b - (dm - sm)) = soff + i - doff
          BY <1>3, <1>4, <1>13, <3>1, <5>1 DEF Places
        <5> QED
          BY <1>3, <1>11, <4>3, <5>2, <5>3
      <4> QED
        BY <4>2, <4>3
    <3>2. CASE ~(sm < dm)
      <4>1. first = Shifted(source, s0, left)
        BY <3>2
      <4>2. s0 = IF sm >= dm THEN s0 + j - d0 ELSE s0 + j - d0 - 1
        BY <1>3, <1>4, <1>13, <3>2
      <4> QED
        BY <1>3, <1>6, <1>12, <4>1, <4>2, ShiftedBit
    <3> QED
      BY <3>1, <3>2
  <2> HIDE DEF first
  <2>2. Copied <=> dm <= b /\ b < dm + n
    BY <1>3, <1>4, <1>13
  <2>3. dm \in 0 .. CharBit
    BY <1>3, <1>4
  <2>4. c \in Byte /\ c[b] = IF b < dm THEN 0 ELSE first[b]
    BY <2>1, <2>3, ByteOperations
  <2> HIDE DEF c
  <2>5. FirstBits(dest[j], dm) \in Byte /\ FirstBits(dest[j], dm)[b] = IF b < dm THEN dest[j][b] ELSE 0
    BY <1>1, <2>3, ByteOperations
  <2>6. byte = FirstByte(dest[j], c, dm, n)
    BY <1>13
  <2>7. dest[j][b] \in {0, 1} /\ c[b] \in {0, 1}
    BY <1>1, <2>4 DEF Byte
  <2>8. CASE n >= CharBit - dm
    <3>1. byte = Or(FirstBits(dest[j], dm), c)
      BY <2>6, <2>8 DEF FirstByte
    <3>2. /\ byte \in Byte
          /\ byte[b] = IF FirstBits(dest[j], dm)[b] = 1 THEN 1 ELSE c[b]
      BY <2>4, <2>5, <3>1, ByteOr
    <3>3. b < dm + n
      BY <1>3, <1>4, <2>8
    <3>4. CASE b < dm
      BY <1>2, <1>3, <1>4, <2>2, <2>4, <2>5, <2>7, <3>2, <3>4
    <3>5. CASE ~(b < dm)
      BY <1>2, <1>3, <1>4, <2>1, <2>2, <2>4, <2>5, <2>7, <3>2, <3>3, <3>5
    <3> QED
      BY <3>4, <3>5
  <2>9. CASE ~(n >= CharBit - dm)
    <3> DEFINE kept == Or(FirstBits(dest[j], dm), WithoutFirst(dest[j], dm + n))
    <3>1. byte = Or(kept, FirstBits(c, dm + n))
      BY <2>6, <2>9 DEF FirstByte
    <3>2. dm + n \in 0 .. CharBit
      BY <1>3, <1>4, <2>9
    <3>3. /\ WithoutFirst(dest[j], dm + n) \in Byte /\ FirstBits(c, dm + n) \in Byte
          /\ WithoutFirst(dest[j], dm + n)[b] = IF b < dm + n THEN 0 ELSE dest[j][b]
          /\ FirstBits(c, dm + n)[b] = IF b < dm + n THEN c[b] ELSE 0
      BY <1>1, <2>4, <3>2, ByteOperations
    <3>4. /\ kept \in Byte
          /\ kept[b] = IF FirstBits(dest[j], dm)[b] = 1 THEN 1 ELSE WithoutFirst(dest[j], dm + n)[b]
      BY <2>5, <3>3, ByteOr
    <3> HIDE DEF kept
    <3>5. byte \in Byte /\ byte[b] = IF kept[b] = 1 THEN 1 ELSE FirstBits(c, dm + n)[b]
      BY <3>1, <3>3, <3>4, ByteOr
    <3>6. CASE b < dm
      BY <1>2, <1>3, <1>4, <2>2, <2>4, <2>5, <2>7, <3>3, <3>4, <3>5, <3>6
    <3>7. CASE ~(b < dm) /\ b < dm + n
      BY <1>2, <1>3, <1>4, <2>1, <2>2, <2>4, <2>5, <2>7, <3>3, <3>4, <3>5, <3>7
    <3>8. CASE ~(b < dm) /\ ~(b < dm + n)
      BY <1>2, <1>3, <1>4, <2>2, <2>4, <2>5, <2>7, <3>3, <3>4, <3>5, <3>8
    <3> QED
      BY <3>6, <3>7, <3>8
  <2> QED
    BY <2>8, <2>9
<1> HIDE DEF c, first
<1>14. d0 <= d1 /\ (begin => d1 = d0 + 1) /\ (~begin => d1 = d0)
  BY <1>3
\* Bytes behind the first one come from bytes behind the first one.
<1>15. s1 - d1 = IF sm >= dm THEN s0 - d0 ELSE s0 - d0 - 1
  BY <1>3, <1>4, <1>9
<1>16. CASE ~(begin /\ j = d0) /\ j \in d1 .. d1 + whole - 1
  <2>1. byte = Shifted(source, s1 + j - d1, left)
    BY <1>16
  <2>2. Copied
    <3>1. d1 * CharBit <= j * CharBit /\ j * CharBit + CharBit <= (d1 + whole) * CharBit
      <4>1. j = d1 \/ d1 < j
        BY <1>8, <1>10, <1>16
      <4> QED
        BY <1>3, <1>8, <1>10, <1>16, <4>1, BytesAreApart
    <3>2. whole >= 1 /\ rest # 0
      <4>1. whole >= 1
        BY <1>8, <1>10, <1>16
      <4>2. ~(0 < whole /\ whole * CharBit < CharBit)
        BY <1>3, <1>8, BytesAreApart
      <4> QED
        BY <1>3, <1>8, <4>1, <4>2
    <3>3. doff + n = d1 * CharBit + rest
      BY <1>9, <3>2
    <3>4. doff <= d1 * CharBit
      BY <1>3, <1>4, <1>9, <1>14
    <3> QED
      BY <1>3, <1>8, <1>10, <3>1, <3>3, <3>4
  <2>3. s1 + j - d1 \in Int /\ s1 + j - d1 = IF sm >= dm THEN s0 + j - d0 ELSE s0 + j - d0 - 1
    BY <1>3, <1>10, <1>15
  <2>4. byte[b] = Bit(source, soff + i - doff)
    BY <1>12, <2>1, <2>2, <2>3
  <2>5. byte \in Byte
    BY <1>6, <2>1, <2>3, ShiftedBit
  <2> QED
    BY <1>2, <2>2, <2>4, <2>5
<1>17. CASE ~(begin /\ j = d0) /\ tail > 0 /\ j = d1 + whole
  <2> DEFINE next == Shifted(source, s1 + whole, left)
  <2>1. byte = Or(WithoutFirst(dest[j], tail), FirstBits(next, tail))
    BY <1>8, <1>10, <1>17
  <2>2. Copied <=> b < tail
    <3>1. doff + n = d1 * CharBit + whole * CharBit + tail
      BY <1>3, <1>8, <1>9, <1>17
    <3>2. i = d1 * CharBit + whole * CharBit + b
      BY <1>3, <1>8, <1>10, <1>17
    <3>3. doff <= d1 * CharBit
      BY <1>3, <1>4, <1>9, <1>14
    <3>4. 0 <= whole * CharBit
      BY <1>3, <1>8
    <3> QED
      BY <1>3, <1>8, <1>10, <3>1, <3>2, <3>3, <3>4
  <2>3. s1 + whole \in Int /\ s1 + whole = IF sm >= dm THEN s0 + j - d0 ELSE s0 + j - d0 - 1
    BY <1>3, <1>8, <1>10, <1>15, <1>17
  <2>4. next \in Byte /\ (Copied => next[b] = Bit(source, soff + i - doff))
    BY <1>6, <1>12, <2>3, ShiftedBit
  <2> HIDE DEF next
  <2>5. tail \in 0 .. CharBit
    BY <1>3, <1>8
  <2>6. /\ WithoutFirst(dest[j], tail) \in Byte /\ FirstBits(next, tail) \in Byte
        /\ WithoutFirst(dest[j], tail)[b] = IF b < tail THEN 0 ELSE dest[j][b]
        /\ FirstBits(next, tail)[b] = IF b < tail THEN next[b] ELSE 0
        /\ dest[j][b] \in {0, 1}
    BY <1>1, <2>4, <2>5, ByteOperations
  <2>7. /\ byte \in Byte
        /\ byte[b] = IF WithoutFirst(dest[j], tail)[b] = 1 THEN 1 ELSE FirstBits(next, tail)[b]
    BY <2>1, <2>6, ByteOr
  <2>8. byte[b] = IF b < tail THEN next[b] ELSE dest[j][b]
    BY <2>6, <2>7
  <2> QED
    BY <1>2, <2>2, <2>4, <2>7, <2>8
<1>18. CASE /\ ~(begin /\ j = d0) /\ j \notin d1 .. d1 + whole - 1
            /\ ~(tail > 0 /\ j = d1 + whole)
  <2>1. byte = dest[j]
    BY <1>18
  <2>2. ~Copied
    <3>1. CASE j < d0
      BY <1>3, <1>4, <1>10, <3>1, BytesAreApart
    <3>2. CASE ~(j < d0)
      <4>1. j >= d1
        BY <1>3, <1>10, <1>14, <1>18, <3>2
      <4>2. d1 * CharBit <= j * CharBit
        <5>1. d1 = j \/ d1 < j
          BY <1>10, <4>1
        <5> QED
          BY <1>3, <1>10, <5>1, BytesAreApart
      <4>3. CASE begin /\ n < CharBit - dm
        BY <1>3, <1>9, <1>10, <4>2, <4>3
      <4>4. CASE ~(begin /\ n < CharBit - dm)
        <5>1. doff + n = (d1 + whole) * CharBit + tail
          BY <1>3, <1>8, <1>9, <1>10, <4>4
        <5>2. j >= d1 + whole /\ (j = d1 + whole => tail = 0)
          BY <1>8, <1>10, <1>18, <4>1
        <5>3. CASE j = d1 + whole
          BY <1>3, <1>8, <1>10, <5>1, <5>2, <5>3
        <5>4. CASE d1 + whole < j
          <6>1. (d1 + whole) * CharBit + CharBit <= j * CharBit
            BY <1>8, <1>10, <5>4, BytesAreApart
          <6> QED
            BY <1>3, <1>8, <1>10, <5>1, <6>1
        <5> QED
          BY <1>8, <1>10, <5>2, <5>3, <5>4
      <4> QED
        BY <4>3, <4>4
    <3> QED
      BY <3>1, <3>2
  <2> QED
    BY <1>1, <1>2, <2>1, <2>2
<1> QED
  BY <1>13, <1>16, <1>17, <1>18

\* The copy is an array of the same length, bit by bit what it should be.
LEMMA CopyIsRight ==
  ASSUME NEW slen \in Nat, NEW source \in Bytes(slen), NEW dlen \in Nat, NEW dest \in Bytes(dlen),
         NEW soff \in Nat, NEW n \in Nat, NEW doff \in Nat, CopyFits(source, soff, n, dest, doff)
  PROVE  /\ copy_bits(source, soff, n, dest, doff) \in Bytes(dlen)
         /\ IsBitwiseCopy(source, soff, n, dest, doff, copy_bits(source, soff, n, dest, doff))
<1> DEFINE after == copy_bits(source, soff, n, dest, doff)
<1>1. DOMAIN dest = 0 .. dlen - 1 /\ Size(dest) = dlen
  BY SizeOfBytes
<1>2. after \in Bytes(dlen)
  <2>1. after = [j \in 0 .. dlen - 1 |-> after[j]]
    BY <1>1 DEF copy_bits
  <2>2. 0 \in Places
    BY BitsAssumption DEF Places
  <2>3. \A j \in 0 .. dlen - 1 : after[j] \in Byte
    BY <2>2, CopiedByte
  <2> HIDE DEF after
  <2> QED
    BY <2>1, <2>3 DEF Bytes
<1>3. ASSUME NEW i \in 0 .. dlen * CharBit - 1
      PROVE  Bit(after, i) = IF i \in doff .. doff + n - 1 THEN Bit(source, soff + i - doff)
                                                           ELSE Bit(dest, i)
  <2> DEFINE j == i \div CharBit
             b == i % CharBit
  <2>1. j \in Int /\ b \in Places /\ i = j * CharBit + b
    BY <1>3, PlaceOfBit, BitsAssumption
  <2> HIDE DEF j, b, after
  <2>2. /\ j \in 0 .. dlen - 1
        /\ Bit(after, j * CharBit + b) = after[j][b] /\ Bit(dest, j * CharBit + b) = dest[j][b]
    BY <1>2, <1>3, <2>1, BitOfByte
  <2>3. after[j][b] = IF j * CharBit + b \in doff .. doff + n - 1
                      THEN Bit(source, soff + (j * CharBit + b) - doff) ELSE dest[j][b]
    BY <2>1, <2>2, CopiedByte DEF after
  <2> QED
    BY <2>1, <2>2, <2>3
<1> HIDE DEF after
<1>4. IsBitwiseCopy(source, soff, n, dest, doff, after)
  BY <1>1, <1>3 DEF IsBitwiseCopy
<1> QED
  BY <1>2, <1>4 DEF after

-----------------------------------------------------------------------------
(* Powers of two.                                                          *)

\* A power of two doubles from one number to the next.
LEMMA PowerSteps ==
  /\ PowerOf2[0] = 1
  /\ \A k \in Nat : PowerOf2[k] \in Nat \ {0} /\ PowerOf2[k + 1] = 2 * PowerOf2[k]
<1> DEFINE next == [k \in Nat |-> [x \in Nat |-> 2 * x]]
           Defines(f) == f = [k \in Nat |-> IF k = 0 THEN 1 ELSE 2 * f[k - 1]]
<1>1. next \in [Nat -> [Nat -> Nat]]
  OBVIOUS
<1>2. \A k, x \in Nat : next[k][x] = 2 * x
  OBVIOUS
<1> HIDE DEF next
<1>3. PICK g : Unfolds(g, Nat, 1, next)
  BY <1>1, Recursion
<1>4. g \in [Nat -> Nat] /\ g[0] = 1 /\ \A k \in Nat : g[k + 1] = 2 * g[k]
  BY <1>2, <1>3 DEF Unfolds
<1>5. Defines(g)
  <2>1. ASSUME NEW k \in Nat PROVE g[k] = IF k = 0 THEN 1 ELSE 2 * g[k - 1]
    <3>1. k = 0 \/ (k - 1 \in Nat /\ (k - 1) + 1 = k)
      OBVIOUS
    <3> QED
      BY <1>4, <3>1
  <2>2. g = [k \in Nat |-> g[k]]
    BY <1>4
  <2> QED
    BY <2>1, <2>2, Zenon
<1>6. Defines(PowerOf2)
  <2>1. PowerOf2 = CHOOSE f : Defines(f)
    BY DEF PowerOf2
  <2> HIDE DEF Defines
  <2> QED
    BY <1>5, <2>1
<1> HIDE DEF PowerOf2
<1>7. PowerOf2[0] = 1 /\ \A k \in Nat : PowerOf2[k + 1] = 2 * PowerOf2[k]
  <2>1. \A k \in Nat : k + 1 \in Nat /\ k + 1 # 0 /\ (k + 1) - 1 = k
    OBVIOUS
  <2> QED
    BY <1>6, <2>1
<1> DEFINE T == {k \in Nat : PowerOf2[k] \in Nat \ {0}}
<1>8. 0 \in T /\ \A k \in Nat : k \in T => k + 1 \in T
  BY <1>7
<1> HIDE DEF T
<1>9. \A k \in Nat : k \in T
  BY <1>8, Upwards
<1> QED
  BY <1>7, <1>9 DEF T

\* 2^(j + k) is 2^j * 2^k.
LEMMA PowerSum ==
  ASSUME NEW j \in Nat, NEW k \in Nat
  PROVE  PowerOf2[j + k] = PowerOf2[j] * PowerOf2[k]
<1> DEFINE T == {n \in Nat : PowerOf2[j + n] = PowerOf2[j] * PowerOf2[n]}
<1>1. 0 \in T
  BY PowerSteps
<1>2. ASSUME NEW n \in Nat, n \in T PROVE n + 1 \in T
  <2>1. j + n \in Nat /\ j + (n + 1) = (j + n) + 1
    OBVIOUS
  <2>2. PowerOf2[j + (n + 1)] = 2 * PowerOf2[j + n] /\ PowerOf2[n + 1] = 2 * PowerOf2[n]
    BY <2>1, PowerSteps
  <2>3. PowerOf2[j] \in Nat /\ PowerOf2[n] \in Nat
    BY PowerSteps
  <2> QED
    BY <1>2, <2>2, <2>3
<1> HIDE DEF T
<1>3. k \in T
  BY <1>1, <1>2, Upwards
<1> QED
  BY <1>3 DEF T

\* A larger power is a multiple of a smaller one.
LEMMA PowersGrow ==
  ASSUME NEW j \in Nat, NEW k \in Nat, j <= k
  PROVE  /\ k - j \in Nat /\ PowerOf2[k] = PowerOf2[k - j] * PowerOf2[j]
         /\ PowerOf2[j] <= PowerOf2[k]
<1>1. k - j \in Nat /\ (k - j) + j = k
  OBVIOUS
<1>2. PowerOf2[k] = PowerOf2[k - j] * PowerOf2[j]
  BY <1>1, PowerSum
<1>3. PowerOf2[k - j] \in Nat \ {0} /\ PowerOf2[j] \in Nat \ {0}
  BY <1>1, PowerSteps
<1> QED
  BY <1>1, <1>2, <1>3

-----------------------------------------------------------------------------
(* Numbers and their bits.                                                 *)

\* What shifting a number to the right leaves.
Shifts(f, value) ==
  f \in [0 .. WordBits -> Nat] /\ f[0] = value /\ \A k \in 1 .. WordBits : f[k] = f[k - 1] \div 2

\* A word has a bit at least.
LEMMA WordBitsIsNumber == WordBits \in Nat \ {0} /\ WordBits = WordBytes * CharBit
  BY BitsAssumption DEF WordBits

\* The bits of a number are the last digits that shifting it to the right leaves.
LEMMA BitsOfNumber ==
  ASSUME NEW value \in Nat
  PROVE  \E f : /\ Shifts(f, value)
                /\ WholeBytes(value) \in Bytes(WordBytes)
                /\ \A p \in 0 .. WordBits - 1 :
                     Bit(WholeBytes(value), p) = f[WordBits - 1 - p] % 2
<1> DEFINE next == [k \in Nat |-> [x \in Nat |-> x \div 2]]
           Defines(f) == f = [k \in 0 .. WordBits |-> IF k = 0 THEN value ELSE f[k - 1] \div 2]
<1>1. next \in [Nat -> [Nat -> Nat]] /\ \A k, x \in Nat : next[k][x] = x \div 2
  OBVIOUS
<1> HIDE DEF next
<1>2. WordBits \in Nat
  BY WordBitsIsNumber
<1>3. PICK h : UnfoldsUpTo(h, Nat, value, next, WordBits)
  <2>1. next \in [Nat -> [Nat -> Nat]] /\ WordBits \in Nat /\ value \in Nat
    BY <1>1, <1>2
  <2>2. \A base, len \in Nat : \E h : UnfoldsUpTo(h, Nat, base, next, len)
    BY <2>1, RecursionUpTo
  <2> QED
    BY <2>1, <2>2, Zenon
<1>4. ASSUME NEW k \in 1 .. WordBits PROVE h[k] = h[k - 1] \div 2
  <2>1. k - 1 \in Nat /\ k - 1 \in 0 .. WordBits
    BY <1>2
  <2> QED
    BY <1>1, <1>3, <2>1 DEF UnfoldsUpTo
<1>5. Defines(h)
  <2>1. \A k \in 0 .. WordBits : h[k] = IF k = 0 THEN value ELSE h[k - 1] \div 2
    <3>1. \A k \in 0 .. WordBits : k = 0 \/ k \in 1 .. WordBits
      BY <1>2
    <3> QED
      BY <1>3, <1>4, <3>1 DEF UnfoldsUpTo
  <2>2. h = [k \in 0 .. WordBits |-> h[k]]
    BY <1>3 DEF UnfoldsUpTo
  <2> QED
    BY <2>1, <2>2, Zenon
<1> DEFINE f == CHOOSE s : Defines(s)
<1>6. Defines(f)
  <2> HIDE DEF Defines
  <2> QED
    BY <1>5
<1>7. WholeBytes(value) = [i \in 0 .. WordBytes - 1 |->
                            [b \in Places |-> f[WordBits - 1 - (i * CharBit + b)] % 2]]
  BY DEF WholeBytes
<1> HIDE DEF f
<1>8. f[0] = value /\ \A k \in 1 .. WordBits : f[k] = f[k - 1] \div 2
  <2>1. 0 \in 0 .. WordBits /\ \A k \in 1 .. WordBits : k \in 0 .. WordBits /\ k # 0
    BY <1>2
  <2> QED
    BY <1>6, <2>1, Zenon
<1>9. \A k \in 0 .. WordBits : f[k] \in Nat
  <2> DEFINE T == {k \in Nat : k <= WordBits => f[k] \in Nat}
  <2>1. 0 \in T
    BY <1>8
  <2>2. ASSUME NEW k \in Nat, k \in T PROVE k + 1 \in T
    <3>1. k + 1 <= WordBits => k + 1 \in 1 .. WordBits /\ (k + 1) - 1 = k /\ k <= WordBits
      BY <1>2
    <3> QED
      BY <1>8, <2>2, <3>1
  <2> HIDE DEF T
  <2>3. \A k \in Nat : k \in T
    BY <2>1, <2>2, Upwards
  <2> QED
    BY <1>2, <2>3 DEF T
<1>10. Shifts(f, value)
  <2>1. f = [k \in 0 .. WordBits |-> f[k]]
    BY <1>6, Zenon
  <2>2. f \in [0 .. WordBits -> Nat]
    BY <1>9, <2>1
  <2> QED
    BY <1>8, <2>2 DEF Shifts
<1>11. \A i \in 0 .. WordBytes - 1, b \in Places : WordBits - 1 - (i * CharBit + b) \in 0 .. WordBits
  <2> SUFFICES ASSUME NEW i \in 0 .. WordBytes - 1, NEW b \in Places
               PROVE  WordBits - 1 - (i * CharBit + b) \in 0 .. WordBits
    OBVIOUS
  <2>1. i * CharBit + CharBit <= WordBytes * CharBit /\ 0 <= i * CharBit
    BY BytesAreApart, BitsAssumption
  <2>2. b \in Nat /\ b < CharBit /\ CharBit \in Nat /\ i \in Nat /\ i * CharBit \in Int
    BY BitsAssumption DEF Places
  <2> QED
    BY <2>1, <2>2, WordBitsIsNumber
<1>12. WholeBytes(value) \in Bytes(WordBytes)
  <2>1. \A i \in 0 .. WordBytes - 1, b \in Places :
          f[WordBits - 1 - (i * CharBit + b)] % 2 \in {0, 1}
    <3>1. \A x \in Nat : x % 2 \in {0, 1}
      OBVIOUS
    <3> QED
      BY <1>9, <1>11, <3>1
  <2>2. \A i \in 0 .. WordBytes - 1 :
          [b \in Places |-> f[WordBits - 1 - (i * CharBit + b)] % 2] \in Byte
    BY <2>1 DEF Byte
  <2> QED
    BY <1>7, <2>2 DEF Bytes
<1>13. ASSUME NEW p \in 0 .. WordBits - 1
       PROVE  Bit(WholeBytes(value), p) = f[WordBits - 1 - p] % 2
  <2> DEFINE i == p \div CharBit
             b == p % CharBit
  <2>1. i \in Int /\ b \in Places /\ p = i * CharBit + b
    BY PlaceOfBit, <1>2
  <2> HIDE DEF i, b
  <2>2. /\ i \in 0 .. WordBytes - 1
        /\ Bit(WholeBytes(value), p) = WholeBytes(value)[i][b]
    <3>1. i * CharBit + b \in 0 .. WordBytes * CharBit - 1 /\ WordBytes \in Nat
      BY <2>1, WordBitsIsNumber, BitsAssumption
    <3> QED
      BY <1>12, <2>1, <3>1, BitOfByte
  <2> QED
    BY <1>7, <2>1, <2>2
<1> QED
  BY <1>10, <1>12, <1>13

\* A number below 2^m has no bits but its last m.
LEMMA ShiftedOut ==
  ASSUME NEW value \in Nat, NEW f, Shifts(f, value), NEW m \in 0 .. WordBits,
         value < PowerOf2[m]
  PROVE  \A k \in m .. WordBits : f[k] = 0
<1>1. WordBits \in Nat /\ m \in Nat /\ m <= WordBits
  BY WordBitsIsNumber
<1>2. f[0] = value /\ \A k \in 0 .. WordBits : f[k] \in Nat
  BY DEF Shifts
<1>3. \A k \in Nat : k + 1 <= WordBits => f[k + 1] = f[k] \div 2 /\ f[k] \in Nat
  <2> SUFFICES ASSUME NEW k \in Nat, k + 1 <= WordBits PROVE f[k + 1] = f[k] \div 2 /\ f[k] \in Nat
    OBVIOUS
  <2>1. k + 1 \in 1 .. WordBits /\ (k + 1) - 1 = k /\ k \in 0 .. WordBits
    BY <1>1
  <2> QED
    BY <1>2, <2>1 DEF Shifts
<1> DEFINE S == {k \in Nat : k <= m => f[k] < PowerOf2[m - k]}
           T == {k \in Nat : m <= k /\ k <= WordBits => f[k] = 0}
<1>4. \A k \in Nat : k \in S
  <2>1. 0 \in S
    BY <1>1, <1>2
  <2>2. ASSUME NEW k \in Nat, k \in S PROVE k + 1 \in S
    <3> SUFFICES ASSUME k + 1 <= m PROVE f[k + 1] < PowerOf2[m - (k + 1)]
      OBVIOUS
    <3>1. m - (k + 1) \in Nat /\ (m - (k + 1)) + 1 = m - k /\ k <= m /\ k + 1 <= WordBits
      BY <1>1
    <3>2. PowerOf2[m - k] = 2 * PowerOf2[m - (k + 1)] /\ PowerOf2[m - (k + 1)] \in Nat
      BY <3>1, PowerSteps
    <3>3. f[k] < PowerOf2[m - k]
      BY <2>2, <3>1
    <3> QED
      BY <1>3, <3>1, <3>2, <3>3
  <2> HIDE DEF S
  <2> QED
    BY <2>1, <2>2, Upwards
<1>5. f[m] = 0
  <2>1. f[m] < PowerOf2[m - m] /\ m - m = 0
    BY <1>1, <1>4
  <2>2. f[m] \in Nat /\ PowerOf2[0] = 1
    BY <1>1, <1>2, PowerSteps
  <2> QED
    BY <2>1, <2>2
<1>6. \A k \in Nat : k \in T
  <2>1. 0 \in T
    BY <1>1, <1>5
  <2>2. ASSUME NEW k \in Nat, k \in T PROVE k + 1 \in T
    <3> SUFFICES ASSUME m <= k + 1, k + 1 <= WordBits PROVE f[k + 1] = 0
      OBVIOUS
    <3>1. m = k + 1 \/ m <= k
      BY <1>1
    <3>2. CASE m <= k
      <4>1. f[k] = 0 /\ f[k + 1] = f[k] \div 2
        BY <1>1, <1>3, <2>2, <3>2
      <4> QED
        BY <4>1
    <3> QED
      BY <1>5, <3>1, <3>2
  <2> HIDE DEF T
  <2> QED
    BY <2>1, <2>2, Upwards
<1> QED
  BY <1>1, <1>6

\* What Whole computes.
LEMMA WholeCounts ==
  ASSUME NEW bytes \in Bytes(WordBytes)
  PROVE  \E g \in [0 .. WordBits -> Nat] :
           /\ g[0] = 0 /\ \A k \in 1 .. WordBits : g[k] = 2 * g[k - 1] + Bit(bytes, k - 1)
           /\ Whole(bytes) = g[WordBits]
<1> DEFINE bit(k) == IF k \in 0 .. WordBits - 1 THEN Bit(bytes, k) ELSE 0
           next == [k \in Nat |-> [x \in Nat |-> 2 * x + bit(k)]]
           Defines(f) == f = [k \in 0 .. WordBits |->
                               IF k = 0 THEN 0 ELSE 2 * f[k - 1] + Bit(bytes, k - 1)]
<1>1. WordBits \in Nat
  BY WordBitsIsNumber
<1>2. \A k \in 0 .. WordBits - 1 : Bit(bytes, k) \in Nat
  <2> SUFFICES ASSUME NEW k \in 0 .. WordBits - 1 PROVE Bit(bytes, k) \in Nat
    OBVIOUS
  <2> DEFINE i == k \div CharBit
             b == k % CharBit
  <2>1. i \in Int /\ b \in Places /\ k = i * CharBit + b
    BY PlaceOfBit, <1>1
  <2> HIDE DEF i, b
  <2>2. i \in 0 .. WordBytes - 1 /\ Bit(bytes, k) = bytes[i][b]
    <3>1. i * CharBit + b \in 0 .. WordBytes * CharBit - 1 /\ WordBytes \in Nat
      BY <2>1, WordBitsIsNumber, BitsAssumption
    <3> QED
      BY <2>1, <3>1, BitOfByte
  <2> QED
    BY <2>1, <2>2 DEF Bytes, Byte
<1>3. \A k \in Nat : bit(k) \in Nat
  BY <1>2
<1>4. next \in [Nat -> [Nat -> Nat]] /\ \A k, x \in Nat : next[k][x] = 2 * x + bit(k)
  <2> HIDE DEF bit
  <2> QED
    BY <1>3
<1> HIDE DEF next
<1>5. PICK h : UnfoldsUpTo(h, Nat, 0, next, WordBits)
  <2>1. next \in [Nat -> [Nat -> Nat]] /\ WordBits \in Nat /\ 0 \in Nat
    BY <1>1, <1>4
  <2>2. \A base, len \in Nat : \E h : UnfoldsUpTo(h, Nat, base, next, len)
    BY <2>1, RecursionUpTo
  <2> QED
    BY <2>1, <2>2, Zenon
<1>6. ASSUME NEW k \in 1 .. WordBits PROVE h[k] = 2 * h[k - 1] + Bit(bytes, k - 1)
  <2>1. k - 1 \in Nat /\ k - 1 \in 0 .. WordBits /\ k - 1 \in 0 .. WordBits - 1
    BY <1>1
  <2> QED
    BY <1>4, <1>5, <2>1 DEF UnfoldsUpTo
<1>7. Defines(h)
  <2>1. \A k \in 0 .. WordBits : h[k] = IF k = 0 THEN 0 ELSE 2 * h[k - 1] + Bit(bytes, k - 1)
    <3>1. \A k \in 0 .. WordBits : k = 0 \/ k \in 1 .. WordBits
      BY <1>1
    <3> QED
      BY <1>5, <1>6, <3>1 DEF UnfoldsUpTo
  <2>2. h = [k \in 0 .. WordBits |-> h[k]]
    BY <1>5 DEF UnfoldsUpTo
  <2> QED
    BY <2>1, <2>2, Zenon
<1> DEFINE f == CHOOSE s : Defines(s)
<1>8. Defines(f)
  <2> HIDE DEF Defines
  <2> QED
    BY <1>7
<1>9. Whole(bytes) = f[WordBits]
  BY DEF Whole
<1> HIDE DEF f
<1>10. f[0] = 0 /\ \A k \in 1 .. WordBits : f[k] = 2 * f[k - 1] + Bit(bytes, k - 1)
  <2>1. 0 \in 0 .. WordBits /\ \A k \in 1 .. WordBits : k \in 0 .. WordBits /\ k # 0
    BY <1>1
  <2> QED
    BY <1>8, <2>1, Zenon
<1>11. \A k \in 0 .. WordBits : f[k] \in Nat
  <2> DEFINE T == {k \in Nat : k <= WordBits => f[k] \in Nat}
  <2>1. 0 \in T
    BY <1>10
  <2>2. ASSUME NEW k \in Nat, k \in T PROVE k + 1 \in T
    <3>1. k + 1 <= WordBits => k + 1 \in 1 .. WordBits /\ (k + 1) - 1 = k /\ k <= WordBits
                               /\ k \in 0 .. WordBits - 1
      BY <1>1
    <3> QED
      BY <1>2, <1>10, <2>2, <3>1
  <2> HIDE DEF T
  <2>3. \A k \in Nat : k \in T
    BY <2>1, <2>2, Upwards
  <2> QED
    BY <1>1, <2>3 DEF T
<1>12. f \in [0 .. WordBits -> Nat]
  <2>1. f = [k \in 0 .. WordBits |-> f[k]]
    BY <1>8, Zenon
  <2> QED
    BY <1>11, <2>1
<1> QED
  BY <1>9, <1>10, <1>12

\* A number that fits into a word is what its bytes are read as.
LEMMA WholeOfBytes ==
  ASSUME NEW value \in Nat, value < PowerOf2[WordBits]
  PROVE  Whole(WholeBytes(value)) = value
<1>1. WordBits \in Nat
  BY WordBitsIsNumber
<1>2. PICK f : /\ Shifts(f, value)
               /\ WholeBytes(value) \in Bytes(WordBytes)
               /\ \A p \in 0 .. WordBits - 1 :
                    Bit(WholeBytes(value), p) = f[WordBits - 1 - p] % 2
  BY BitsOfNumber
<1>3. PICK g \in [0 .. WordBits -> Nat] :
        /\ g[0] = 0
        /\ \A k \in 1 .. WordBits : g[k] = 2 * g[k - 1] + Bit(WholeBytes(value), k - 1)
        /\ Whole(WholeBytes(value)) = g[WordBits]
  BY <1>2, WholeCounts
<1> DEFINE T == {k \in Nat : k <= WordBits => g[k] = f[WordBits - k]}
<1>4. 0 \in T
  BY <1>1, <1>2, <1>3, ShiftedOut
<1>5. ASSUME NEW k \in Nat, k \in T PROVE k + 1 \in T
  <2> SUFFICES ASSUME k + 1 <= WordBits PROVE g[k + 1] = f[WordBits - (k + 1)]
    OBVIOUS
  <2> DEFINE r == WordBits - (k + 1)
  <2>1. /\ k \in 0 .. WordBits - 1 /\ k + 1 \in 1 .. WordBits /\ (k + 1) - 1 = k
        /\ r \in 0 .. WordBits /\ r + 1 \in 1 .. WordBits /\ (r + 1) - 1 = r
        /\ WordBits - k = r + 1 /\ WordBits - 1 - k = r /\ k <= WordBits
    BY <1>1
  <2> HIDE DEF r
  <2>2. g[k + 1] = 2 * g[k] + Bit(WholeBytes(value), k)
    BY <1>3, <2>1
  <2>3. Bit(WholeBytes(value), k) = f[r] % 2
    BY <1>2, <2>1
  <2>4. g[k] = f[r + 1]
    BY <1>5, <2>1
  <2>5. f[r + 1] = f[r] \div 2 /\ f[r] \in Nat
    BY <1>2, <2>1 DEF Shifts
  <2>6. f[r] = 2 * (f[r] \div 2) + (f[r] % 2)
    BY <2>5
  <2> QED
    BY <2>2, <2>3, <2>4, <2>5, <2>6 DEF r
<1> HIDE DEF T
<1>6. WordBits \in T
  BY <1>1, <1>4, <1>5, Upwards
<1>7. g[WordBits] = f[0]
  BY <1>1, <1>6 DEF T
<1> QED
  BY <1>2, <1>3, <1>7 DEF Shifts

-----------------------------------------------------------------------------
(* Reading and writing fields.                                             *)

\* Arrays with the same bits are the same.
LEMMA SameBits ==
  ASSUME NEW length \in Nat, NEW x \in Bytes(length), NEW y \in Bytes(length),
         \A p \in 0 .. length * CharBit - 1 : Bit(x, p) = Bit(y, p)
  PROVE  x = y
<1>1. ASSUME NEW i \in 0 .. length - 1, NEW b \in Places PROVE x[i][b] = y[i][b]
  <2>1. i * CharBit + CharBit <= length * CharBit /\ 0 <= i * CharBit /\ i * CharBit \in Int
    BY BytesAreApart, BitsAssumption
  <2>2. b \in Nat /\ b < CharBit /\ CharBit \in Nat /\ length * CharBit \in Int
    BY BitsAssumption DEF Places
  <2>3. i * CharBit + b \in 0 .. length * CharBit - 1
    BY <2>1, <2>2
  <2>4. Bit(x, i * CharBit + b) = x[i][b] /\ Bit(y, i * CharBit + b) = y[i][b]
    BY <2>3, BitOfByte
  <2> QED
    BY <2>3, <2>4
<1>2. ASSUME NEW i \in 0 .. length - 1 PROVE x[i] = y[i]
  <2>1. x[i] \in [Places -> {0, 1}] /\ y[i] \in [Places -> {0, 1}]
    BY DEF Bytes, Byte
  <2> QED
    BY <1>1, <2>1
<1> QED
  BY <1>2 DEF Bytes

\* The word get_bitfield copies into has no bits set.
LEMMA ZerosAreBytes ==
  /\ Zeros(WordBytes) \in Bytes(WordBytes)
  /\ \A p \in 0 .. WordBits - 1 : Bit(Zeros(WordBytes), p) = 0
<1>1. Zeros(WordBytes) \in Bytes(WordBytes)
  BY DEF Zeros, Bytes, Byte
<1>2. ASSUME NEW p \in 0 .. WordBits - 1 PROVE Bit(Zeros(WordBytes), p) = 0
  <2> DEFINE i == p \div CharBit
             b == p % CharBit
  <2>1. i \in Int /\ b \in Places /\ p = i * CharBit + b
    BY PlaceOfBit, WordBitsIsNumber
  <2> HIDE DEF i, b
  <2>2. i * CharBit + b \in 0 .. WordBytes * CharBit - 1 /\ WordBytes \in Nat
    BY <2>1, WordBitsIsNumber, BitsAssumption
  <2>3. i \in 0 .. WordBytes - 1 /\ Bit(Zeros(WordBytes), p) = Zeros(WordBytes)[i][b]
    BY <1>1, <2>1, <2>2, BitOfByte
  <2> QED
    BY <2>1, <2>3 DEF Zeros
<1> QED
  BY <1>1, <1>2

\* get_bitfield copies to the end of a word.
LEMMA EndOfWord ==
  ASSUME NEW n \in 1 .. WordBits
  PROVE  (WordBytes - bits_to_bytes(n)) * CharBit + CharBit - find_end_bit(n) = WordBits - n
<1> DEFINE q == n \div CharBit
           r == n % CharBit
<1>1. q \in Int /\ r \in Places /\ n = q * CharBit + r
  BY PlaceOfBit, WordBitsIsNumber
<1>2. /\ bits_to_bytes(n) = q + (IF r = 0 THEN 0 ELSE 1)
      /\ find_end_bit(n) = IF r = 0 THEN CharBit ELSE r
  BY DEF bits_to_bytes, find_end_bit
<1>3. /\ CharBit \in Nat /\ WordBytes \in Nat /\ r \in Nat /\ WordBits = WordBytes * CharBit
  BY <1>1, WordBitsIsNumber, BitsAssumption DEF Places
<1> HIDE DEF q, r
<1>4. CASE r = 0
  BY <1>1, <1>2, <1>3, <1>4
<1>5. CASE r # 0
  BY <1>1, <1>2, <1>3, <1>5
<1> QED
  BY <1>4, <1>5

\* The word that get_bitfield makes a number of.
IsFieldOf(word, source, offset, n) ==
  /\ word \in Bytes(WordBytes)
  /\ \A p \in 0 .. WordBits - 1 :
       Bit(word, p) = IF p >= WordBits - n THEN Bit(source, offset + p - (WordBits - n)) ELSE 0

\* get_bitfield makes a number of the bits of the field, and of no others.
LEMMA GetReads ==
  ASSUME NEW length \in Nat, NEW source \in Bytes(length), NEW offset \in Nat, NEW n \in 1 .. WordBits,
         offset + n <= length * CharBit
  PROVE  \E word : IsFieldOf(word, source, offset, n) /\ get_bitfield(source, offset, n) = Whole(word)
<1> DEFINE zeros == Zeros(WordBytes)
           doff == (WordBytes - bits_to_bytes(n)) * CharBit + CharBit - find_end_bit(n)
           word == copy_bits(source, offset, n, zeros, doff)
<1>1. doff = WordBits - n
  BY EndOfWord
<1>2. WordBits \in Nat /\ WordBytes \in Nat /\ WordBits = WordBytes * CharBit /\ n \in Nat /\ n >= 1
  BY WordBitsIsNumber, BitsAssumption
<1>3. zeros \in Bytes(WordBytes) /\ Size(zeros) = WordBytes /\ Size(source) = length
  BY <1>2, ZerosAreBytes, SizeOfBytes
<1>4. \A p \in 0 .. WordBits - 1 : Bit(zeros, p) = 0
  BY ZerosAreBytes
<1> HIDE DEF zeros, doff
<1>5. CopyFits(source, offset, n, zeros, doff)
  BY <1>1, <1>2, <1>3 DEF CopyFits
<1>6. doff \in Nat
  BY <1>1, <1>2
<1>7. word \in Bytes(WordBytes) /\ IsBitwiseCopy(source, offset, n, zeros, doff, word)
  BY <1>2, <1>3, <1>5, <1>6, CopyIsRight
<1>8. get_bitfield(source, offset, n) = Whole(word)
  BY <1>5 DEF get_bitfield, zeros, doff
<1> HIDE DEF word
<1>9. IsFieldOf(word, source, offset, n)
  <2> SUFFICES ASSUME NEW p \in 0 .. WordBits - 1
               PROVE  Bit(word, p) = IF p >= WordBits - n THEN Bit(source, offset + p - (WordBits - n))
                                                          ELSE 0
    BY <1>7 DEF IsFieldOf
  <2>1. Bit(word, p) = IF p \in doff .. doff + n - 1 THEN Bit(source, offset + p - doff) ELSE Bit(zeros, p)
    BY <1>2, <1>3, <1>7 DEF IsBitwiseCopy
  <2>2. p \in doff .. doff + n - 1 <=> p >= WordBits - n
    BY <1>1, <1>2
  <2> QED
    BY <1>1, <1>4, <2>1, <2>2
<1> QED
  BY <1>8, <1>9

\* What is read depends on the bits of the field only.
LEMMA GetOfSameBits ==
  ASSUME NEW l1 \in Nat, NEW x \in Bytes(l1), NEW l2 \in Nat, NEW y \in Bytes(l2),
         NEW offset \in Nat, NEW n \in 1 .. WordBits,
         offset + n <= l1 * CharBit, offset + n <= l2 * CharBit,
         \A p \in offset .. offset + n - 1 : Bit(x, p) = Bit(y, p)
  PROVE  get_bitfield(x, offset, n) = get_bitfield(y, offset, n)
<1>1. PICK u : IsFieldOf(u, x, offset, n) /\ get_bitfield(x, offset, n) = Whole(u)
  BY GetReads
<1>2. PICK v : IsFieldOf(v, y, offset, n) /\ get_bitfield(y, offset, n) = Whole(v)
  BY GetReads
<1>3. WordBits \in Nat /\ WordBytes \in Nat /\ WordBits = WordBytes * CharBit
  BY WordBitsIsNumber, BitsAssumption
<1>4. ASSUME NEW p \in 0 .. WordBits - 1 PROVE Bit(u, p) = Bit(v, p)
  <2>1. p >= WordBits - n => offset + p - (WordBits - n) \in offset .. offset + n - 1
    BY <1>3
  <2> QED
    BY <1>1, <1>2, <2>1 DEF IsFieldOf
<1>5. u = v
  <2>1. u \in Bytes(WordBytes) /\ v \in Bytes(WordBytes)
    BY <1>1, <1>2 DEF IsFieldOf
  <2> QED
    BY <1>3, <1>4, <2>1, SameBits
<1> QED
  BY <1>1, <1>2, <1>5

\* What set_bitfield writes.
LEMMA SetWrites ==
  ASSUME NEW length \in Nat, NEW dest \in Bytes(length), NEW offset \in Nat, NEW n \in Nat, NEW value \in Nat
  PROVE  /\ set_bitfield(value, offset, n, dest) \in Bytes(length)
         /\ value > bitmask(n) => set_bitfield(value, offset, n, dest) = dest
         /\ value <= bitmask(n) /\ n \in 1 .. WordBits /\ offset + n <= length * CharBit =>
              IsBitwiseCopy(WholeBytes(value), WordBits - n, n, dest, offset,
                            set_bitfield(value, offset, n, dest))
<1> DEFINE word == WholeBytes(value)
           soff == WordBits - n
           copy == copy_bits(word, soff, n, dest, offset)
<1>1. word \in Bytes(WordBytes) /\ WordBytes \in Nat /\ Size(word) = WordBytes /\ Size(dest) = length
  BY BitsOfNumber, SizeOfBytes, BitsAssumption
<1>2. WordBits \in Nat /\ WordBits = WordBytes * CharBit
  BY WordBitsIsNumber
<1>3. ASSUME CopyFits(word, soff, n, dest, offset)
      PROVE  copy \in Bytes(length) /\ IsBitwiseCopy(word, soff, n, dest, offset, copy)
  <2>1. soff \in Nat
    BY <1>2, <1>3 DEF CopyFits
  <2> HIDE DEF word, soff
  <2> QED
    BY <1>1, <1>3, <2>1, CopyIsRight
<1>4. /\ value <= bitmask(n) /\ CopyFits(word, soff, n, dest, offset) =>
           set_bitfield(value, offset, n, dest) = copy
      /\ ~(value <= bitmask(n) /\ CopyFits(word, soff, n, dest, offset)) =>
           set_bitfield(value, offset, n, dest) = dest
  BY DEF set_bitfield
<1>5. n \in 1 .. WordBits /\ offset + n <= length * CharBit => CopyFits(word, soff, n, dest, offset)
  BY <1>1, <1>2 DEF CopyFits
<1> HIDE DEF word, soff, copy
<1>6. bitmask(n) \in Int
  <2>1. WordBits \in Nat /\ \A k \in Nat : PowerOf2[k] \in Nat
    BY WordBitsIsNumber, PowerSteps
  <2> QED
    BY <2>1 DEF bitmask
<1>7. value > bitmask(n) => ~(value <= bitmask(n))
  BY <1>6
<1> QED
  BY <1>3, <1>4, <1>5, <1>7 DEF word, soff

\* A field reads back as the number that was written.
LEMMA SetThenGet ==
  ASSUME NEW length \in Nat, NEW dest \in Bytes(length), NEW value \in Nat,
         NEW offset \in Nat, NEW n \in 1 .. WordBits, offset + n <= length * CharBit,
         value <= bitmask(n)
  PROVE  get_bitfield(set_bitfield(value, offset, n, dest), offset, n) = value
<1> DEFINE after == set_bitfield(value, offset, n, dest)
           source == WholeBytes(value)
<1>1. /\ WordBits \in Nat /\ WordBytes \in Nat /\ WordBits = WordBytes * CharBit
      /\ n \in Nat /\ n <= WordBits /\ n >= 1
  BY WordBitsIsNumber, BitsAssumption
<1>2. after \in Bytes(length) /\ IsBitwiseCopy(source, WordBits - n, n, dest, offset, after)
  BY <1>1, SetWrites
<1>3. Size(dest) = length
  BY SizeOfBytes
<1>4. PICK f : /\ Shifts(f, value) /\ source \in Bytes(WordBytes)
               /\ \A p \in 0 .. WordBits - 1 : Bit(source, p) = f[WordBits - 1 - p] % 2
  BY BitsOfNumber
<1>5. value < PowerOf2[n] /\ value < PowerOf2[WordBits]
  <2>1. PowerOf2[n] \in Nat /\ PowerOf2[WordBits] \in Nat /\ PowerOf2[n] <= PowerOf2[WordBits]
    BY <1>1, PowerSteps, PowersGrow
  <2>2. bitmask(n) = PowerOf2[n] - 1
    BY <1>1 DEF bitmask
  <2> QED
    BY <2>1, <2>2
<1>6. PICK word : IsFieldOf(word, after, offset, n) /\ get_bitfield(after, offset, n) = Whole(word)
  BY <1>2, GetReads
<1> HIDE DEF after, source
<1>7. ASSUME NEW p \in 0 .. WordBits - 1 PROVE Bit(word, p) = Bit(source, p)
  <2>1. CASE p >= WordBits - n
    <3> DEFINE i == offset + p - (WordBits - n)
    <3>1. /\ i \in 0 .. length * CharBit - 1 /\ i \in offset .. offset + n - 1
          /\ (WordBits - n) + i - offset = p
      <4>1. length * CharBit \in Int
        BY BitsAssumption
      <4> QED
        BY <1>1, <2>1, <4>1
    <3>2. Bit(word, p) = Bit(after, i)
      BY <1>6, <2>1 DEF IsFieldOf
    <3> HIDE DEF i
    <3>3. Bit(after, i) = Bit(source, (WordBits - n) + i - offset)
      BY <1>2, <1>3, <3>1 DEF IsBitwiseCopy
    <3> QED
      BY <3>1, <3>2, <3>3
  <2>2. CASE ~(p >= WordBits - n)
    <3>1. WordBits - 1 - p \in n .. WordBits
      BY <1>1, <2>2
    <3>2. f[WordBits - 1 - p] = 0
      BY <1>1, <1>4, <1>5, <3>1, ShiftedOut
    <3> QED
      BY <1>4, <1>6, <2>2, <3>2 DEF IsFieldOf
  <2> QED
    BY <2>1, <2>2
<1>8. word = source
  BY <1>1, <1>4, <1>6, <1>7, SameBits DEF IsFieldOf
<1> QED
  BY <1>5, <1>6, <1>8, WholeOfBytes DEF after, source

\* A field that shares no bits with the one written reads as before.
LEMMA SetLeavesOthers ==
  ASSUME NEW length \in Nat, NEW dest \in Bytes(length), NEW value \in Nat,
         NEW offset \in Nat, NEW n \in 1 .. WordBits, offset + n <= length * CharBit,
         NEW o \in Nat, NEW m \in 1 .. WordBits, o + m <= length * CharBit,
         offset + n <= o \/ o + m <= offset
  PROVE  get_bitfield(set_bitfield(value, offset, n, dest), o, m) = get_bitfield(dest, o, m)
<1> DEFINE after == set_bitfield(value, offset, n, dest)
<1>1. /\ WordBits \in Nat /\ n \in Nat /\ m \in Nat
  BY WordBitsIsNumber
<1>2. /\ after \in Bytes(length)
      /\ value > bitmask(n) => after = dest
      /\ value <= bitmask(n) => IsBitwiseCopy(WholeBytes(value), WordBits - n, n, dest, offset, after)
  BY <1>1, SetWrites
<1>3. Size(dest) = length /\ length * CharBit \in Int
  BY SizeOfBytes, BitsAssumption
<1>4. value > bitmask(n) \/ value <= bitmask(n)
  <2>1. WordBits \in Nat /\ \A k \in Nat : PowerOf2[k] \in Nat
    BY WordBitsIsNumber, PowerSteps
  <2>2. bitmask(n) \in Int
    BY <1>1, <2>1 DEF bitmask
  <2> QED
    BY <2>2
<1> HIDE DEF after
<1>5. ASSUME NEW p \in o .. o + m - 1 PROVE Bit(after, p) = Bit(dest, p)
  <2>1. p \in 0 .. length * CharBit - 1
    BY <1>1, <1>3
  <2>3. p \notin offset .. offset + n - 1
    BY <1>1
  <2>2. CASE value <= bitmask(n)
    BY <1>2, <1>3, <2>1, <2>2, <2>3 DEF IsBitwiseCopy
  <2> QED
    BY <1>2, <1>4, <2>2
<1>6. get_bitfield(after, o, m) = get_bitfield(dest, o, m)
  BY <1>2, <1>5, GetOfSameBits
<1> QED
  BY <1>6 DEF after

-----------------------------------------------------------------------------
(* Conversions between the types.                                          *)

\* A remainder is the only number of its range that differs by a multiple.
LEMMA RemainderIs ==
  ASSUME NEW r \in Nat \ {0}, NEW k \in Int, NEW t \in 0 .. r - 1
  PROVE  (k * r + t) % r = t
  OBVIOUS

\* Each number is its remainder and a multiple.
LEMMA Remains ==
  ASSUME NEW r \in Nat \ {0}, NEW x \in Int
  PROVE  \E k \in Int : x % r \in 0 .. r - 1 /\ x = k * r + (x % r)
<1>1. x \div r \in Int /\ x % r \in 0 .. r - 1 /\ x = (x \div r) * r + (x % r)
  OBVIOUS
<1> QED
  BY <1>1

\* The remainder by a multiple of r has the same remainder by r.
LEMMA RemainderOfMultiple ==
  ASSUME NEW r \in Nat \ {0}, NEW q \in Nat \ {0}, NEW x \in Int
  PROVE  (x % (q * r)) % r = x % r
<1>1. q * r \in Nat \ {0}
  OBVIOUS
<1>2. PICK a \in Int : x % (q * r) \in 0 .. (q * r) - 1 /\ x = a * (q * r) + (x % (q * r))
  BY <1>1, Remains
<1> DEFINE s == x % (q * r)
<1>3. s \in Int /\ x = a * (q * r) + s
  BY <1>1, <1>2
<1> HIDE DEF s
<1>4. PICK b \in Int : s % r \in 0 .. r - 1 /\ s = b * r + (s % r)
  BY <1>3, Remains
<1> DEFINE t == s % r
<1>5. t \in 0 .. r - 1 /\ s = b * r + t
  BY <1>4
<1> HIDE DEF t
<1>6. x = (a * q + b) * r + t
  BY <1>3, <1>5
<1>7. x % r = t
  <2>1. a * q + b \in Int
    OBVIOUS
  <2> DEFINE k == a * q + b
  <2>2. k \in Int /\ x = k * r + t
    BY <1>6, <2>1
  <2> HIDE DEF k
  <2> QED
    BY <1>5, <2>2, RemainderIs
<1> QED
  BY <1>7 DEF t, s

\* A number that is cast to a type, then widened to a word, is the same in that type.
LEMMA CastOfWord ==
  ASSUME NEW x \in Int, NEW type \in WrittenTypes
  PROVE  /\ Cast(x, type) \in Int
         /\ Wrapped(Cast(x, type), WordBytes, FALSE) \in Nat
         /\ Cast(Wrapped(Cast(x, type), WordBytes, FALSE), type) = Cast(x, type)
<1> DEFINE R == PowerOf2[CharBit * Width[type]]
           W == PowerOf2[CharBit * WordBytes]
           c == Cast(x, type)
           low(y) == IF type \in SignedTypes /\ y % R >= R \div 2 THEN (y % R) - R ELSE y % R
<1>1. Width[type] \in 1 .. WordBytes
  BY BitsAssumption, MappingAssumption DEF Width, WrittenTypes
<1>2. \A y \in Int : Cast(y, type) = low(y)
  <2>1. type # "FLOAT"
    BY DEF WrittenTypes
  <2> QED
    BY <2>1 DEF Cast, Wrapped
<1>3. Wrapped(c, WordBytes, FALSE) = c % W
  BY DEF Wrapped
<1>4. R \in Nat \ {0} /\ W \in Nat \ {0} /\ \E q \in Nat \ {0} : W = q * R
  <2> DEFINE j == CharBit * Width[type]
             k == CharBit * WordBytes
  <2>1. j \in Nat /\ k \in Nat /\ j <= k
    BY <1>1, BitsAssumption
  <2> HIDE DEF j, k
  <2>2. k - j \in Nat /\ PowerOf2[k] = PowerOf2[k - j] * PowerOf2[j]
    BY <2>1, PowersGrow
  <2>3. PowerOf2[j] \in Nat \ {0} /\ PowerOf2[k] \in Nat \ {0} /\ PowerOf2[k - j] \in Nat \ {0}
    BY <2>1, <2>2, PowerSteps
  <2> QED
    BY <2>2, <2>3 DEF j, k
<1>5. PICK q \in Nat \ {0} : W = q * R
  BY <1>4
<1> HIDE DEF R, W
<1>6. x % R \in 0 .. R - 1
  BY <1>4, Remains
<1>7. c \in Int /\ c % R = x % R
  <2>1. c = low(x)
    BY <1>2
  <2>2. c = x % R \/ c = (x % R) - R
    BY <2>1
  <2>3. CASE c = x % R
    <3>1. (0 * R + (x % R)) % R = x % R /\ 0 * R + (x % R) = x % R
      BY <1>4, <1>6, RemainderIs
    <3> QED
      BY <1>6, <2>3, <3>1
  <2>4. CASE c = (x % R) - R
    <3>1. ((-1) * R + (x % R)) % R = x % R
      BY <1>4, <1>6, RemainderIs
    <3>2. (-1) * R + (x % R) = (x % R) - R
      BY <1>4, <1>6
    <3> QED
      BY <1>4, <1>6, <2>4, <3>1, <3>2
  <2> QED
    BY <2>2, <2>3, <2>4
<1> HIDE DEF c
<1>8. c % W \in Nat
  BY <1>4, <1>7, Remains
<1>9. (c % W) % R = x % R
  BY <1>4, <1>5, <1>7, RemainderOfMultiple
<1>10. Cast(c % W, type) = low(x) /\ low(x) = c
  <2>1. Cast(c % W, type) = low(c % W)
    BY <1>2, <1>8
  <2>2. low(c % W) = low(x)
    BY <1>9
  <2>3. c = low(x)
    BY <1>2 DEF c
  <2> QED
    BY <2>1, <2>2, <2>3
<1> QED
  BY <1>3, <1>7, <1>8, <1>10 DEF c

-----------------------------------------------------------------------------
(* Reading and writing a frame by its fields.                              *)

\* What a value is compared with to see whether it fits.
LEMMA BitmaskIsNumber ==
  ASSUME NEW n \in Nat
  PROVE  bitmask(n) \in Int
<1>1. WordBits \in Nat /\ \A k \in Nat : PowerOf2[k] \in Nat
  BY WordBitsIsNumber, PowerSteps
<1> QED
  BY <1>1 DEF bitmask

\* get_bitfield returns a number, also where it refuses to copy.
LEMMA GetIsNumber ==
  ASSUME NEW length \in Nat, NEW source \in Bytes(length), NEW offset \in Nat, NEW n \in Nat
  PROVE  get_bitfield(source, offset, n) \in Nat
<1> DEFINE fits == n \in 1 .. WordBits /\ offset + n <= length * CharBit
<1>1. Size(source) = length
  BY SizeOfBytes
<1>2. CASE fits
  <2>1. PICK word : IsFieldOf(word, source, offset, n) /\ get_bitfield(source, offset, n) = Whole(word)
    BY <1>2, GetReads
  <2>2. PICK g \in [0 .. WordBits -> Nat] : Whole(word) = g[WordBits]
    BY <2>1, WholeCounts DEF IsFieldOf
  <2>3. WordBits \in 0 .. WordBits
    BY WordBitsIsNumber
  <2> QED
    BY <2>1, <2>2, <2>3
<1>3. CASE ~fits
  BY <1>1, <1>3 DEF get_bitfield, CopyFits
<1> QED
  BY <1>2, <1>3

IsField(field) == field \in [offset : Nat, size : Nat, type : DOMAIN Width]

\* Where a field lies whose bits a frame has.
LEMMA FieldLies ==
  ASSUME NEW length \in Nat, NEW field, IsField(field), field.size \in 1 .. WordBits,
         Extent(field) \subseteq 0 .. length * CharBit - 1
  PROVE  field.offset + field.size <= length * CharBit
<1>1. field.offset \in Nat /\ field.size \in Nat /\ field.size >= 1 /\ length * CharBit \in Int
  BY WordBitsIsNumber, BitsAssumption DEF IsField
<1>2. field.offset + field.size - 1 \in Extent(field)
  BY <1>1 DEF Extent
<1> QED
  BY <1>1, <1>2

\* What a reader of a field gets is a number.
LEMMA ReadingIsNumber ==
  ASSUME NEW length \in Nat, NEW frame \in Bytes(length), NEW field, IsField(field)
  PROVE  HandleBitReading(field, frame) \in Int
<1> DEFINE x == get_bitfield(frame, field.offset, field.size)
           r == PowerOf2[CharBit * Width[field.type]]
<1>1. x \in Nat
  BY GetIsNumber DEF IsField
<1>2. Width[field.type] \in Nat
  BY BitsAssumption, MappingAssumption DEF Width, IsField
<1>3. CharBit * Width[field.type] \in Nat
  BY <1>2, BitsAssumption
<1>4. r \in Nat \ {0}
  BY <1>3, PowerSteps
<1>5. HandleBitReading(field, frame) = Cast(x, field.type)
  BY DEF HandleBitReading
<1> HIDE DEF x
<1>6. /\ field.type = "FLOAT" => Cast(x, field.type) = x
      /\ field.type # "FLOAT" => Cast(x, field.type) \in {x % r, (x % r) - r}
  BY DEF Cast, Wrapped
<1> HIDE DEF r
<1>7. x % r \in Int
  BY <1>1, <1>4
<1> QED
  BY <1>1, <1>4, <1>5, <1>6, <1>7

\* Writing a field leaves as many bytes.
LEMMA WritingIsOfBytes ==
  ASSUME NEW length \in Nat, NEW frame \in Bytes(length), NEW field, IsField(field),
         field.type \in WrittenTypes, NEW input
  PROVE  HandleBitWriting(field, input, frame) \in Bytes(length)
<1>1. CASE StoiAccepts(input)
  <2>1. input \in Int
    BY <1>1 DEF StoiAccepts
  <2>2. Wrapped(Cast(input, field.type), WordBytes, FALSE) \in Nat
    BY <2>1, CastOfWord
  <2>3. set_bitfield(Wrapped(Cast(input, field.type), WordBytes, FALSE),
                     field.offset, field.size, frame) \in Bytes(length)
    BY <2>2, SetWrites DEF IsField
  <2> QED
    BY <1>1, <2>3 DEF HandleBitWriting
<1>2. CASE ~StoiAccepts(input)
  BY <1>2 DEF HandleBitWriting
<1> QED
  BY <1>1, <1>2

\* A field reads back as the number that was written, or has not been written.
LEMMA WrittenIsRead ==
  ASSUME NEW length \in Nat, NEW frame \in Bytes(length), NEW field, IsField(field),
         field.type \in WrittenTypes, field.size \in 1 .. WordBits,
         field.offset + field.size <= length * CharBit, NEW input
  PROVE  /\ FitsInto(input, field) =>
              HandleBitReading(field, HandleBitWriting(field, input, frame)) = Cast(input, field.type)
         /\ ~FitsInto(input, field) => HandleBitWriting(field, input, frame) = frame
<1> DEFINE value == Wrapped(Cast(input, field.type), WordBytes, FALSE)
           after == set_bitfield(value, field.offset, field.size, frame)
<1>1. field.offset \in Nat /\ field.size \in Nat
  BY DEF IsField
<1>2. CASE ~StoiAccepts(input)
  BY <1>2 DEF HandleBitWriting, FitsInto
<1>3. CASE StoiAccepts(input)
  <2>1. input \in Int
    BY <1>3 DEF StoiAccepts
  <2>2. value \in Nat /\ Cast(value, field.type) = Cast(input, field.type)
    BY <2>1, CastOfWord
  <2>3. HandleBitWriting(field, input, frame) = after
    BY <1>3 DEF HandleBitWriting
  <2>4. FitsInto(input, field) <=> value <= bitmask(field.size)
    BY <1>3 DEF FitsInto
  <2> HIDE DEF value
  <2>5. CASE value <= bitmask(field.size)
    <3>1. get_bitfield(after, field.offset, field.size) = value
      BY <1>1, <2>2, <2>5, SetThenGet
    <3>2. HandleBitReading(field, after) = Cast(input, field.type)
      BY <2>2, <3>1 DEF HandleBitReading
    <3> QED
      BY <2>3, <2>4, <2>5, <3>2
  <2>6. CASE ~(value <= bitmask(field.size))
    <3>1. value > bitmask(field.size)
      BY <1>1, <2>2, <2>6, BitmaskIsNumber
    <3>2. after = frame
      <4> DEFINE o == field.offset
                 n == field.size
      <4>1. o \in Nat /\ n \in Nat /\ value > bitmask(n)
        BY <1>1, <3>1
      <4> HIDE DEF o, n
      <4>2. set_bitfield(value, o, n, frame) = frame
        BY <2>2, <4>1, SetWrites
      <4> QED
        BY <4>2 DEF o, n
    <3> QED
      BY <2>3, <2>4, <2>6, <3>2
  <2> QED
    BY <2>5, <2>6
<1> QED
  BY <1>2, <1>3

\* Writing a field leaves what another reads.
LEMMA OthersAreKept ==
  ASSUME NEW length \in Nat, NEW frame \in Bytes(length), NEW field, IsField(field),
         field.type \in WrittenTypes, field.size \in 1 .. WordBits,
         field.offset + field.size <= length * CharBit, NEW input,
         NEW other, IsField(other), other.size \in 1 .. WordBits,
         other.offset + other.size <= length * CharBit, Extent(field) \cap Extent(other) = {}
  PROVE  HandleBitReading(other, HandleBitWriting(field, input, frame)) = HandleBitReading(other, frame)
<1> DEFINE value == Wrapped(Cast(input, field.type), WordBytes, FALSE)
           after == set_bitfield(value, field.offset, field.size, frame)
<1>1. /\ field.offset \in Nat /\ field.size \in Nat
      /\ other.offset \in Nat /\ other.size \in Nat
  BY DEF IsField
<1>2. CASE ~StoiAccepts(input)
  BY <1>2 DEF HandleBitWriting
<1>3. CASE StoiAccepts(input)
  <2>1. input \in Int
    BY <1>3 DEF StoiAccepts
  <2>2. value \in Nat
    BY <2>1, CastOfWord
  <2>3. HandleBitWriting(field, input, frame) = after
    BY <1>3 DEF HandleBitWriting
  <2> HIDE DEF value
  <2>4. field.offset + field.size <= other.offset \/ other.offset + other.size <= field.offset
    <3>1. field.offset \in Extent(field) /\ other.offset \in Extent(other)
      BY <1>1, WordBitsIsNumber DEF Extent
    <3>2. field.offset \notin Extent(other) /\ other.offset \notin Extent(field)
      BY <3>1
    <3> QED
      BY <1>1, <3>2 DEF Extent
  <2>5. get_bitfield(after, other.offset, other.size) = get_bitfield(frame, other.offset, other.size)
    <3> DEFINE o == field.offset
               n == field.size
               p == other.offset
               m == other.size
    <3>1. /\ o \in Nat /\ n \in 1 .. WordBits /\ o + n <= length * CharBit
          /\ p \in Nat /\ m \in 1 .. WordBits /\ p + m <= length * CharBit
          /\ o + n <= p \/ p + m <= o
      BY <1>1, <2>4
    <3> HIDE DEF o, n, p, m
    <3>2. get_bitfield(set_bitfield(value, o, n, frame), p, m) = get_bitfield(frame, p, m)
      BY <2>2, <3>1, SetLeavesOthers
    <3> QED
      BY <3>2 DEF o, n, p, m
  <2> HIDE DEF after
  <2> QED
    BY <2>3, <2>5 DEF HandleBitReading
<1> QED
  BY <1>2, <1>3

-----------------------------------------------------------------------------
(* Writing the fields of a frame one after the other.                      *)

\* The frame that the fields are written into, and the step of field k.
WordOf(frame) == [i \in DOMAIN Zeros(WordBytes) |->
                   IF i \in DOMAIN frame THEN frame[i] ELSE Zeros(WordBytes)[i]]

FieldWritten(k, new_data, bytes) ==
  IF Fields[k].type \in WrittenTypes
  THEN HandleBitWriting(Fields[k], new_data[Position(k)], bytes) ELSE bytes

\* h[k] is the frame after k fields.
WritesFields(h, frame, new_data) ==
  /\ h \in [0 .. Len(Fields) -> Bytes(WordBytes)] /\ h[0] = WordOf(frame)
  /\ \A k \in 1 .. Len(Fields) : h[k] = FieldWritten(k, new_data, h[k - 1])

\* The mapping lists fields.
LEMMA FieldsAreFields ==
  Len(Fields) \in Nat /\ \A k \in 1 .. Len(Fields) : IsField(Fields[k])
<1> DEFINE F == [offset : Nat, size : Nat, type : DOMAIN Width]
<1>1. Fields \in Seq(F)
  BY MappingAssumption
<1>2. \A field : field \in F => IsField(field)
  BY DEF IsField
<1> HIDE DEF F
<1>3. Len(Fields) \in Nat /\ \A k \in 1 .. Len(Fields) : Fields[k] \in F
  BY <1>1
<1> QED
  BY <1>2, <1>3

\* The bits of the frame stay when it is made as long as a word.
LEMMA WordOfFrame ==
  ASSUME NEW length \in 0 .. WordBytes, NEW frame \in Bytes(length)
  PROVE  /\ WordOf(frame) \in Bytes(WordBytes)
         /\ \A p \in 0 .. length * CharBit - 1 : Bit(WordOf(frame), p) = Bit(frame, p)
<1>1. /\ WordBytes \in Nat /\ length \in Nat /\ length * CharBit \in Int
      /\ Zeros(WordBytes) \in Bytes(WordBytes)
      /\ DOMAIN Zeros(WordBytes) = 0 .. WordBytes - 1
      /\ DOMAIN frame = 0 .. length - 1
  BY ZerosAreBytes, BitsAssumption DEF Bytes
<1>2. WordOf(frame) \in Bytes(WordBytes)
  BY <1>1 DEF WordOf, Bytes
<1>3. ASSUME NEW p \in 0 .. length * CharBit - 1
      PROVE  Bit(WordOf(frame), p) = Bit(frame, p)
  <2> DEFINE i == p \div CharBit
             b == p % CharBit
  <2>1. i \in Int /\ b \in Places /\ p = i * CharBit + b
    BY <1>1, PlaceOfBit
  <2> HIDE DEF i, b
  <2>2. i \in 0 .. length - 1
    BY <1>1, <2>1, BitOfByte
  <2>3. WordOf(frame)[i] = frame[i]
    BY <1>1, <2>2 DEF WordOf
  <2> QED
    BY <2>3 DEF Bit, i
<1> QED
  BY <1>2, <1>3

\* Edited writes the fields one by one, into a word each time.
LEMMA EditedInSteps ==
  ASSUME NEW length \in 0 .. WordBytes, NEW frame \in Bytes(length), NEW new_data
  PROVE  \E h : WritesFields(h, frame, new_data) /\ Edited(frame, new_data) = h[Len(Fields)]
<1> DEFINE S == Bytes(WordBytes)
           n == Len(Fields)
           next == [k \in Nat |-> [x \in S |-> IF k + 1 \in 1 .. n THEN FieldWritten(k + 1, new_data, x) ELSE x]]
           Defines(f) == f = [k \in 0 .. n |->
                               IF k = 0 THEN WordOf(frame)
                               ELSE IF Fields[k].type \in WrittenTypes
                                    THEN HandleBitWriting(Fields[k], new_data[Position(k)], f[k - 1])
                               ELSE f[k - 1]]
<1>1. n \in Nat /\ WordOf(frame) \in S
  BY WordOfFrame, FieldsAreFields
<1>2. ASSUME NEW k \in 1 .. n, NEW x \in S PROVE FieldWritten(k, new_data, x) \in S
  <2>1. IsField(Fields[k]) /\ WordBytes \in Nat
    BY FieldsAreFields, BitsAssumption
  <2> QED
    BY <2>1, WritingIsOfBytes DEF FieldWritten
<1>3. /\ next \in [Nat -> [S -> S]]
      /\ \A k \in Nat, x \in S : k + 1 \in 1 .. n => next[k][x] = FieldWritten(k + 1, new_data, x)
  <2> HIDE DEF S, n
  <2> QED
    BY <1>2
<1> HIDE DEF next
<1>4. PICK h : UnfoldsUpTo(h, S, WordOf(frame), next, n)
  <2> HIDE DEF S, n
  <2>1. \A base \in S, len \in Nat : \E h : UnfoldsUpTo(h, S, base, next, len)
    BY <1>3, RecursionUpTo
  <2> QED
    BY <1>1, <2>1, Zenon
<1>5. ASSUME NEW k \in 1 .. n PROVE h[k] = FieldWritten(k, new_data, h[k - 1])
  <2>1. k - 1 \in Nat /\ (k - 1) + 1 = k /\ k - 1 \in 0 .. n
    BY <1>1
  <2> HIDE DEF S, n
  <2>2. h[k - 1] \in S
    BY <1>4, <2>1 DEF UnfoldsUpTo
  <2> QED
    BY <1>3, <1>4, <2>1, <2>2 DEF UnfoldsUpTo
<1>6. Defines(h)
  <2>1. \A k \in 0 .. n : h[k] = IF k = 0 THEN WordOf(frame)
                                 ELSE IF Fields[k].type \in WrittenTypes
                                      THEN HandleBitWriting(Fields[k], new_data[Position(k)], h[k - 1])
                                 ELSE h[k - 1]
    <3>1. \A k \in 0 .. n : k = 0 \/ k \in 1 .. n
      BY <1>1
    <3> QED
      BY <1>4, <1>5, <3>1, Zenon DEF UnfoldsUpTo, FieldWritten
  <2>2. h = [k \in 0 .. n |-> h[k]]
    BY <1>4 DEF UnfoldsUpTo
  <2> QED
    BY <2>1, <2>2, Zenon
<1> DEFINE f == CHOOSE s : Defines(s)
<1>7. Defines(f)
  <2> HIDE DEF Defines
  <2> QED
    BY <1>6
<1>8. Edited(frame, new_data) = f[n]
  BY DEF Edited, WordOf
<1> HIDE DEF f
<1>9. f[0] = WordOf(frame) /\ \A k \in 1 .. n : f[k] = FieldWritten(k, new_data, f[k - 1])
  <2>1. 0 \in 0 .. n /\ \A k \in 1 .. n : k \in 0 .. n /\ k # 0
    BY <1>1
  <2> QED
    BY <1>7, <2>1, Zenon DEF FieldWritten
<1>10. \A k \in 0 .. n : f[k] \in S
  <2> DEFINE T == {k \in Nat : k <= n => f[k] \in S}
  <2> HIDE DEF S
  <2>1. 0 \in T
    BY <1>1, <1>9
  <2>2. ASSUME NEW k \in Nat, k \in T PROVE k + 1 \in T
    <3>1. k + 1 <= n => k + 1 \in 1 .. n /\ (k + 1) - 1 = k /\ k <= n
      BY <1>1
    <3> HIDE DEF n
    <3> QED
      BY <1>2, <1>9, <2>2, <3>1
  <2> HIDE DEF T
  <2>3. \A k \in Nat : k \in T
    BY <2>1, <2>2, Upwards
  <2> QED
    BY <1>1, <2>3 DEF T
<1>11. f = [k \in 0 .. n |-> f[k]]
  BY <1>7, Zenon
<1>12. f \in [0 .. n -> S]
  BY <1>10, <1>11
<1> QED
  BY <1>8, <1>9, <1>12 DEF WritesFields

\* A field takes the value of its own number when every field before it takes one.
LEMMA PositionIsOwn ==
  ASSUME \A j \in 1 .. Len(Fields) : Fields[j].type \in WrittenTypes, NEW k \in 1 .. Len(Fields)
  PROVE  Position(k) = k
<1>1. k \in Nat /\ \A j \in 1 .. k : Fields[j].type \in WrittenTypes
  BY FieldsAreFields
<1>2. {j \in 1 .. k : Fields[j].type \in WrittenTypes} = 1 .. k
  BY <1>1
<1>3. Cardinality(1 .. k) = k
  BY <1>1, FS_Interval
<1> QED
  BY <1>2, <1>3 DEF Position

\* What the fields of a frame read after they have been written.
LEMMA EditedReads ==
  ASSUME NEW length \in 0 .. WordBytes, NEW frame \in Bytes(length), NEW new_data, FieldsAreApart(frame),
         NEW i \in 1 .. Len(Fields)
  PROVE  HandleBitReading(Fields[i], Edited(frame, new_data)) =
           IF FitsInto(new_data[i], Fields[i]) THEN Cast(new_data[i], Fields[i].type)
                                               ELSE HandleBitReading(Fields[i], frame)
<1> DEFINE n == Len(Fields)
<1>1. PICK h : WritesFields(h, frame, new_data) /\ Edited(frame, new_data) = h[n]
  BY EditedInSteps
<1>2. n \in Nat /\ WordBytes \in Nat /\ length \in Nat /\ length * CharBit <= WordBytes * CharBit
      /\ length * CharBit \in Int /\ WordBytes * CharBit \in Int
  BY FieldsAreFields, BitsAssumption
<1>3. ASSUME NEW k \in 1 .. n
      PROVE  /\ IsField(Fields[k]) /\ Fields[k].type \in WrittenTypes /\ Fields[k].size \in 1 .. WordBits
             /\ Fields[k].offset + Fields[k].size <= length * CharBit
             /\ Fields[k].offset + Fields[k].size <= WordBytes * CharBit
  <2>1. /\ IsField(Fields[k]) /\ Fields[k].type \in WrittenTypes /\ Fields[k].size \in 1 .. WordBits
        /\ Extent(Fields[k]) \subseteq 0 .. length * CharBit - 1
    BY FieldsAreFields, SizeOfBytes, <1>2 DEF FieldsAreApart
  <2>2. Fields[k].offset + Fields[k].size <= length * CharBit
    BY <1>2, <2>1, FieldLies
  <2>3. Fields[k].offset + Fields[k].size \in Int
    BY <2>1 DEF IsField
  <2> QED
    BY <1>2, <2>1, <2>2, <2>3
<1>4. ASSUME NEW k \in 1 .. n, k # i PROVE Extent(Fields[k]) \cap Extent(Fields[i]) = {}
  <2>1. k \in 1 .. i - 1 \/ i \in 1 .. k - 1
    BY <1>2, <1>4
  <2>2. \A a \in 1 .. n, b \in 1 .. n :
          b \in 1 .. a - 1 => Extent(Fields[b]) \cap Extent(Fields[a]) = {}
    BY DEF FieldsAreApart
  <2> QED
    BY <2>1, <2>2
<1> DEFINE former == HandleBitReading(Fields[i], frame)
           written == IF FitsInto(new_data[i], Fields[i]) THEN Cast(new_data[i], Fields[i].type) ELSE former
           T == {k \in Nat : k <= n =>
                   HandleBitReading(Fields[i], h[k]) = IF i <= k THEN written ELSE former}
<1>5. 0 \in T
  <2>1. h[0] = WordOf(frame) /\ WordOf(frame) \in Bytes(WordBytes)
    BY <1>1, WordOfFrame DEF WritesFields
  <2> DEFINE o == Fields[i].offset
             m == Fields[i].size
  <2>2. o \in Nat /\ m \in 1 .. WordBits /\ m \in Nat /\ o + m <= length * CharBit /\ o + m <= WordBytes * CharBit
    BY <1>3 DEF IsField
  <2> HIDE DEF o, m
  <2>3. \A p \in o .. o + m - 1 : p \in 0 .. length * CharBit - 1
    BY <1>2, <2>2
  <2>4. \A p \in o .. o + m - 1 : Bit(WordOf(frame), p) = Bit(frame, p)
    BY <2>3, WordOfFrame
  <2>5. get_bitfield(WordOf(frame), o, m) = get_bitfield(frame, o, m)
    BY <1>2, <2>1, <2>2, <2>4, GetOfSameBits
  <2>6. HandleBitReading(Fields[i], h[0]) = former
    BY <2>1, <2>5 DEF HandleBitReading, o, m
  <2> HIDE DEF former, written
  <2> QED
    BY <2>6
<1>6. ASSUME NEW k \in Nat, k \in T PROVE k + 1 \in T
  <2> SUFFICES ASSUME k + 1 <= n
               PROVE  HandleBitReading(Fields[i], h[k + 1]) = IF i <= k + 1 THEN written ELSE former
    OBVIOUS
  <2>1. k + 1 \in 1 .. n /\ (k + 1) - 1 = k /\ k \in 0 .. n /\ k <= n
    BY <1>2
  <2>2. h[k] \in Bytes(WordBytes)
    BY <1>1, <2>1 DEF WritesFields
  <2>3. h[k + 1] = HandleBitWriting(Fields[k + 1], new_data[k + 1], h[k])
    <3>1. h[k + 1] = FieldWritten(k + 1, new_data, h[k])
      BY <1>1, <2>1 DEF WritesFields
    <3>2. Position(k + 1) = k + 1
      BY <1>3, <2>1, PositionIsOwn
    <3> QED
      BY <1>3, <2>1, <3>1, <3>2 DEF FieldWritten
  <2>4. HandleBitReading(Fields[i], h[k]) = IF i <= k THEN written ELSE former
    BY <1>6, <2>1
  <2>5. CASE k + 1 = i
    <3>1. HandleBitReading(Fields[i], h[k]) = former
      BY <2>4, <2>5
    <3> DEFINE field == Fields[i]
               input == new_data[i]
    <3>2. /\ FitsInto(input, field) =>
               HandleBitReading(field, HandleBitWriting(field, input, h[k])) = Cast(input, field.type)
          /\ ~FitsInto(input, field) => HandleBitWriting(field, input, h[k]) = h[k]
      BY <1>2, <1>3, <2>2, WrittenIsRead
    <3>3. HandleBitReading(field, h[k + 1]) = written
      BY <2>3, <2>5, <3>1, <3>2
    <3> HIDE DEF written, former
    <3> QED
      BY <2>5, <3>3
  <2>6. CASE k + 1 # i
    <3>1. HandleBitReading(Fields[i], h[k + 1]) = HandleBitReading(Fields[i], h[k])
      <4> DEFINE field == Fields[k + 1]
                 other == Fields[i]
      <4>1. /\ IsField(field) /\ field.type \in WrittenTypes /\ field.size \in 1 .. WordBits
            /\ field.offset + field.size <= WordBytes * CharBit
            /\ IsField(other) /\ other.size \in 1 .. WordBits
            /\ other.offset + other.size <= WordBytes * CharBit
            /\ Extent(field) \cap Extent(other) = {}
        BY <1>3, <1>4, <2>1, <2>6
      <4> HIDE DEF field, other
      <4>2. HandleBitReading(other, HandleBitWriting(field, new_data[k + 1], h[k]))
              = HandleBitReading(other, h[k])
        BY <1>2, <2>2, <4>1, OthersAreKept
      <4> QED
        BY <2>3, <4>2 DEF field, other
    <3>2. i <= k + 1 <=> i <= k
      BY <2>6
    <3> HIDE DEF written, former
    <3> QED
      BY <2>4, <3>1, <3>2
  <2> QED
    BY <2>5, <2>6
<1> HIDE DEF T
<1>7. n \in T
  BY <1>2, <1>5, <1>6, Upwards
<1>8. HandleBitReading(Fields[i], h[n]) = written
  <2>1. n <= n /\ i <= n
    BY <1>2
  <2> HIDE DEF written, former
  <2> QED
    BY <1>7, <2>1 DEF T
<1> QED
  BY <1>1, <1>8

-----------------------------------------------------------------------------
(* The bit editor.                                                         *)

Readings == Int \cup {NoNumber}

BitsTypeOK ==
  /\ \E length \in 0 .. WordBytes : data \in Bytes(length)
  /\ editor \in {"closed", "shown"}
  /\ info \in Seq(Readings) /\ inputs \in Seq(Readings)

\* The dialog is opened with numbers.
LEMMA MapOfFrame ==
  ASSUME NEW length \in Nat, NEW frame \in Bytes(length)
  PROVE  GetMapForFrameId(frame) \in Seq(Readings)
<1> DEFINE map == GetMapForFrameId(frame)
<1>1. map = [k \in 1 .. Len(Fields) |-> HandleBitReading(Fields[k], frame)]
  BY DEF GetMapForFrameId
<1>2. ASSUME NEW k \in 1 .. Len(Fields) PROVE HandleBitReading(Fields[k], frame) \in Readings
  BY FieldsAreFields, ReadingIsNumber DEF Readings
<1> HIDE DEF map
<1>3. \A k \in 1 .. Len(Fields) : map[k] \in Readings
  BY <1>1, <1>2
<1>4. map = [k \in 1 .. Len(Fields) |-> map[k]]
  BY <1>1
<1>5. map \in Seq(Readings)
  BY <1>3, <1>4, FieldsAreFields, FunctionIsSequence
<1> QED
  BY <1>5 DEF map

\* The dialog shows what it is opened with.
LEMMA ShownValues ==
  ASSUME NEW values \in Seq(Readings), ShowBitEditor(values)
  PROVE  /\ editor' \in {"closed", "shown"} /\ info' \in Seq(Readings) /\ inputs' \in Seq(Readings)
<1>1. MAX_BITEDITOR_FIELDS \in Nat
  BY MappingAssumption
<1>2. Len(values) > MAX_BITEDITOR_FIELDS => SubSeq(values, 1, MAX_BITEDITOR_FIELDS) \in Seq(Readings)
  BY <1>1
<1> QED
  BY <1>2 DEF ShowBitEditor

\* The data of a frame stays of at most a word of bytes.
LEMMA EditedIsOfBytes ==
  ASSUME NEW length \in 0 .. WordBytes, NEW frame \in Bytes(length), NEW new_data
  PROVE  Edited(frame, new_data) \in Bytes(WordBytes)
<1>1. PICK h : WritesFields(h, frame, new_data) /\ Edited(frame, new_data) = h[Len(Fields)]
  BY EditedInSteps
<1>2. Len(Fields) \in 0 .. Len(Fields)
  BY FieldsAreFields
<1> QED
  BY <1>1, <1>2 DEF WritesFields

\* Data stays bytes, of a word at most, and the dialog holds numbers or what is none, whatever is
\* typed and applied (CanEntryHandler.cpp:142, BitEditorDialog.cpp:73).
THEOREM BitsTypeCorrect == BitsSpec => []BitsTypeOK
<1>1. BitsInit => BitsTypeOK
  BY MappingAssumption DEF BitsInit, BitsTypeOK
<1>2. BitsTypeOK /\ [BitsNext]_bitsVars => BitsTypeOK'
  <2> SUFFICES ASSUME BitsTypeOK, [BitsNext]_bitsVars PROVE BitsTypeOK'
    OBVIOUS
  <2>1. PICK length \in 0 .. WordBytes : data \in Bytes(length)
    BY DEF BitsTypeOK
  <2>2. length \in Nat /\ WordBytes \in 0 .. WordBytes
    BY BitsAssumption
  <2> USE DEF BitsTypeOK
  <2>3. CASE EditBits
    BY <2>1, <2>2, <2>3, MapOfFrame, ShownValues DEF EditBits
  <2>4. CASE UserTypes
    <3>1. PICK k \in 1 .. Len(Fields), text \in Texts : inputs' = [inputs EXCEPT ![k] = text]
      BY <2>4 DEF UserTypes
    <3>2. text \in Readings
      BY MappingAssumption DEF Readings
    <3>3. inputs' \in Seq(Readings)
      <4>1. Len(inputs) \in Nat /\ DOMAIN inputs = 1 .. Len(inputs)
            /\ \A i \in 1 .. Len(inputs) : inputs[i] \in Readings
        OBVIOUS
      <4>2. inputs' = [i \in 1 .. Len(inputs) |-> inputs'[i]]
        BY <3>1, <4>1
      <4>3. \A i \in 1 .. Len(inputs) : inputs'[i] \in Readings
        BY <3>1, <3>2, <4>1
      <4> QED
        BY <4>1, <4>2, <4>3, FunctionIsSequence
    <3> QED
      BY <2>4, <3>3 DEF UserTypes
  <2>5. CASE ClickApply
    BY <2>5, ShownValues DEF ClickApply
  <2>6. CASE ClickOther
    BY <2>6 DEF ClickOther
  <2>7. CASE ApplyEditingOnFrameId
    <3>1. data' \in Bytes(WordBytes)
      BY <2>1, <2>7, EditedIsOfBytes DEF ApplyEditingOnFrameId
    <3> QED
      BY <2>2, <2>7, <3>1 DEF ApplyEditingOnFrameId
  <2>8. CASE UNCHANGED bitsVars
    BY <2>8 DEF bitsVars
  <2> QED
    BY <2>3, <2>4, <2>5, <2>6, <2>7, <2>8 DEF BitsNext
<1> QED
  BY <1>1, <1>2, PTL DEF BitsSpec

\* For every size of bytes and words, every array, offset and count, copy_bits copies the bits it
\* is asked to and changes no other (bitarray.c:23): the property CopyIsBitwise.
THEOREM CopiesAreBitwise == BitsSpec => []CopyIsBitwise
<1>1. BitsTypeOK => CopyIsBitwise
  <2> SUFFICES ASSUME BitsTypeOK,
                      NEW dest \in Arrays, NEW n \in Counts, NEW soff \in Offsets, NEW doff \in Offsets,
                      CopyFits(data, soff, n, dest, doff)
               PROVE  IsBitwiseCopy(data, soff, n, dest, doff, copy_bits(data, soff, n, dest, doff))
    BY DEF CopyIsBitwise
  <2>1. PICK slen \in 0 .. WordBytes : data \in Bytes(slen)
    BY DEF BitsTypeOK
  <2>2. PICK dlen \in 0 .. WordBytes : dest \in Bytes(dlen)
    BY MappingAssumption
  <2>3. slen \in Nat /\ dlen \in Nat /\ n \in Nat /\ soff \in Nat /\ doff \in Nat
    BY MappingAssumption
  <2> QED
    BY <2>1, <2>2, <2>3, CopyIsRight
<1> QED
  BY <1>1, BitsTypeCorrect, PTL

\* For every mapping of fields that are apart and every input, a field reads back as the number it
\* was given or, where that does not fit, as before (CanEntryHandler.cpp:53, 142): FieldsReadBack.
THEOREM WrittenFieldsReadBack == BitsSpec => FieldsReadBack
<1> DEFINE ReadsBack ==
      ApplyEditingOnFrameId /\ FieldsAreApart(data) =>
        \A k \in 1 .. Len(Fields) :
          HandleBitReading(Fields[k], data') =
            IF FitsInto(inputs[k], Fields[k]) THEN Cast(inputs[k], Fields[k].type)
                                              ELSE HandleBitReading(Fields[k], data)
<1>1. BitsTypeOK /\ [BitsNext]_bitsVars => [ReadsBack]_bitsVars
  <2> SUFFICES ASSUME BitsTypeOK, ApplyEditingOnFrameId, FieldsAreApart(data), NEW k \in 1 .. Len(Fields)
               PROVE  HandleBitReading(Fields[k], data') =
                        IF FitsInto(inputs[k], Fields[k]) THEN Cast(inputs[k], Fields[k].type)
                                                          ELSE HandleBitReading(Fields[k], data)
    OBVIOUS
  <2>1. PICK length \in 0 .. WordBytes : data \in Bytes(length)
    BY DEF BitsTypeOK
  <2>2. data' = Edited(data, GetOutput)
    BY DEF ApplyEditingOnFrameId
  <2>3. GetOutput[k] = inputs[k]
    <3>1. inputs \in Seq(Readings) /\ Len(GetOutput) = Len(Fields)
      BY DEF BitsTypeOK, ApplyEditingOnFrameId
    <3>2. GetOutput = inputs
      BY <3>1 DEF GetOutput
    <3> QED
      BY <3>2
  <2>4. HandleBitReading(Fields[k], Edited(data, GetOutput)) =
          IF FitsInto(GetOutput[k], Fields[k]) THEN Cast(GetOutput[k], Fields[k].type)
                                               ELSE HandleBitReading(Fields[k], data)
    BY <2>1, EditedReads
  <2> QED
    BY <2>2, <2>3, <2>4
<1> QED
  BY <1>1, BitsTypeCorrect, PTL DEF BitsSpec, FieldsReadBack

=============================================================================
