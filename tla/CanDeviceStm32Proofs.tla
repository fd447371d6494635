------------------------ MODULE CanDeviceStm32Proofs ------------------------
(***************************************************************************)
(* CanDeviceStm32, for any length of a frame, capacity of the buffer,      *)
(* number of frames and number of faults: what it receives is a lossy FIFO *)
(* of what was sent, it receives no damaged frame, and a damaged frame     *)
(* costs at most the one that follows it.                                  *)
(***************************************************************************)
EXTENDS CanDeviceStm32, SequenceTheorems, TLAPS

Places    == 1 .. FrameLen
Positions == [frame : Nat \ {0}, place : Places]

\* The order in which bytes are sent.
Earlier(b, c) == b.frame < c.frame \/ (b.frame = c.frame /\ b.place < c.place)

Following(at) == IF at.place < FrameLen THEN Byte(at.frame, at.place + 1) ELSE Byte(at.frame + 1, 1)

Real(byte) == byte.frame # NoFrame

\* What is left of a buffer, and a buffer with one byte more.
Rest(new, buffer, count) ==
  /\ new \in Seq(Bytes)
  /\ Len(new) = Len(buffer) - count
  /\ \A i \in 1 .. Len(new) : i + count \in 1 .. Len(buffer) /\ new[i] = buffer[i + count]

More(new, buffer, byte) ==
  /\ new \in Seq(Bytes)
  /\ Len(new) = Len(buffer) + 1
  /\ \A i \in 1 .. Len(buffer) : new[i] = buffer[i]
  /\ new[Len(buffer) + 1] = byte

-----------------------------------------------------------------------------
(* The stream: what the bytes of a buffer say of the bytes sent before the *)
(* next one, when the frames "bad" are damaged.                            *)

InOrder(buffer, at) ==
  /\ \A i \in 1 .. Len(buffer) : Real(buffer[i]) => Earlier(buffer[i], at)
  /\ \A i, j \in 1 .. Len(buffer) :
       i < j /\ Real(buffer[i]) /\ Real(buffer[j]) => Earlier(buffer[i], buffer[j])

\* The bytes of an undamaged frame follow each other.
Runs(buffer, at, bad) ==
  \A i \in 1 .. Len(buffer) : Real(buffer[i]) /\ buffer[i].frame \notin bad =>
    \A k \in 0 .. FrameLen - buffer[i].place :
      /\ i + k <= Len(buffer) => buffer[i + k] = Byte(buffer[i].frame, buffer[i].place + k)
      /\ i + k = Len(buffer) + 1 => at = Byte(buffer[i].frame, buffer[i].place + k)

\* After the first byte of the buffer all bytes of undamaged frames are there.
NoGap(buffer, at, bad) ==
  \A i \in 1 .. Len(buffer), f \in Frames \ bad, p \in Places :
    Real(buffer[i]) /\ Earlier(buffer[i], Byte(f, p)) /\ Earlier(Byte(f, p), at) =>
      \E j \in 1 .. Len(buffer) : buffer[j] = Byte(f, p)

\* A damaged frame has a byte that will never be in the buffer.
Torn(buffer, at, bad) ==
  \A f \in bad : \E p \in Places :
    Earlier(Byte(f, p), at) /\ \A i \in 1 .. Len(buffer) : buffer[i] # Byte(f, p)

Stream(buffer, at, bad) ==
  InOrder(buffer, at) /\ Runs(buffer, at, bad) /\ NoGap(buffer, at, bad)

\* The first byte of an undamaged frame that is preceded by no damaged one is in the buffer
\* until the frame is received.
Begun(buffer, at, bad, got) ==
  \A f \in Frames \ bad :
    (f = 1 \/ f - 1 \notin bad) /\ f \notin ToSet(got) /\ Earlier(Byte(f, 1), at) =>
      \E i \in 1 .. Len(buffer) : buffer[i] = Byte(f, 1)

-----------------------------------------------------------------------------
(* Bytes and buffers.                                                      *)

\* The bytes of a buffer have a frame and a place.
LEMMA BytesOfBuffer ==
  ASSUME NEW buffer \in Seq(Bytes)
  PROVE  /\ Len(buffer) \in Nat
         /\ \A i \in 1 .. Len(buffer) :
              /\ buffer[i] \in Bytes /\ buffer[i].frame \in Nat /\ buffer[i].place \in Places
              /\ buffer[i] = Byte(buffer[i].frame, buffer[i].place)
              /\ Real(buffer[i]) => buffer[i].frame \in Frames
<1>1. \A i \in 1 .. Len(buffer) : buffer[i] \in Bytes
  BY ElementOfSeq
<1>2. \A b \in Bytes : /\ b.frame \in Nat /\ b.place \in Places
                       /\ b = Byte(b.frame, b.place)
                       /\ Real(b) => b.frame \in Frames
  BY BoundAssumption DEF Bytes, Frames, NoFrame, Places, Byte, Real
<1> QED
  BY <1>1, <1>2, LenProperties

\* A byte is its frame and its place.
LEMMA ByteFields ==
  /\ \A f, p : Byte(f, p).frame = f /\ Byte(f, p).place = p
  /\ \A f, p, g, q : Byte(f, p) = Byte(g, q) <=> f = g /\ p = q
  BY DEF Byte

\* No byte is sent before itself, and no two before each other.
LEMMA EarlierIsOrder ==
  /\ \A b, c \in Bytes : Earlier(b, c) => ~Earlier(c, b) /\ b # c
  /\ \A b, c, d \in Bytes : Earlier(b, c) /\ Earlier(c, d) => Earlier(b, d)
<1>1. \A b \in Bytes : b.frame \in Nat /\ b.place \in Nat
  BY FrameAssumption, BoundAssumption DEF Bytes, Frames, NoFrame
<1> QED
  BY <1>1 DEF Earlier

\* The next byte the adapter sends.
LEMMA FollowingIsNext ==
  ASSUME NEW at \in Positions
  PROVE  /\ Following(at) \in Positions
         /\ at = Byte(at.frame, at.place)
         /\ \A f \in Nat, p \in Places :
              Earlier(Byte(f, p), Following(at)) <=> Earlier(Byte(f, p), at) \/ Byte(f, p) = at
<1>1. at.frame \in Nat \ {0} /\ at.place \in Places /\ at = Byte(at.frame, at.place)
  BY DEF Positions, Byte
<1>2. at.place + 1 \in Places \/ at.place = FrameLen
  BY <1>1, FrameAssumption DEF Places
<1>3. Following(at) \in Positions
  BY <1>1, <1>2, FrameAssumption DEF Following, Positions, Places, Byte
<1>4. ASSUME NEW f \in Nat, NEW p \in Places
      PROVE  Earlier(Byte(f, p), Following(at)) <=> Earlier(Byte(f, p), at) \/ Byte(f, p) = at
  <2>1. Byte(f, p) = at <=> f = at.frame /\ p = at.place
    BY <1>1, ByteFields
  <2>2. CASE at.place < FrameLen
    BY <1>1, <2>1, <2>2, FrameAssumption, ByteFields DEF Following, Earlier, Places
  <2>3. CASE at.place = FrameLen
    BY <1>1, <2>1, <2>3, FrameAssumption, ByteFields DEF Following, Earlier, Places
  <2> QED
    BY <1>1, <2>2, <2>3, FrameAssumption DEF Places
<1> QED
  BY <1>1, <1>3, <1>4

\* Erasing from the front leaves the rest.
LEMMA RestOfBuffer ==
  ASSUME NEW buffer \in Seq(Bytes)
  PROVE  /\ \A count \in 0 .. Len(buffer) :
              Rest(SubSeq(buffer, count + 1, Len(buffer)), buffer, count)
         /\ buffer # <<>> => Rest(Tail(buffer), buffer, 1)
         /\ \A byte \in Bytes : More(Append(buffer, byte), buffer, byte)
<1>1. Len(buffer) \in Nat
  BY LenProperties
<1>2. ASSUME NEW count \in 0 .. Len(buffer)
      PROVE  Rest(SubSeq(buffer, count + 1, Len(buffer)), buffer, count)
  <2> DEFINE new == SubSeq(buffer, count + 1, Len(buffer))
  <2>1. /\ new \in Seq(Bytes)
        /\ Len(new) = IF count + 1 <= Len(buffer) THEN Len(buffer) - (count + 1) + 1 ELSE 0
        /\ \A i \in 1 .. Len(buffer) - (count + 1) + 1 : new[i] = buffer[(count + 1) + i - 1]
    BY <1>1, SubSeqProperties
  <2> HIDE DEF new
  <2>2. Len(new) = Len(buffer) - count
    BY <1>1, <2>1
  <2>3. \A i \in 1 .. Len(new) : (count + 1) + i - 1 = i + count /\ i + count \in 1 .. Len(buffer)
    BY <1>1, <2>2
  <2>4. \A i \in 1 .. Len(new) : i \in 1 .. Len(buffer) - (count + 1) + 1
    BY <1>1, <2>2
  <2> QED
    BY <2>1, <2>2, <2>3, <2>4 DEF Rest, new
<1>3. ASSUME buffer # <<>>
      PROVE  Rest(Tail(buffer), buffer, 1)
  <2>1. /\ Tail(buffer) \in Seq(Bytes) /\ Len(Tail(buffer)) = Len(buffer) - 1
        /\ \A i \in 1 .. Len(Tail(buffer)) : Tail(buffer)[i] = buffer[i + 1]
    BY <1>3, HeadTailProperties
  <2> DEFINE tail == Tail(buffer)
  <2> HIDE DEF tail
  <2>2. \A i \in 1 .. Len(tail) : i + 1 \in 1 .. Len(buffer)
    BY <1>1, <2>1 DEF tail
  <2> QED
    BY <2>1, <2>2 DEF Rest, tail
<1>4. ASSUME NEW byte \in Bytes
      PROVE  More(Append(buffer, byte), buffer, byte)
  BY AppendProperties DEF More
<1> QED
  BY <1>2, <1>3, <1>4

-----------------------------------------------------------------------------
(* What the steps do to the stream.                                        *)

\* Erasing bytes from the front, as more frames get damaged.
LEMMA RestKeepsStream ==
  ASSUME NEW buffer \in Seq(Bytes), NEW at \in Positions, NEW bad, NEW worse, bad \subseteq worse,
         NEW count \in Nat, NEW new, Rest(new, buffer, count), Stream(buffer, at, bad)
  PROVE  Stream(new, at, worse)
<1> USE DEF Rest
<1>1. /\ Len(buffer) \in Nat /\ Len(new) \in Nat /\ Len(new) + count = Len(buffer)
      /\ \A i \in 1 .. Len(new) : i + count \in 1 .. Len(buffer) /\ new[i] = buffer[i + count]
  BY BytesOfBuffer
<1>2. InOrder(new, at)
  <2>1. \A i \in 1 .. Len(new) : Real(new[i]) => Earlier(new[i], at)
    BY <1>1 DEF Stream, InOrder
  <2>2. ASSUME NEW i \in 1 .. Len(new), NEW j \in 1 .. Len(new), i < j, Real(new[i]), Real(new[j])
        PROVE  Earlier(new[i], new[j])
    <3>1. i + count < j + count
      BY <1>1, <2>2
    <3> QED
      BY <1>1, <2>2, <3>1 DEF Stream, InOrder
  <2> QED
    BY <2>1, <2>2 DEF InOrder
<1>3. Runs(new, at, worse)
  <2> SUFFICES ASSUME NEW i \in 1 .. Len(new), Real(new[i]), new[i].frame \notin worse,
                      NEW k \in 0 .. FrameLen - new[i].place
               PROVE  /\ i + k <= Len(new) => new[i + k] = Byte(new[i].frame, new[i].place + k)
                      /\ i + k = Len(new) + 1 => at = Byte(new[i].frame, new[i].place + k)
    BY DEF Runs
  <2>1. /\ new[i] = buffer[i + count] /\ i + count \in 1 .. Len(buffer)
        /\ buffer[i + count].frame \notin bad
    BY <1>1
  <2>2. k \in Nat /\ i \in Nat
    BY FrameAssumption, BytesOfBuffer DEF Places
  <2>3. /\ i + count + k <= Len(buffer) =>
             buffer[i + count + k] = Byte(new[i].frame, new[i].place + k)
        /\ i + count + k = Len(buffer) + 1 => at = Byte(new[i].frame, new[i].place + k)
    <3>1. Real(buffer[i + count]) /\ k \in 0 .. FrameLen - buffer[i + count].place
      BY <2>1
    <3>2. /\ (i + count) + k <= Len(buffer) =>
               buffer[(i + count) + k] = Byte(buffer[i + count].frame, buffer[i + count].place + k)
          /\ (i + count) + k = Len(buffer) + 1 =>
               at = Byte(buffer[i + count].frame, buffer[i + count].place + k)
      BY <2>1, <3>1, Zenon DEF Stream, Runs
    <3> QED
      BY <2>1, <3>2
  <2>4. ASSUME i + k <= Len(new)
        PROVE  new[i + k] = buffer[i + count + k] /\ i + count + k <= Len(buffer)
    <3>1. i + k \in 1 .. Len(new) /\ (i + k) + count = i + count + k
      BY <1>1, <2>2, <2>4
    <3>2. new[i + k] = buffer[(i + k) + count]
      BY <1>1, <3>1
    <3> QED
      BY <1>1, <2>2, <2>4, <3>1, <3>2
  <2>5. i + k = Len(new) + 1 => i + count + k = Len(buffer) + 1
    BY <1>1, <2>2
  <2> QED
    BY <2>3, <2>4, <2>5
<1>4. NoGap(new, at, worse)
  <2> SUFFICES ASSUME NEW i \in 1 .. Len(new), NEW f \in Frames \ worse, NEW p \in Places,
                      Real(new[i]), Earlier(new[i], Byte(f, p)), Earlier(Byte(f, p), at)
               PROVE  \E j \in 1 .. Len(new) : new[j] = Byte(f, p)
    BY DEF NoGap
  <2>1. /\ new[i] = buffer[i + count] /\ i + count \in 1 .. Len(buffer)
        /\ f \in Frames \ bad
    BY <1>1
  <2>2. PICK j \in 1 .. Len(buffer) : buffer[j] = Byte(f, p)
    BY <2>1 DEF Stream, NoGap
  <2>3. i + count < j
    <3> SUFFICES ASSUME j <= i + count PROVE FALSE
      BY <1>1
    <3>1. ~Earlier(Byte(f, p), new[i]) /\ Byte(f, p) # new[i]
      <4>1. new[i] \in Bytes /\ Byte(f, p) \in Bytes
        BY <2>1, BytesOfBuffer DEF Bytes, Byte, Places
      <4> QED
        BY <4>1, EarlierIsOrder
    <3>2. Real(Byte(f, p))
      BY ByteFields DEF Real, Frames, NoFrame
    <3>3. j < i + count
      <4>1. j # i + count
        BY <2>1, <2>2, <3>1
      <4> QED
        BY <1>1, <2>1, <4>1
    <3> QED
      BY <2>1, <2>2, <3>1, <3>2, <3>3 DEF Stream, InOrder
  <2>4. j - count \in 1 .. Len(new) /\ (j - count) + count = j
    BY <1>1, <2>3
  <2> QED
    BY <1>1, <2>2, <2>4
<1> QED
  BY <1>2, <1>3, <1>4 DEF Stream

\* A byte of the line is lost or corrupted: its frame is damaged.
LEMMA FaultKeepsStream ==
  ASSUME NEW buffer \in Seq(Bytes), NEW at \in Positions, NEW bad, Stream(buffer, at, bad)
  PROVE  Stream(buffer, Following(at), bad \cup {at.frame})
<1> DEFINE worse == bad \cup {at.frame}
<1>1. InOrder(buffer, Following(at))
  <2>1. ASSUME NEW i \in 1 .. Len(buffer), Earlier(buffer[i], at)
        PROVE  Earlier(buffer[i], Following(at))
    BY <2>1, BytesOfBuffer, FollowingIsNext
  <2> QED
    BY <2>1 DEF Stream, InOrder
<1>2. Runs(buffer, Following(at), worse)
  <2> SUFFICES ASSUME NEW i \in 1 .. Len(buffer), Real(buffer[i]), buffer[i].frame \notin worse,
                      NEW k \in 0 .. FrameLen - buffer[i].place
               PROVE  /\ i + k <= Len(buffer) =>
                           buffer[i + k] = Byte(buffer[i].frame, buffer[i].place + k)
                      /\ i + k # Len(buffer) + 1
    BY DEF Runs
  <2>1. at # Byte(buffer[i].frame, buffer[i].place + k)
    BY ByteFields
  <2> QED
    BY <2>1 DEF Stream, Runs
<1>3. NoGap(buffer, Following(at), worse)
  <2> SUFFICES ASSUME NEW i \in 1 .. Len(buffer), NEW f \in Frames \ worse, NEW p \in Places,
                      Real(buffer[i]), Earlier(buffer[i], Byte(f, p)),
                      Earlier(Byte(f, p), Following(at))
               PROVE  \E j \in 1 .. Len(buffer) : buffer[j] = Byte(f, p)
    BY DEF NoGap
  <2>1. Byte(f, p) # at /\ f \in Nat
    BY ByteFields, BoundAssumption DEF Frames
  <2>2. Earlier(Byte(f, p), at)
    BY <2>1, FollowingIsNext
  <2> QED
    BY <2>2 DEF Stream, NoGap
<1> QED
  BY <1>1, <1>2, <1>3 DEF Stream

\* The undamaged frames end before a byte that is lost or corrupted.
LEMMA UndamagedEnd ==
  ASSUME NEW buffer \in Seq(Bytes), NEW at \in Positions, NEW bad, Stream(buffer, at, bad),
         NEW i \in 1 .. Len(buffer), Real(buffer[i]), buffer[i].frame \notin bad \cup {at.frame},
         NEW k \in 0 .. FrameLen - buffer[i].place
  PROVE  i + k <= Len(buffer)
<1>1. Len(buffer) \in Nat /\ i \in Nat /\ k \in Nat /\ buffer[i].place \in Nat
  BY BytesOfBuffer, FrameAssumption DEF Places
<1> SUFFICES ASSUME i + k > Len(buffer) PROVE FALSE
  BY <1>1
<1> DEFINE h == Len(buffer) + 1 - i
<1>2. h \in 0 .. FrameLen - buffer[i].place /\ i + h = Len(buffer) + 1
  BY <1>1, FrameAssumption
<1> HIDE DEF h
<1>3. at = Byte(buffer[i].frame, buffer[i].place + h)
  BY <1>2, Zenon DEF Stream, Runs
<1> QED
  BY <1>3, ByteFields

\* The next byte of the line is appended.
LEMMA MoreKeepsStream ==
  ASSUME NEW buffer \in Seq(Bytes), NEW at \in Positions, at \in Bytes, NEW bad,
         NEW new, More(new, buffer, at), Stream(buffer, at, bad)
  PROVE  Stream(new, Following(at), bad)
<1> USE DEF More
<1>1. /\ Len(buffer) \in Nat /\ Len(new) = Len(buffer) + 1
      /\ \A i \in 1 .. Len(new) : i = Len(new) \/ (i \in 1 .. Len(buffer) /\ new[i] = buffer[i])
      /\ new[Len(new)] = at
  BY BytesOfBuffer
<1>2. /\ \A i \in 1 .. Len(buffer) : new[i] = buffer[i] /\ i \in 1 .. Len(new)
      /\ Len(new) \in 1 .. Len(new)
  BY <1>1
<1>3. InOrder(new, Following(at))
  <2>1. ASSUME NEW i \in 1 .. Len(new), Real(new[i])
        PROVE  Earlier(new[i], Following(at))
    <3>1. Earlier(new[i], at) \/ new[i] = at
      BY <1>1, <2>1 DEF Stream, InOrder
    <3> QED
      BY <3>1, FollowingIsNext, BytesOfBuffer
  <2>2. ASSUME NEW i \in 1 .. Len(new), NEW j \in 1 .. Len(new), i < j, Real(new[i]), Real(new[j])
        PROVE  Earlier(new[i], new[j])
    <3>1. i \in 1 .. Len(buffer) /\ new[i] = buffer[i]
      BY <1>1, <2>2
    <3>2. CASE j = Len(new)
      BY <1>1, <2>2, <3>1, <3>2 DEF Stream, InOrder
    <3>3. CASE j # Len(new)
      BY <1>1, <2>2, <3>1, <3>3 DEF Stream, InOrder
    <3> QED
      BY <3>2, <3>3
  <2> QED
    BY <2>1, <2>2 DEF InOrder
<1>4. Runs(new, Following(at), bad)
  <2> SUFFICES ASSUME NEW i \in 1 .. Len(new), Real(new[i]), new[i].frame \notin bad,
                      NEW k \in 0 .. FrameLen - new[i].place
               PROVE  /\ i + k <= Len(new) => new[i + k] = Byte(new[i].frame, new[i].place + k)
                      /\ i + k = Len(new) + 1 =>
                           Following(at) = Byte(new[i].frame, new[i].place + k)
    BY DEF Runs
  <2>1. /\ k \in Nat /\ i \in Nat /\ new[i].place \in Places /\ new[i].place \in Nat
        /\ new[i] = Byte(new[i].frame, new[i].place) /\ new[i].place + k <= FrameLen
    BY <1>1, BytesOfBuffer, FrameAssumption DEF Places
  <2>2. CASE i = Len(new)
    <3>1. at = Byte(new[i].frame, new[i].place)
      BY <1>1, <2>1, <2>2
    <3>2. i + k <= Len(new) => k = 0
      BY <1>1, <2>1, <2>2
    <3>3. i + k = Len(new) + 1 => k = 1 /\ at.place < FrameLen
      BY <1>1, <2>1, <2>2, FrameAssumption
    <3>4. k = 0 => new[i + k] = Byte(new[i].frame, new[i].place + k)
      BY <2>1
    <3> QED
      BY <3>1, <3>2, <3>3, <3>4, ByteFields DEF Following
  <2>3. CASE i # Len(new)
    <3>1. i \in 1 .. Len(buffer) /\ new[i] = buffer[i]
      BY <1>1, <2>3
    <3>2. \A h \in 0 .. FrameLen - new[i].place :
            /\ i + h <= Len(buffer) => buffer[i + h] = Byte(new[i].frame, new[i].place + h)
            /\ i + h = Len(buffer) + 1 => at = Byte(new[i].frame, new[i].place + h)
      BY <3>1 DEF Stream, Runs
    <3>3. CASE i + k <= Len(buffer)
      <4>1. i + k \in 1 .. Len(buffer)
        BY <2>1, <3>1, <3>3
      <4>2. new[i + k] = buffer[i + k] /\ i + k # Len(new) + 1
        BY <1>1, <4>1
      <4> QED
        BY <3>2, <3>3, <4>2
    <3>4. CASE i + k = Len(buffer) + 1
      <4>1. i + k = Len(new) /\ i + k # Len(new) + 1
        BY <1>1, <3>4
      <4> QED
        BY <1>1, <3>2, <3>4, <4>1
    <3>5. CASE i + k = Len(buffer) + 2
      <4>1. k - 1 \in 0 .. FrameLen - new[i].place /\ i + (k - 1) = Len(buffer) + 1
        <5>1. k >= 2
          BY <1>1, <2>1, <3>1, <3>5
        <5>2. k - 1 \in Nat /\ k - 1 <= FrameLen - new[i].place
          BY <2>1, <5>1, FrameAssumption
        <5>3. FrameLen - new[i].place \in Int
          BY <2>1, FrameAssumption
        <5> QED
          BY <1>1, <2>1, <3>5, <5>2, <5>3
      <4>2. at = Byte(new[i].frame, new[i].place + (k - 1))
        BY <3>2, <4>1
      <4>3. at.frame = new[i].frame /\ at.place = new[i].place + (k - 1)
        BY <4>2, ByteFields
      <4>4. at.place < FrameLen /\ at.place + 1 = new[i].place + k
        <5> DEFINE q == new[i].place
        <5>1. q \in Nat /\ k \in Nat /\ q + k <= FrameLen /\ at.place = q + (k - 1)
          BY <2>1, <4>3
        <5> HIDE DEF q
        <5>2. at.place < FrameLen /\ at.place + 1 = q + k
          BY <5>1, FrameAssumption
        <5> QED
          BY <5>2 DEF q
      <4>5. Following(at) = Byte(new[i].frame, new[i].place + k)
        BY <4>3, <4>4 DEF Following
      <4>6. ~(i + k <= Len(new))
        BY <1>1, <3>5
      <4> QED
        BY <4>5, <4>6
    <3>6. CASE i + k > Len(buffer) + 2
      BY <1>1, <2>1, <3>6
    <3> QED
      BY <1>1, <2>1, <3>3, <3>4, <3>5, <3>6
  <2> QED
    BY <2>2, <2>3
<1>5. NoGap(new, Following(at), bad)
  <2> SUFFICES ASSUME NEW i \in 1 .. Len(new), NEW f \in Frames \ bad, NEW p \in Places,
                      Real(new[i]), Earlier(new[i], Byte(f, p)), Earlier(Byte(f, p), Following(at))
               PROVE  \E j \in 1 .. Len(new) : new[j] = Byte(f, p)
    BY DEF NoGap
  <2>1. Earlier(Byte(f, p), at) \/ Byte(f, p) = at
    BY FollowingIsNext, BoundAssumption DEF Frames
  <2>2. CASE Byte(f, p) = at
    BY <1>1, <1>2, <2>2
  <2>3. CASE Earlier(Byte(f, p), at) /\ i # Len(new)
    <3>1. PICK j \in 1 .. Len(buffer) : buffer[j] = Byte(f, p)
      BY <1>1, <2>3 DEF Stream, NoGap
    <3> QED
      BY <1>2, <3>1
  <2>4. CASE Earlier(Byte(f, p), at) /\ i = Len(new)
    <3>1. new[i] = at /\ Byte(f, p) \in Bytes
      BY <1>1, <2>4 DEF Bytes, Byte, Places
    <3> QED
      BY <2>4, <3>1, EarlierIsOrder
  <2> QED
    BY <2>1, <2>2, <2>3, <2>4
<1> QED
  BY <1>3, <1>4, <1>5 DEF Stream

\* A corrupted byte of the line is appended.
LEMMA NoiseKeepsStream ==
  ASSUME NEW buffer \in Seq(Bytes), NEW at \in Positions, NEW bad, NEW noise, ~Real(noise),
         NEW new, More(new, buffer, noise), Stream(buffer, at, bad)
  PROVE  Stream(new, Following(at), bad \cup {at.frame})
<1> USE DEF More
<1> DEFINE worse == bad \cup {at.frame}
<1>1. /\ Len(buffer) \in Nat /\ Len(new) = Len(buffer) + 1
      /\ \A i \in 1 .. Len(new) :
           (i \in 1 .. Len(buffer) /\ new[i] = buffer[i]) \/ (i = Len(new) /\ ~Real(new[i]))
      /\ \A i \in 1 .. Len(buffer) : new[i] = buffer[i] /\ i \in 1 .. Len(new)
  BY BytesOfBuffer
<1>2. Stream(buffer, Following(at), worse)
  BY FaultKeepsStream
<1>3. InOrder(new, Following(at))
  BY <1>1, <1>2 DEF Stream, InOrder
<1>4. Runs(new, Following(at), worse)
  <2> SUFFICES ASSUME NEW i \in 1 .. Len(new), Real(new[i]), new[i].frame \notin worse,
                      NEW k \in 0 .. FrameLen - new[i].place
               PROVE  /\ i + k <= Len(new) => new[i + k] = Byte(new[i].frame, new[i].place + k)
                      /\ i + k # Len(new) + 1
    BY DEF Runs
  <2>1. i \in 1 .. Len(buffer) /\ new[i] = buffer[i]
    BY <1>1
  <2>2. k \in Nat /\ i + k <= Len(buffer)
    BY <2>1, UndamagedEnd, BytesOfBuffer, FrameAssumption DEF Places
  <2>3. i + k \in 1 .. Len(buffer) /\ i + k # Len(new) + 1
    BY <1>1, <2>1, <2>2
  <2>4. buffer[i + k] = Byte(buffer[i].frame, buffer[i].place + k)
    BY <2>1, <2>2 DEF Stream, Runs
  <2> QED
    BY <1>1, <2>1, <2>3, <2>4
<1>5. NoGap(new, Following(at), worse)
  <2> SUFFICES ASSUME NEW i \in 1 .. Len(new), NEW f \in Frames \ worse, NEW p \in Places,
                      Real(new[i]), Earlier(new[i], Byte(f, p)), Earlier(Byte(f, p), Following(at))
               PROVE  \E j \in 1 .. Len(new) : new[j] = Byte(f, p)
    BY DEF NoGap
  <2>1. PICK j \in 1 .. Len(buffer) : buffer[j] = Byte(f, p)
    BY <1>1, <1>2 DEF Stream, NoGap
  <2> QED
    BY <1>1, <2>1
<1> QED
  BY <1>3, <1>4, <1>5 DEF Stream

-----------------------------------------------------------------------------
(* What the steps do to the torn frames.                                   *)

\* Erasing bytes from the front mends no frame.
LEMMA RestKeepsTorn ==
  ASSUME NEW buffer \in Seq(Bytes), NEW at, NEW bad, NEW count \in Nat, NEW new,
         Rest(new, buffer, count), Torn(buffer, at, bad)
  PROVE  Torn(new, at, bad)
  BY DEF Rest, Torn

\* The oldest byte is overwritten: its frame is torn.
LEMMA OverwritingTears ==
  ASSUME NEW buffer \in Seq(Bytes), buffer # <<>>, NEW at \in Positions, NEW bad, NEW new,
         Rest(new, buffer, 1), Torn(buffer, at, bad), InOrder(buffer, at)
  PROVE  Torn(new, at, bad \cup ({buffer[1].frame} \ {NoFrame}))
<1>1. Torn(new, at, bad)
  BY RestKeepsTorn, 1 \in Nat
<1>2. Len(buffer) \in Nat \ {0} /\ 1 \in 1 .. Len(buffer)
  BY EmptySeq, LenProperties
<1>3. ASSUME buffer[1].frame # NoFrame
      PROVE  \E p \in Places : /\ Earlier(Byte(buffer[1].frame, p), at)
                               /\ \A i \in 1 .. Len(new) : new[i] # Byte(buffer[1].frame, p)
  <2>1. /\ buffer[1] = Byte(buffer[1].frame, buffer[1].place) /\ buffer[1].place \in Places
        /\ Real(buffer[1]) /\ buffer[1] \in Bytes
    BY <1>2, <1>3, BytesOfBuffer DEF Real
  <2>2. Earlier(buffer[1], at)
    BY <1>2, <2>1 DEF InOrder
  <2>3. ASSUME NEW i \in 1 .. Len(new), new[i] = buffer[1] PROVE FALSE
    <3>1. i + 1 \in 1 .. Len(buffer) /\ new[i] = buffer[i + 1] /\ 1 < i + 1
      BY <1>2, LenProperties DEF Rest
    <3>2. Earlier(buffer[1], buffer[i + 1])
      BY <1>2, <2>1, <2>3, <3>1 DEF InOrder
    <3> QED
      BY <2>1, <2>3, <3>1, <3>2, EarlierIsOrder
  <2> QED
    BY <2>1, <2>2, <2>3
<1> QED
  BY <1>1, <1>3 DEF Torn

\* A byte of the line is lost: its frame is torn.
LEMMA LosingTears ==
  ASSUME NEW buffer \in Seq(Bytes), NEW at \in Positions, at \in Bytes, NEW bad \in SUBSET Frames,
         Torn(buffer, at, bad), InOrder(buffer, at)
  PROVE  Torn(buffer, Following(at), bad \cup {at.frame})
<1>1. ASSUME NEW f \in bad
      PROVE  \E p \in Places : /\ Earlier(Byte(f, p), Following(at))
                               /\ \A i \in 1 .. Len(buffer) : buffer[i] # Byte(f, p)
  <2>1. PICK p \in Places : Earlier(Byte(f, p), at)
                              /\ \A i \in 1 .. Len(buffer) : buffer[i] # Byte(f, p)
    BY DEF Torn
  <2>2. Earlier(Byte(f, p), Following(at))
    BY <2>1, FollowingIsNext, BoundAssumption DEF Frames
  <2> QED
    BY <2>1, <2>2
<1>2. /\ at = Byte(at.frame, at.place) /\ at.place \in Places /\ at.frame \in Nat
      /\ Earlier(at, Following(at))
  BY FollowingIsNext DEF Positions
<1>3. ASSUME NEW i \in 1 .. Len(buffer) PROVE buffer[i] # at
  <2>1. Real(at)
    BY DEF Positions, Real, NoFrame
  <2>2. Earlier(buffer[i], at) => buffer[i] # at
    BY BytesOfBuffer, EarlierIsOrder
  <2> QED
    BY <2>1, <2>2 DEF InOrder
<1> QED
  BY <1>1, <1>2, <1>3 DEF Torn

\* What is appended is the next byte of the line or noise: it is no byte of a torn frame that
\* was to come.
LEMMA MoreKeepsTorn ==
  ASSUME NEW buffer \in Seq(Bytes), NEW at \in Positions, at \in Bytes, NEW bad \in SUBSET Frames,
         NEW byte \in Bytes, byte = at \/ ~Real(byte), NEW new, More(new, buffer, byte),
         Torn(buffer, at, bad)
  PROVE  Torn(new, at, bad)
<1> SUFFICES ASSUME NEW f \in bad
             PROVE  \E p \in Places : /\ Earlier(Byte(f, p), at)
                                      /\ \A i \in 1 .. Len(new) : new[i] # Byte(f, p)
  BY DEF Torn
<1>1. PICK p \in Places : Earlier(Byte(f, p), at)
                            /\ \A i \in 1 .. Len(buffer) : buffer[i] # Byte(f, p)
  BY DEF Torn
<1>2. byte # Byte(f, p)
  <2>1. Byte(f, p) \in Bytes /\ Real(Byte(f, p))
    BY DEF Bytes, Byte, Places, Real, Frames, NoFrame
  <2> QED
    BY <1>1, <2>1, EarlierIsOrder
<1>3. \A i \in 1 .. Len(new) : (i \in 1 .. Len(buffer) /\ new[i] = buffer[i]) \/ new[i] = byte
  BY BytesOfBuffer DEF More
<1> QED
  BY <1>1, <1>2, <1>3

\* A longer line is later.
LEMMA TornLater ==
  ASSUME NEW buffer, NEW at \in Positions, NEW bad \in SUBSET Frames, Torn(buffer, at, bad)
  PROVE  Torn(buffer, Following(at), bad)
<1>1. \A f \in bad, p \in Places : Earlier(Byte(f, p), at) => Earlier(Byte(f, p), Following(at))
  BY FollowingIsNext, BoundAssumption DEF Frames
<1> QED
  BY <1>1 DEF Torn

-----------------------------------------------------------------------------
(* The invariant.                                                          *)

\* What was received was sent before everything in the buffer, and was not damaged.
GotInv ==
  \A k \in 1 .. Len(received) :
    /\ received[k] < line.frame /\ received[k] \notin damaged
    /\ \A i \in 1 .. Len(m_CircBuff) :
         Real(m_CircBuff[i]) => received[k] < m_CircBuff[i].frame

BegunInv == MagicPlaces = {} => Begun(m_CircBuff, line, damaged, received)

IInv ==
  /\ TypeOK
  /\ Stream(m_CircBuff, line, damaged)
  /\ Torn(m_CircBuff, line, damaged)
  /\ GotInv
  /\ BegunInv

\* The line stands at a byte.
LEMMA LineIsPosition ==
  ASSUME TypeOK
  PROVE  /\ line \in Positions
         /\ Sending => line \in Bytes /\ line.frame \in Frames
         /\ AdvanceLine <=> line' = Following(line)
<1>1. line \in Positions
  BY BoundAssumption DEF TypeOK, Positions, Places
<1>2. ASSUME Sending PROVE line \in Bytes /\ line.frame \in Frames
  BY <1>2, BoundAssumption DEF TypeOK, Sending, Bytes, Frames
<1> QED
  BY <1>1, <1>2 DEF AdvanceLine, Following

\* The initial state satisfies the invariant.
LEMMA InitIsInv == Init => IInv
<1> SUFFICES ASSUME Init PROVE IInv
  OBVIOUS
<1>1. m_CircBuff = <<>> /\ received = <<>> /\ damaged = {} /\ line = Byte(1, 1)
  BY DEF Init
<1>2. /\ <<>> \in Seq(Bytes) /\ <<>> \in Seq(Frames) /\ Len(<<>>) = 0
      /\ 1 .. Len(<<>>) = {}
  OBVIOUS
<1>3. TypeOK
  <2>1. line \in [frame : 1 .. MaxFrames + 1, place : 1 .. FrameLen]
    BY <1>1, BoundAssumption, FrameAssumption DEF Byte
  <2>2. 0 <= Capacity /\ 0 \in 0 .. MaxFaults
    BY CapacityAssumption, BoundAssumption
  <2> QED
    BY <1>1, <1>2, <2>1, <2>2 DEF Init, TypeOK
<1>4. Stream(m_CircBuff, line, damaged) /\ Torn(m_CircBuff, line, damaged) /\ GotInv
  BY <1>1, <1>2 DEF Stream, InOrder, Runs, NoGap, Torn, GotInv
<1>5. BegunInv
  <2>1. ASSUME NEW f \in Frames PROVE ~Earlier(Byte(f, 1), line)
    BY <1>1, ByteFields, BoundAssumption DEF Earlier, Frames
  <2> QED
    BY <2>1 DEF BegunInv, Begun
<1> QED
  BY <1>3, <1>4, <1>5 DEF IInv

-----------------------------------------------------------------------------
(* The line and the receive thread.                                        *)

\* What Inserted leaves of the buffer before it appends the byte.
Kept == IF Len(m_CircBuff) < Capacity THEN m_CircBuff ELSE Tail(m_CircBuff)

\* Inserted, in two steps.
LEMMA InsertedInSteps ==
  ASSUME IInv, NEW byte \in Bytes
  PROVE  /\ Kept \in Seq(Bytes) /\ Len(Kept) < Capacity
         /\ More(Inserted(byte), Kept, byte)
         /\ Overwritten \subseteq Frames
         /\ Stream(Kept, line, damaged \cup Overwritten)
         /\ Torn(Kept, line, damaged \cup Overwritten)
         /\ \A i \in 1 .. Len(Kept) : \E j \in 1 .. Len(m_CircBuff) : Kept[i] = m_CircBuff[j]
         /\ \A j \in 1 .. Len(m_CircBuff) : Real(m_CircBuff[j]) =>
              \/ m_CircBuff[j].frame \in Overwritten
              \/ \E i \in 1 .. Len(Kept) : Kept[i] = m_CircBuff[j]
         /\ \A f \in Overwritten : /\ \E j \in 1 .. Len(m_CircBuff) :
                                        Real(m_CircBuff[j]) /\ m_CircBuff[j].frame = f
<1>1. /\ m_CircBuff \in Seq(Bytes) /\ Len(m_CircBuff) \in Nat /\ Len(m_CircBuff) <= Capacity
      /\ line \in Positions /\ damaged \in SUBSET Frames
  BY LineIsPosition, LenProperties DEF IInv, TypeOK
<1>2. CASE Len(m_CircBuff) < Capacity
  <2>1. Kept = m_CircBuff /\ Overwritten = {} /\ Inserted(byte) = Append(m_CircBuff, byte)
    BY <1>2 DEF Kept, Overwritten, Inserted
  <2>2. More(Append(m_CircBuff, byte), m_CircBuff, byte)
    BY <1>1, RestOfBuffer
  <2>3. damaged \cup {} = damaged
    OBVIOUS
  <2> QED
    BY <1>1, <1>2, <2>1, <2>2, <2>3 DEF IInv
<1>3. CASE ~(Len(m_CircBuff) < Capacity)
  <2>1. m_CircBuff # <<>> /\ 1 \in 1 .. Len(m_CircBuff)
    BY <1>1, <1>3, CapacityAssumption, FrameAssumption, EmptySeq
  <2>2. Head(m_CircBuff) = m_CircBuff[1]
    BY <1>1, <2>1, HeadTailProperties
  <2>3. /\ Kept = Tail(m_CircBuff) /\ Overwritten = {m_CircBuff[1].frame} \ {NoFrame}
        /\ Inserted(byte) = Append(Tail(m_CircBuff), byte)
    BY <1>3, <2>2 DEF Kept, Overwritten, Inserted
  <2>4. Rest(Kept, m_CircBuff, 1)
    BY <1>1, <2>1, <2>3, RestOfBuffer
  <2>5. Kept \in Seq(Bytes) /\ Len(Kept) = Len(m_CircBuff) - 1
        /\ \A i \in 1 .. Len(Kept) : i + 1 \in 1 .. Len(m_CircBuff) /\ Kept[i] = m_CircBuff[i + 1]
    BY <2>4 DEF Rest
  <2>6. More(Inserted(byte), Kept, byte)
    BY <2>3, <2>5, RestOfBuffer
  <2>7. Overwritten \subseteq Frames
    BY <1>1, <2>1, <2>3, BytesOfBuffer DEF Real
  <2>8. Stream(Kept, line, damaged \cup Overwritten)
    BY <1>1, <2>4, RestKeepsStream, 1 \in Nat DEF IInv
  <2>9. Torn(Kept, line, damaged \cup Overwritten)
    BY <1>1, <2>1, <2>3, <2>4, OverwritingTears DEF IInv, Stream
  <2>10. ASSUME NEW j \in 1 .. Len(m_CircBuff), Real(m_CircBuff[j])
         PROVE  \/ m_CircBuff[j].frame \in Overwritten
                \/ \E i \in 1 .. Len(Kept) : Kept[i] = m_CircBuff[j]
    <3>1. CASE j = 1
      BY <2>3, <2>10, <3>1 DEF Real
    <3>2. CASE j # 1
      <4>1. j - 1 \in 1 .. Len(Kept) /\ (j - 1) + 1 = j
        BY <1>1, <2>5, <3>2
      <4> QED
        BY <2>5, <4>1
    <3> QED
      BY <3>1, <3>2
  <2>11. ASSUME NEW f \in Overwritten
         PROVE  \E j \in 1 .. Len(m_CircBuff) : Real(m_CircBuff[j]) /\ m_CircBuff[j].frame = f
    BY <2>1, <2>3 DEF Real
  <2>12. Len(Kept) < Capacity
    BY <1>1, <2>5, CapacityAssumption
  <2> QED
    BY <2>5, <2>6, <2>7, <2>8, <2>9, <2>10, <2>11, <2>12
<1> QED
  BY <1>2, <1>3

\* A byte arrives, as it was sent or corrupted.
LEMMA InsertKeepsInv ==
  ASSUME IInv, NEW byte \in Bytes, OnDataReceived(byte), faults' \in 0 .. MaxFaults,
         \/ byte = line /\ damaged' = damaged \cup Overwritten
         \/ ~Real(byte) /\ damaged' = damaged \cup Overwritten \cup {line.frame}
  PROVE  IInv'
<1>1. /\ Sending /\ m_CircBuff' = Inserted(byte) /\ line' = Following(line)
      /\ parsing' = parsing /\ received' = received
  BY LineIsPosition DEF OnDataReceived, IInv
<1>2. /\ line \in Positions /\ line \in Bytes /\ line.frame \in Frames
      /\ line' \in Positions /\ damaged \in SUBSET Frames /\ damaged' \in SUBSET Frames
      /\ received \in Seq(Frames) /\ \A k \in 1 .. Len(received) : received[k] \in Frames
  <2>1. received \in Seq(Frames) /\ \A k \in 1 .. Len(received) : received[k] \in Frames
    BY ElementOfSeq DEF IInv, TypeOK
  <2> QED
    BY <1>1, <2>1, LineIsPosition, FollowingIsNext, InsertedInSteps DEF IInv, TypeOK
<1>3. /\ Kept \in Seq(Bytes) /\ Len(Kept) \in Nat /\ Len(Kept) < Capacity
      /\ More(m_CircBuff', Kept, byte)
      /\ Stream(Kept, line, damaged \cup Overwritten)
      /\ Torn(Kept, line, damaged \cup Overwritten)
      /\ damaged \cup Overwritten \in SUBSET Frames
  BY <1>1, <1>2, InsertedInSteps, LenProperties
<1>4. /\ m_CircBuff' \in Seq(Bytes) /\ Len(m_CircBuff') = Len(Kept) + 1
      /\ \A i \in 1 .. Len(Kept) : m_CircBuff'[i] = Kept[i] /\ i \in 1 .. Len(m_CircBuff')
      /\ m_CircBuff'[Len(Kept) + 1] = byte /\ Len(Kept) + 1 \in 1 .. Len(m_CircBuff')
      /\ \A i \in 1 .. Len(m_CircBuff') : i \in 1 .. Len(Kept) \/ i = Len(Kept) + 1
  BY <1>3 DEF More
<1>5. TypeOK'
  <2>1. line'.frame \in 1 .. MaxFrames + 1 /\ line'.place \in 1 .. FrameLen
        /\ line' \in [frame : 1 .. MaxFrames + 1, place : 1 .. FrameLen]
    <3>1. line.frame \in Nat /\ line.frame >= 1 /\ line.frame <= MaxFrames /\ line.place \in Places
      BY <1>2, BoundAssumption DEF Frames, Positions
    <3>2. CASE line.place < FrameLen
      BY <1>1, <3>1, <3>2, BoundAssumption, FrameAssumption DEF Following, Byte, Places
    <3>3. CASE ~(line.place < FrameLen)
      BY <1>1, <3>1, <3>3, BoundAssumption, FrameAssumption DEF Following, Byte
    <3> QED
      BY <3>2, <3>3
  <2>2. Len(m_CircBuff') <= Capacity
    BY <1>3, <1>4, CapacityAssumption
  <2> QED
    BY <1>1, <1>2, <1>4, <2>1, <2>2 DEF IInv, TypeOK
<1>6. Stream(m_CircBuff', line', damaged')
  <2>1. CASE byte = line /\ damaged' = damaged \cup Overwritten
    BY <1>1, <1>2, <1>3, <2>1, MoreKeepsStream
  <2>2. CASE ~Real(byte) /\ damaged' = damaged \cup Overwritten \cup {line.frame}
    BY <1>1, <1>2, <1>3, <2>2, NoiseKeepsStream
  <2> QED
    BY <2>1, <2>2
<1>7. Torn(m_CircBuff', line', damaged')
  <2>1. byte = line \/ ~Real(byte)
    OBVIOUS
  <2>2. CASE damaged' = damaged \cup Overwritten
    <3>1. Torn(m_CircBuff', line, damaged \cup Overwritten)
      BY <1>2, <1>3, <2>1, MoreKeepsTorn
    <3> QED
      BY <1>1, <1>2, <1>3, <2>2, <3>1, TornLater
  <2>3. CASE ~Real(byte) /\ damaged' = damaged \cup Overwritten \cup {line.frame}
    <3>1. Torn(Kept, Following(line), damaged')
      BY <1>2, <1>3, <2>3, LosingTears DEF Stream
    <3> SUFFICES ASSUME NEW f \in damaged'
                 PROVE  \E p \in Places :
                          /\ Earlier(Byte(f, p), line')
                          /\ \A i \in 1 .. Len(m_CircBuff') : m_CircBuff'[i] # Byte(f, p)
      BY DEF Torn
    <3>2. PICK p \in Places : /\ Earlier(Byte(f, p), line')
                              /\ \A i \in 1 .. Len(Kept) : Kept[i] # Byte(f, p)
      BY <1>1, <3>1 DEF Torn
    <3>3. byte # Byte(f, p)
      BY <1>2, <2>3, ByteFields DEF Real, Frames, NoFrame
    <3> QED
      BY <1>4, <3>2, <3>3
  <2> QED
    BY <2>2, <2>3
<1>8. GotInv'
  <2> SUFFICES ASSUME NEW k \in 1 .. Len(received)
               PROVE  /\ received[k] < line'.frame /\ received[k] \notin damaged'
                      /\ \A i \in 1 .. Len(m_CircBuff') :
                           Real(m_CircBuff'[i]) => received[k] < m_CircBuff'[i].frame
    BY <1>1 DEF GotInv
  <2>1. /\ received[k] < line.frame /\ received[k] \notin damaged /\ received[k] \in Nat
        /\ \A i \in 1 .. Len(m_CircBuff) :
             Real(m_CircBuff[i]) => received[k] < m_CircBuff[i].frame
    BY <1>2, BoundAssumption DEF IInv, GotInv, Frames
  <2>2. line'.frame >= line.frame /\ line.frame \in Nat /\ line'.frame \in Nat
    BY <1>1, <1>2, BoundAssumption, ByteFields DEF Following, Positions
  <2>3. received[k] < line'.frame
    BY <2>1, <2>2
  <2>4. received[k] \notin Overwritten
    <3>1. \A f \in Overwritten : \E j \in 1 .. Len(m_CircBuff) :
            Real(m_CircBuff[j]) /\ m_CircBuff[j].frame = f
      BY InsertedInSteps
    <3> QED
      BY <2>1, <3>1
  <2>5. received[k] \notin damaged'
    BY <2>1, <2>2, <2>4
  <2>6. ASSUME NEW i \in 1 .. Len(m_CircBuff'), Real(m_CircBuff'[i])
        PROVE  received[k] < m_CircBuff'[i].frame
    <3>1. CASE i \in 1 .. Len(Kept)
      <4>1. PICK j \in 1 .. Len(m_CircBuff) : Kept[i] = m_CircBuff[j]
        BY <3>1, InsertedInSteps
      <4> QED
        BY <1>4, <2>1, <2>6, <3>1, <4>1
    <3>2. CASE i = Len(Kept) + 1
      BY <1>4, <2>1, <2>6, <3>2
    <3> QED
      BY <1>4, <3>1, <3>2
  <2> QED
    BY <2>3, <2>5, <2>6
<1>9. BegunInv'
  <2> SUFFICES ASSUME MagicPlaces = {}, NEW f \in Frames \ damaged',
                      f = 1 \/ f - 1 \notin damaged', f \notin ToSet(received),
                      Earlier(Byte(f, 1), line')
               PROVE  \E i \in 1 .. Len(m_CircBuff') : m_CircBuff'[i] = Byte(f, 1)
    BY <1>1 DEF BegunInv, Begun
  <2>1. /\ damaged \subseteq damaged' /\ Overwritten \subseteq damaged'
        /\ f \in Nat /\ 1 \in Places
    BY FrameAssumption, BoundAssumption DEF Frames, Places
  <2>2. Earlier(Byte(f, 1), line) \/ Byte(f, 1) = line
    BY <1>1, <1>2, <2>1, FollowingIsNext
  <2>3. CASE Earlier(Byte(f, 1), line)
    <3>1. PICK j \in 1 .. Len(m_CircBuff) : m_CircBuff[j] = Byte(f, 1)
      BY <2>1, <2>3 DEF IInv, BegunInv, Begun
    <3>2. Real(m_CircBuff[j]) /\ m_CircBuff[j].frame = f
      BY <3>1, ByteFields DEF Real, Frames, NoFrame
    <3>3. PICK i \in 1 .. Len(Kept) : Kept[i] = Byte(f, 1)
      BY <2>1, <3>1, <3>2, InsertedInSteps
    <3> QED
      BY <1>4, <3>3
  <2>4. CASE Byte(f, 1) = line
    <3>1. f = line.frame
      BY <2>4, ByteFields
    <3> QED
      BY <1>4, <2>4, <3>1
  <2> QED
    BY <2>2, <2>3, <2>4
<1> QED
  BY <1>5, <1>6, <1>7, <1>8, <1>9 DEF IInv

\* A byte is lost.
LEMMA LossKeepsInv ==
  ASSUME IInv, LoseByte
  PROVE  IInv'
<1>1. /\ Sending /\ line' = Following(line) /\ damaged' = damaged \cup {line.frame}
      /\ UNCHANGED <<m_CircBuff, parsing, received>> /\ faults' = faults + 1 /\ faults < MaxFaults
  BY LineIsPosition DEF LoseByte, IInv
<1>2. /\ line \in Positions /\ line \in Bytes /\ line.frame \in Frames
      /\ damaged \in SUBSET Frames /\ m_CircBuff \in Seq(Bytes)
      /\ \A k \in 1 .. Len(received) : received[k] \in Frames
  <2>1. \A k \in 1 .. Len(received) : received[k] \in Frames
    BY ElementOfSeq DEF IInv, TypeOK
  <2> QED
    BY <1>1, <2>1, LineIsPosition DEF IInv, TypeOK
<1>3. line'.frame >= line.frame /\ line.frame \in Nat /\ line'.frame \in Nat
      /\ line' \in [frame : 1 .. MaxFrames + 1, place : 1 .. FrameLen]
  <2>1. line.frame \in Nat /\ line.frame >= 1 /\ line.frame <= MaxFrames /\ line.place \in Places
    BY <1>2, BoundAssumption DEF Frames, Positions
  <2>2. CASE line.place < FrameLen
    BY <1>1, <2>1, <2>2, BoundAssumption, FrameAssumption DEF Following, Byte, Places
  <2>3. CASE ~(line.place < FrameLen)
    BY <1>1, <2>1, <2>3, BoundAssumption, FrameAssumption DEF Following, Byte
  <2> QED
    BY <2>2, <2>3
<1>4. TypeOK'
  BY <1>1, <1>2, <1>3, BoundAssumption DEF IInv, TypeOK
<1>5. Stream(m_CircBuff, line', damaged') /\ Torn(m_CircBuff, line', damaged')
  BY <1>1, <1>2, FaultKeepsStream, LosingTears DEF IInv, Stream
<1>6. GotInv'
  BY <1>1, <1>2, <1>3, BoundAssumption DEF IInv, GotInv, Frames
<1>7. BegunInv'
  <2> SUFFICES ASSUME MagicPlaces = {}, NEW f \in Frames \ damaged',
                      f = 1 \/ f - 1 \notin damaged', f \notin ToSet(received),
                      Earlier(Byte(f, 1), line')
               PROVE  \E i \in 1 .. Len(m_CircBuff) : m_CircBuff[i] = Byte(f, 1)
    BY <1>1 DEF BegunInv, Begun
  <2>1. f \in Nat /\ 1 \in Places /\ Byte(f, 1) # line
    BY <1>1, FrameAssumption, BoundAssumption, ByteFields DEF Frames, Places
  <2>2. Earlier(Byte(f, 1), line)
    BY <1>1, <1>2, <2>1, FollowingIsNext
  <2> QED
    BY <1>1, <2>2 DEF IInv, BegunInv, Begun
<1> QED
  BY <1>1, <1>4, <1>5, <1>6, <1>7 DEF IInv

-----------------------------------------------------------------------------
(* ProcessReceivedFrames.                                                  *)

\* The bytes of the window.
LEMMA WindowBytes ==
  ASSUME TypeOK, MoreToParse
  PROVE  /\ m_CircBuff \in Seq(Bytes) /\ Len(m_CircBuff) \in Nat /\ FrameLen <= Len(m_CircBuff)
         /\ \A i \in 1 .. FrameLen : Window[i] = m_CircBuff[i] /\ i \in 1 .. Len(m_CircBuff)
         /\ 1 \in 1 .. FrameLen /\ FrameLen \in 1 .. FrameLen
         /\ Rest(Erased(FrameLen), m_CircBuff, FrameLen)
         /\ Rest(Erased(1), m_CircBuff, 1)
<1>1. m_CircBuff \in Seq(Bytes) /\ Len(m_CircBuff) \in Nat /\ FrameLen <= Len(m_CircBuff)
  BY LenProperties DEF TypeOK, MoreToParse
<1>2. \A i \in 1 .. FrameLen : Window[i] = m_CircBuff[i] /\ i \in 1 .. Len(m_CircBuff)
  <2>1. \A i \in 1 .. FrameLen - 1 + 1 : Window[i] = m_CircBuff[1 + i - 1]
    BY <1>1, FrameAssumption, SubSeqProperties DEF Window
  <2>2. \A i \in 1 .. FrameLen : i \in 1 .. FrameLen - 1 + 1 /\ 1 + i - 1 = i
    BY FrameAssumption
  <2>3. \A i \in 1 .. FrameLen : i \in 1 .. Len(m_CircBuff)
    BY <1>1, FrameAssumption
  <2> QED
    BY <2>1, <2>2, <2>3
<1>3. FrameLen \in 0 .. Len(m_CircBuff) /\ 1 \in 0 .. Len(m_CircBuff)
  BY <1>1, FrameAssumption
<1>4. Rest(Erased(FrameLen), m_CircBuff, FrameLen) /\ Rest(Erased(1), m_CircBuff, 1)
  BY <1>1, <1>3, RestOfBuffer DEF Erased
<1> QED
  BY <1>1, <1>2, <1>4, FrameAssumption

\* Bytes are erased, and nothing is received.
LEMMA EraseKeepsInv ==
  ASSUME IInv, NEW count \in Nat, Rest(m_CircBuff', m_CircBuff, count),
         UNCHANGED <<parsing, line, faults, received, damaged>>, BegunInv'
  PROVE  IInv'
<1>1. /\ m_CircBuff \in Seq(Bytes) /\ Len(m_CircBuff) \in Nat /\ Len(m_CircBuff) <= Capacity
      /\ line \in Positions
  BY LineIsPosition, LenProperties DEF IInv, TypeOK
<1>2. /\ m_CircBuff' \in Seq(Bytes) /\ Len(m_CircBuff') = Len(m_CircBuff) - count
      /\ \A i \in 1 .. Len(m_CircBuff') :
           i + count \in 1 .. Len(m_CircBuff) /\ m_CircBuff'[i] = m_CircBuff[i + count]
  BY DEF Rest
<1>3. TypeOK'
  <2>1. Len(m_CircBuff') <= Capacity
    BY <1>1, <1>2, CapacityAssumption
  <2> QED
    BY <1>2, <2>1 DEF IInv, TypeOK
<1>4. Stream(m_CircBuff', line, damaged) /\ Torn(m_CircBuff', line, damaged)
  BY <1>1, RestKeepsStream, RestKeepsTorn DEF IInv
<1>5. GotInv'
  BY <1>2 DEF IInv, GotInv
<1> QED
  BY <1>3, <1>4, <1>5 DEF IInv

\* A frame is taken.  It is whole, so it is not damaged; everything that was sent before it has
\* left the buffer, and everything that is in the buffer was sent after it.
LEMMA TakenFrame ==
  ASSUME IInv, TakeFrame, NEW f, f = m_CircBuff[1].frame
  PROVE  /\ f \in Frames /\ f < line.frame /\ f \notin damaged
         /\ received' = Append(received, f)
         /\ \A i \in 1 .. FrameLen : m_CircBuff[i] = Byte(f, i)
         /\ Rest(m_CircBuff', m_CircBuff, FrameLen)
         /\ \A k \in 1 .. Len(received) : received[k] < f
         /\ \A i \in 1 .. Len(m_CircBuff') : Real(m_CircBuff'[i]) => f < m_CircBuff'[i].frame
<1>1. /\ m_CircBuff \in Seq(Bytes) /\ Len(m_CircBuff) \in Nat
      /\ \A i \in 1 .. FrameLen : Window[i] = m_CircBuff[i] /\ i \in 1 .. Len(m_CircBuff)
      /\ 1 \in 1 .. FrameLen /\ FrameLen \in 1 .. FrameLen
      /\ Rest(m_CircBuff', m_CircBuff, FrameLen)
  BY WindowBytes DEF TakeFrame, IInv
<1>2. /\ Real(m_CircBuff[1]) /\ received' = Append(received, f)
      /\ \A i \in 1 .. FrameLen : m_CircBuff[i] = Byte(f, i)
  BY <1>1 DEF TakeFrame, CrcMatches, Real
<1>3. f \in Frames /\ f \in Nat
  BY <1>1, <1>2, BytesOfBuffer, BoundAssumption DEF Frames
<1>4. /\ line \in Positions /\ line.frame \in Nat /\ line.place \in Nat /\ line.place <= FrameLen
  BY LineIsPosition, FrameAssumption DEF IInv, Positions, Places
<1>5. \A i \in 1 .. FrameLen : Real(m_CircBuff[i]) /\ Earlier(Byte(f, i), line)
  BY <1>1, <1>2, <1>3, ByteFields DEF IInv, Stream, InOrder, Real, Frames, NoFrame
<1>6. f < line.frame
  <2>1. Earlier(Byte(f, FrameLen), line)
    BY <1>1, <1>5
  <2> QED
    BY <1>3, <1>4, <2>1, ByteFields, FrameAssumption DEF Earlier
<1>7. f \notin damaged
  <2> SUFFICES ASSUME f \in damaged PROVE FALSE
    OBVIOUS
  <2>1. PICK p \in Places : \A i \in 1 .. Len(m_CircBuff) : m_CircBuff[i] # Byte(f, p)
    BY DEF IInv, Torn
  <2> QED
    BY <1>1, <1>2, <2>1 DEF Places
<1>8. \A k \in 1 .. Len(received) : received[k] < f
  BY <1>1, <1>2 DEF IInv, GotInv
<1>9. ASSUME NEW i \in 1 .. Len(m_CircBuff'), Real(m_CircBuff'[i])
      PROVE  f < m_CircBuff'[i].frame
  <2>1. i + FrameLen \in 1 .. Len(m_CircBuff) /\ m_CircBuff'[i] = m_CircBuff[i + FrameLen]
    BY <1>1 DEF Rest
  <2>2. FrameLen < i + FrameLen
    BY <1>1, FrameAssumption DEF Rest
  <2>3. Earlier(m_CircBuff[FrameLen], m_CircBuff[i + FrameLen])
    BY <1>1, <1>5, <1>9, <2>1, <2>2 DEF IInv, Stream, InOrder
  <2>4. m_CircBuff[i + FrameLen].frame \in Nat /\ m_CircBuff[i + FrameLen].place \in Nat
        /\ m_CircBuff[i + FrameLen].place <= FrameLen
    BY <1>1, <2>1, BytesOfBuffer, FrameAssumption DEF Places
  <2>5. m_CircBuff[FrameLen].frame = f /\ m_CircBuff[FrameLen].place = FrameLen
    BY <1>1, <1>2, ByteFields
  <2> QED
    BY <1>3, <2>1, <2>3, <2>4, <2>5, FrameAssumption DEF Earlier
<1> QED
  BY <1>1, <1>2, <1>3, <1>6, <1>7, <1>8, <1>9

\* The elements of a longer sequence of frames.
LEMMA ReceivedMore ==
  ASSUME NEW got \in Seq(Frames), NEW f \in Frames
  PROVE  /\ Append(got, f) \in Seq(Frames) /\ Len(Append(got, f)) = Len(got) + 1
         /\ \A k \in 1 .. Len(Append(got, f)) :
              (k \in 1 .. Len(got) /\ Append(got, f)[k] = got[k]) \/ Append(got, f)[k] = f
         /\ ToSet(Append(got, f)) = ToSet(got) \cup {f}
<1> DEFINE more == Append(got, f)
<1>1. /\ more \in Seq(Frames) /\ Len(more) = Len(got) + 1 /\ Len(got) \in Nat
      /\ \A k \in 1 .. Len(got) : more[k] = got[k]
      /\ more[Len(got) + 1] = f
      /\ DOMAIN more = 1 .. Len(more) /\ DOMAIN got = 1 .. Len(got)
  BY AppendProperties, LenProperties
<1> HIDE DEF more
<1>2. /\ \A k \in 1 .. Len(more) : k \in 1 .. Len(got) \/ k = Len(got) + 1
      /\ \A k \in 1 .. Len(got) : k \in 1 .. Len(more)
      /\ Len(got) + 1 \in 1 .. Len(more)
  BY <1>1
<1>3. \A k \in 1 .. Len(more) : (k \in 1 .. Len(got) /\ more[k] = got[k]) \/ more[k] = f
  BY <1>1, <1>2
<1>4. ToSet(more) = ToSet(got) \cup {f}
  BY <1>1, <1>2, <1>3 DEF ToSet
<1> QED
  BY <1>1, <1>3, <1>4 DEF more

\* Taking a frame.
LEMMA TakeKeepsInv ==
  ASSUME IInv, TakeFrame
  PROVE  IInv'
<1> DEFINE f == m_CircBuff[1].frame
<1>1. /\ f \in Frames /\ f < line.frame /\ f \notin damaged
      /\ received' = Append(received, f)
      /\ \A i \in 1 .. FrameLen : m_CircBuff[i] = Byte(f, i)
      /\ Rest(m_CircBuff', m_CircBuff, FrameLen)
      /\ \A k \in 1 .. Len(received) : received[k] < f
      /\ \A i \in 1 .. Len(m_CircBuff') : Real(m_CircBuff'[i]) => f < m_CircBuff'[i].frame
  BY TakenFrame
<1> HIDE DEF f
<1>2. /\ m_CircBuff \in Seq(Bytes) /\ Len(m_CircBuff) \in Nat /\ Len(m_CircBuff) <= Capacity
      /\ line \in Positions /\ received \in Seq(Frames)
      /\ UNCHANGED <<parsing, line, faults, damaged>>
  BY LineIsPosition, LenProperties DEF IInv, TypeOK, TakeFrame
<1>3. /\ m_CircBuff' \in Seq(Bytes) /\ Len(m_CircBuff') = Len(m_CircBuff) - FrameLen
      /\ \A i \in 1 .. Len(m_CircBuff') :
           i + FrameLen \in 1 .. Len(m_CircBuff) /\ m_CircBuff'[i] = m_CircBuff[i + FrameLen]
  BY <1>1 DEF Rest
<1>4. /\ received' \in Seq(Frames)
      /\ \A k \in 1 .. Len(received') :
           (k \in 1 .. Len(received) /\ received'[k] = received[k]) \/ received'[k] = f
      /\ ToSet(received') = ToSet(received) \cup {f}
  BY <1>1, <1>2, ReceivedMore
<1>5. TypeOK'
  <2>1. Len(m_CircBuff') <= Capacity
    BY <1>2, <1>3, CapacityAssumption, FrameAssumption
  <2> QED
    BY <1>2, <1>3, <1>4, <2>1 DEF IInv, TypeOK
<1>6. Stream(m_CircBuff', line, damaged) /\ Torn(m_CircBuff', line, damaged)
  BY <1>1, <1>2, RestKeepsStream, RestKeepsTorn, FrameAssumption DEF IInv
<1>7. GotInv'
  <2> SUFFICES ASSUME NEW k \in 1 .. Len(received')
               PROVE  /\ received'[k] < line.frame /\ received'[k] \notin damaged
                      /\ \A i \in 1 .. Len(m_CircBuff') :
                           Real(m_CircBuff'[i]) => received'[k] < m_CircBuff'[i].frame
    BY <1>2 DEF GotInv
  <2>1. CASE received'[k] = f
    BY <1>1, <2>1
  <2>2. CASE k \in 1 .. Len(received) /\ received'[k] = received[k]
    BY <1>3, <2>2 DEF IInv, GotInv
  <2> QED
    BY <1>4, <2>1, <2>2
<1>8. BegunInv'
  <2> SUFFICES ASSUME MagicPlaces = {}, NEW g \in Frames \ damaged,
                      g = 1 \/ g - 1 \notin damaged, g \notin ToSet(received'),
                      Earlier(Byte(g, 1), line)
               PROVE  \E i \in 1 .. Len(m_CircBuff') : m_CircBuff'[i] = Byte(g, 1)
    BY <1>2 DEF BegunInv, Begun
  <2>1. PICK j \in 1 .. Len(m_CircBuff) : m_CircBuff[j] = Byte(g, 1)
    BY <1>4 DEF IInv, BegunInv, Begun
  <2>2. j \notin 1 .. FrameLen
    <3> SUFFICES ASSUME j \in 1 .. FrameLen PROVE FALSE
      OBVIOUS
    <3>1. g = f
      BY <1>1, <2>1, ByteFields
    <3> QED
      BY <1>4, <3>1
  <2>3. j - FrameLen \in 1 .. Len(m_CircBuff') /\ (j - FrameLen) + FrameLen = j
    BY <1>2, <1>3, <2>2, FrameAssumption
  <2> QED
    BY <1>3, <2>1, <2>3
<1> QED
  BY <1>2, <1>5, <1>6, <1>7, <1>8 DEF IInv

\* Skipping a byte that is not the magic number.
LEMMA DropByteKeepsInv ==
  ASSUME IInv, DropByte
  PROVE  IInv'
<1>1. /\ Rest(m_CircBuff', m_CircBuff, 1)
      /\ Window[1] = m_CircBuff[1] /\ ~HasMagic(m_CircBuff[1])
      /\ UNCHANGED <<parsing, line, faults, received, damaged>>
  BY WindowBytes DEF DropByte, IInv
<1>2. /\ Len(m_CircBuff') = Len(m_CircBuff) - 1 /\ Len(m_CircBuff) \in Nat
      /\ \A i \in 1 .. Len(m_CircBuff') : m_CircBuff'[i] = m_CircBuff[i + 1]
  BY <1>1, LenProperties DEF Rest, IInv, TypeOK
<1>3. BegunInv'
  <2> SUFFICES ASSUME MagicPlaces = {}, NEW f \in Frames \ damaged,
                      f = 1 \/ f - 1 \notin damaged, f \notin ToSet(received),
                      Earlier(Byte(f, 1), line)
               PROVE  \E i \in 1 .. Len(m_CircBuff') : m_CircBuff'[i] = Byte(f, 1)
    BY <1>1 DEF BegunInv, Begun
  <2>1. PICK j \in 1 .. Len(m_CircBuff) : m_CircBuff[j] = Byte(f, 1)
    BY DEF IInv, BegunInv, Begun
  <2>2. j # 1
    BY <1>1, <2>1, ByteFields DEF HasMagic, Frames, NoFrame
  <2>3. j - 1 \in 1 .. Len(m_CircBuff') /\ (j - 1) + 1 = j
    BY <1>2, <2>2
  <2> QED
    BY <1>2, <2>1, <2>3
<1> QED
  BY <1>1, <1>3, EraseKeepsInv, 1 \in Nat

\* Dropping a window whose CRC does not match.  When no payload contains the magic number the
\* window begins with the first byte of a damaged frame, and the intact frames that follow an
\* intact frame begin after it.
LEMMA DropWindowKeepsInv ==
  ASSUME IInv, DropWindow
  PROVE  IInv'
<1>1. /\ Rest(m_CircBuff', m_CircBuff, FrameLen)
      /\ m_CircBuff \in Seq(Bytes) /\ Len(m_CircBuff) \in Nat /\ FrameLen <= Len(m_CircBuff)
      /\ \A i \in 1 .. FrameLen : Window[i] = m_CircBuff[i] /\ i \in 1 .. Len(m_CircBuff)
      /\ 1 \in 1 .. FrameLen
      /\ HasMagic(Window[1]) /\ ~CrcMatches(Window)
      /\ UNCHANGED <<parsing, line, faults, received, damaged>>
  BY WindowBytes DEF DropWindow, IInv
<1>2. /\ Len(m_CircBuff') = Len(m_CircBuff) - FrameLen
      /\ \A i \in 1 .. Len(m_CircBuff') : m_CircBuff'[i] = m_CircBuff[i + FrameLen]
  BY <1>1 DEF Rest
<1>3. BegunInv'
  <2> SUFFICES ASSUME MagicPlaces = {}, NEW f \in Frames \ damaged,
                      f = 1 \/ f - 1 \notin damaged, f \notin ToSet(received),
                      Earlier(Byte(f, 1), line)
               PROVE  \E i \in 1 .. Len(m_CircBuff') : m_CircBuff'[i] = Byte(f, 1)
    BY <1>1 DEF BegunInv, Begun
  <2> DEFINE g == m_CircBuff[1].frame
  <2>1. PICK j \in 1 .. Len(m_CircBuff) : m_CircBuff[j] = Byte(f, 1)
    BY DEF IInv, BegunInv, Begun
  <2>2. m_CircBuff[1] = Byte(g, 1) /\ Real(m_CircBuff[1]) /\ g \in Frames
    <3>1. m_CircBuff[1].place = 1 /\ Real(m_CircBuff[1])
      BY <1>1 DEF HasMagic, Real
    <3> QED
      BY <1>1, <3>1, BytesOfBuffer
  <2>3. g \in damaged
    <3> SUFFICES ASSUME g \notin damaged PROVE CrcMatches(Window)
      BY <1>1
    <3>1. ASSUME NEW i \in 1 .. FrameLen PROVE m_CircBuff[i] = Byte(g, i)
      <4>1. i - 1 \in 0 .. FrameLen - 1 /\ 1 + (i - 1) = i /\ 1 + (i - 1) <= Len(m_CircBuff)
        BY <1>1, FrameAssumption
      <4>2. m_CircBuff[1].place = 1
        BY <2>2, ByteFields
      <4> QED
        BY <1>1, <2>2, <4>1, <4>2 DEF IInv, Stream, Runs
    <3> QED
      BY <1>1, <2>2, <3>1 DEF CrcMatches, Real
  <2>4. j > FrameLen
    <3> SUFFICES ASSUME j <= FrameLen PROVE FALSE
      BY <1>1, FrameAssumption
    <3>1. f \in Nat /\ g \in Nat /\ g >= 1 /\ f # g /\ j # 1 /\ f # NoFrame
      BY <2>1, <2>2, <2>3, BoundAssumption, ByteFields DEF Frames, NoFrame
    <3>2. Real(m_CircBuff[j])
      BY <2>1, <3>1, ByteFields DEF Real
    <3>3. g < f
      <4>1. 1 < j
        BY <1>1, <3>1
      <4>2. Earlier(m_CircBuff[1], m_CircBuff[j])
        BY <1>1, <2>2, <3>2, <4>1 DEF IInv, Stream, InOrder
      <4> QED
        BY <2>1, <2>2, <4>2, <3>1, ByteFields DEF Earlier
    <3> DEFINE e == f - 1
    <3>4. e \in Frames \ damaged /\ e \in Nat /\ g < e /\ e < f /\ e # NoFrame
      BY <2>3, <3>1, <3>3, BoundAssumption DEF Frames, NoFrame
    <3>5. 1 \in Places /\ Earlier(m_CircBuff[1], Byte(e, 1)) /\ Earlier(Byte(e, 1), line)
      <4>1. line.frame \in Nat
        BY LineIsPosition DEF IInv, Positions
      <4> QED
        BY <1>1, <2>2, <3>1, <3>4, <4>1, ByteFields DEF Earlier, Places
    <3> HIDE DEF e
    <3>6. PICK h \in 1 .. Len(m_CircBuff) : m_CircBuff[h] = Byte(e, 1)
      BY <1>1, <2>2, <3>4, <3>5 DEF IInv, Stream, NoGap
    <3>7. Real(m_CircBuff[h]) /\ m_CircBuff[h].frame = e /\ m_CircBuff[h].place = 1
      BY <3>4, <3>6, ByteFields DEF Real
    <3>8. h < j
      <4>1. h # j
        BY <2>1, <3>4, <3>6, ByteFields
      <4>2. ~(j < h)
        <5> SUFFICES ASSUME j < h PROVE FALSE
          OBVIOUS
        <5>1. Earlier(Byte(f, 1), Byte(e, 1))
          BY <2>1, <3>2, <3>6, <3>7 DEF IInv, Stream, InOrder
        <5> QED
          BY <3>1, <3>4, <5>1, ByteFields DEF Earlier
      <4> QED
        BY <1>1, <4>1, <4>2
    <3>9. j - h \in 0 .. FrameLen - 1 /\ h + (j - h) = j /\ h + (j - h) <= Len(m_CircBuff)
      BY <1>1, <3>8, FrameAssumption
    <3>10. m_CircBuff[j] = Byte(e, 1 + (j - h))
      BY <3>4, <3>7, <3>9 DEF IInv, Stream, Runs
    <3> QED
      BY <2>1, <3>4, <3>10, ByteFields
  <2>5. j - FrameLen \in 1 .. Len(m_CircBuff') /\ (j - FrameLen) + FrameLen = j
    BY <1>1, <1>2, <2>4, FrameAssumption
  <2> QED
    BY <1>2, <2>1, <2>5
<1> QED
  BY <1>1, <1>3, EraseKeepsInv, FrameAssumption

-----------------------------------------------------------------------------
(* The theorems.                                                           *)

\* Every step keeps the invariant.
LEMMA NextKeepsInv == IInv /\ [Next]_vars => IInv'
<1> SUFFICES ASSUME IInv, [Next]_vars PROVE IInv'
  OBVIOUS
<1>1. CASE ReceiveByte
  <2>1. line \in Bytes /\ faults' \in 0 .. MaxFaults
    BY <1>1, LineIsPosition DEF ReceiveByte, OnDataReceived, IInv, TypeOK
  <2> QED
    BY <1>1, <2>1, InsertKeepsInv DEF ReceiveByte
<1>2. CASE ReceiveCorrupted
  <2> DEFINE byte == Byte(NoFrame, line.place)
  <2>1. byte \in Bytes /\ ~Real(byte)
    BY LineIsPosition DEF Bytes, Byte, Real, IInv, Positions, Places
  <2>2. faults' \in 0 .. MaxFaults
    BY <1>2, BoundAssumption DEF ReceiveCorrupted, IInv, TypeOK
  <2> HIDE DEF byte
  <2>3. OnDataReceived(byte) /\ damaged' = damaged \cup Overwritten \cup {line.frame}
    BY <1>2 DEF ReceiveCorrupted, byte
  <2> QED
    BY <2>1, <2>2, <2>3, InsertKeepsInv
<1>3. CASE LoseByte
  BY <1>3, LossKeepsInv
<1>4. CASE BeginProcessing \/ EndProcessing
  <2>1. UNCHANGED <<m_CircBuff, line, faults, received, damaged>> /\ parsing' \in BOOLEAN
    BY <1>4 DEF BeginProcessing, EndProcessing
  <2> QED
    BY <2>1 DEF IInv, TypeOK, GotInv, BegunInv
<1>5. CASE TakeFrame
  BY <1>5, TakeKeepsInv
<1>6. CASE DropWindow
  BY <1>6, DropWindowKeepsInv
<1>7. CASE DropByte
  BY <1>7, DropByteKeepsInv
<1>8. CASE UNCHANGED vars
  BY <1>8 DEF vars, IInv, TypeOK, GotInv, BegunInv
<1> QED
  BY <1>1, <1>2, <1>3, <1>4, <1>5, <1>6, <1>7, <1>8 DEF Next, ProcessReceivedFrames

\* The invariant holds.
LEMMA InvHolds == Spec => []IInv
  BY InitIsInv, NextKeepsInv, PTL DEF Spec

\* The buffer never holds more than its capacity, and everything keeps its type.
THEOREM TypeCorrect == Spec => []TypeOK
<1>1. IInv => TypeOK
  BY DEF IInv
<1> QED
  BY InvHolds, <1>1, PTL

\* A frame of which a byte was lost, corrupted or overwritten is never received, however the
\* bytes of several frames come to stand next to each other.
THEOREM DamagedFramesStayOut == Spec => []DamagedNotReceived
<1>1. IInv => DamagedNotReceived
  <2> SUFFICES ASSUME IInv, NEW f \in damaged, f \in ToSet(received) PROVE FALSE
    BY DEF DamagedNotReceived
  <2>1. DOMAIN received = 1 .. Len(received)
    BY LenProperties DEF IInv, TypeOK
  <2>2. PICK k \in 1 .. Len(received) : received[k] = f
    BY <2>1 DEF ToSet
  <2> QED
    BY <2>2 DEF IInv, GotInv
<1> QED
  BY InvHolds, <1>1, PTL

\* When no payload contains the magic number a damaged frame costs at most the frame after it:
\* what is missed is damaged or follows a damaged frame.
THEOREM RecoveryIsBounded == Spec => []RecoversAfterOneFrame
<1>1. IInv => RecoversAfterOneFrame
  <2> SUFFICES ASSUME IInv, MagicPlaces = {}, NEW f \in Missed, f \notin damaged, f - 1 \notin damaged
               PROVE  FALSE
    BY DEF RecoversAfterOneFrame
  <2>1. f \in Frames /\ f \in Nat /\ f < line.frame /\ f \notin InBuffer /\ f \notin ToSet(received)
    BY BoundAssumption DEF Missed, Passed, Frames, IInv, TypeOK
  <2>2. Earlier(Byte(f, 1), line)
    BY <2>1, ByteFields DEF Earlier
  <2>3. PICK i \in 1 .. Len(m_CircBuff) : m_CircBuff[i] = Byte(f, 1)
    BY <2>1, <2>2 DEF IInv, BegunInv, Begun
  <2> QED
    BY <2>1, <2>3, ByteFields DEF InBuffer
<1> QED
  BY InvHolds, <1>1, PTL

\* The adapter's byte stream implements a lossy FIFO of frames: whatever is lost, corrupted or
\* overwritten, frames are received in the order they were sent, each at most once.
THEOREM StreamRefinement == Spec => ImplementsLossyFifo
<1>1. Init => Fifo!Init
  BY ByteFields DEF Init, Fifo!Init
<1>2. IInv /\ [Next]_vars => [Fifo!Next]_Fifo!vars
  <2> SUFFICES ASSUME IInv, [Next]_vars
               PROVE  [Fifo!Next]_Fifo!vars
    OBVIOUS
  <2>1. ASSUME AdvanceLine, UNCHANGED received PROVE [Fifo!Next]_Fifo!vars
    <3>1. line.frame \in Nat \ {0} /\ line.place \in Places
      BY LineIsPosition DEF IInv, Positions
    <3>2. CASE line.place < FrameLen
      <4>1. line'.frame = line.frame
        BY <2>1, <3>2, ByteFields DEF AdvanceLine
      <4> QED
        BY <2>1, <4>1 DEF Fifo!vars
    <3>3. CASE ~(line.place < FrameLen)
      <4>1. line'.frame = line.frame + 1
        BY <2>1, <3>3, ByteFields DEF AdvanceLine
      <4>2. line'.frame - 1 = (line.frame - 1) + 1
        BY <3>1, <4>1
      <4> QED
        BY <2>1, <4>2 DEF Fifo!Next, Fifo!Offer
    <3> QED
      BY <3>2, <3>3
  <2>2. CASE ReceiveByte \/ ReceiveCorrupted \/ LoseByte
    BY <2>1, <2>2 DEF ReceiveByte, ReceiveCorrupted, LoseByte, OnDataReceived
  <2>3. CASE TakeFrame
    <3> DEFINE f == m_CircBuff[1].frame
    <3>1. /\ f \in Frames /\ f < line.frame /\ received' = Append(received, f)
          /\ \A k \in 1 .. Len(received) : received[k] < f
      BY <2>3, TakenFrame
    <3> HIDE DEF f
    <3>2. /\ line' = line /\ line.frame \in Nat /\ f \in Nat /\ f >= 1
          /\ received \in Seq(Frames) /\ Len(received) \in Nat
      BY <2>3, <3>1, LineIsPosition, LenProperties, BoundAssumption
      DEF TakeFrame, IInv, Positions, TypeOK, Frames
    <3>3. Fifo!LastDelivered \in Nat /\ Fifo!LastDelivered < f
      <4>1. CASE received = <<>>
        BY <3>2, <4>1 DEF Fifo!LastDelivered
      <4>2. CASE received # <<>>
        <5>1. Len(received) \in 1 .. Len(received)
          BY <3>2, <4>2, EmptySeq
        <5>2. received[Len(received)] \in Frames
          BY <3>2, <5>1, ElementOfSeq
        <5> QED
          BY <3>1, <4>2, <5>1, <5>2, BoundAssumption DEF Fifo!LastDelivered, Frames
      <4> QED
        BY <4>1, <4>2
    <3>4. f \in Fifo!LastDelivered + 1 .. line.frame - 1
      BY <3>1, <3>2, <3>3
    <3> QED
      BY <3>1, <3>2, <3>4 DEF Fifo!Next, Fifo!Deliver
  <2>4. CASE BeginProcessing \/ DropWindow \/ DropByte \/ EndProcessing
    BY <2>4 DEF BeginProcessing, DropWindow, DropByte, EndProcessing, Fifo!vars
  <2>5. CASE UNCHANGED vars
    BY <2>5 DEF vars, Fifo!vars
  <2> QED
    BY <2>2, <2>3, <2>4, <2>5 DEF Next, ProcessReceivedFrames
<1> QED
  BY InvHolds, <1>1, <1>2, PTL DEF Spec, ImplementsLossyFifo, Fifo!Spec
=============================================================================
