--------------------------- MODULE CanBitMapping ---------------------------
(***************************************************************************)
(* The bit fields of a CAN frame that is sent: CanEntryHandler shows them  *)
(* as numbers (GetMapForFrameId) and writes numbers into them              *)
(* (ApplyEditingOnFrameId); CanTab opens the bit editor on them.           *)
(*                                                                         *)
(* Fields is the mapping of the frame, ordered by offset.  int has         *)
(* IntBytes bytes.  What a user types is a number or NoNumber, which       *)
(* std::stoi refuses.                                                      *)
(***************************************************************************)
EXTENDS BitFields, Sequences

CONSTANTS
  Fields, IntBytes, Frames, Texts, NoNumber, MAX_BITEDITOR_FIELDS,
  Arrays, Offsets, Counts   \* of the copies CopyIsBitwise looks at

Width == [UI8 |-> 1, I8 |-> 1, UI32 |-> IntBytes, I32 |-> IntBytes,
          UI64 |-> WordBytes, FLOAT |-> IntBytes]
SignedTypes == {"I8", "I32"}

ASSUME MappingAssumption ==
  /\ IntBytes \in 1 .. WordBytes
  /\ Fields \in Seq([offset : Nat, size : Nat, type : DOMAIN Width])
  /\ \A bytes \in Frames \cup Arrays : \E length \in 0 .. WordBytes : bytes \in Bytes(length)
  /\ NoNumber \notin Int /\ Texts \subseteq Int \cup {NoNumber}
  /\ MAX_BITEDITOR_FIELDS \in Nat /\ Offsets \subseteq Nat /\ Counts \subseteq Nat

VARIABLES
  data,      \* CanTxEntry::data
  editor,    \* is the dialog shown, and with which of the two kinds of button was it left
  info,      \* CanBitfieldInfo of the caller: the values the dialog is opened with
  inputs     \* the text of the dialog's fields

bitsVars == <<data, editor, info, inputs>>

(* static_cast to a type of so many bytes *)
Wrapped(value, bytes, signed) ==
  LET range == PowerOf2[CharBit * bytes]
      low   == value % range
  IN IF signed /\ low >= range \div 2 THEN low - range ELSE low

Cast(value, type) ==
  IF type = "FLOAT" THEN value ELSE Wrapped(value, Width[type], type \in SignedTypes)

StoiAccepts(input) ==
  LET half == PowerOf2[CharBit * IntBytes - 1] IN input # NoNumber /\ input \in -half .. half - 1

HandleBitReading(field, frame) ==
  Cast(get_bitfield(frame, field.offset, field.size), field.type)

HandleBitWriting(field, input, frame) ==
  IF StoiAccepts(input)
  THEN set_bitfield(Wrapped(Cast(input, field.type), WordBytes, FALSE),
                    field.offset, field.size, frame)
  ELSE frame

GetMapForFrameId(frame) == [k \in 1 .. Len(Fields) |-> HandleBitReading(Fields[k], frame)]

(* The types ApplyEditingOnFrameId has a case for: a field of another type is left alone and
   takes no value from new_data. *)
WrittenTypes == {"UI8", "I8", "UI32", "I32", "UI64"}

(* A plausible bug: the values are taken in the order of the last field first. *)
Position_Bug(k) == Cardinality({j \in k .. Len(Fields) : Fields[j].type \in WrittenTypes})

Position(k) == Cardinality({j \in 1 .. k : Fields[j].type \in WrittenTypes})

(* The frame, always of WordBytes bytes, after the first k fields have been written *)
Edited(frame, new_data) ==
  LET byte_array == [i \in DOMAIN Zeros(WordBytes) |->
                      IF i \in DOMAIN frame THEN frame[i] ELSE Zeros(WordBytes)[i]]
      after[k \in 0 .. Len(Fields)] ==
        IF k = 0 THEN byte_array
        ELSE IF Fields[k].type \in WrittenTypes
             THEN HandleBitWriting(Fields[k], new_data[Position(k)], after[k - 1])
        ELSE after[k - 1]
  IN after[Len(Fields)]

-----------------------------------------------------------------------------
BitsInit ==
  /\ data \in Frames
  /\ editor = "closed"
  /\ info = <<>>
  /\ inputs = <<>>

(* The dialog cuts the values of its caller to the fields it has. *)
ShowBitEditor(values) ==
  /\ info' = IF Len(values) > MAX_BITEDITOR_FIELDS THEN SubSeq(values, 1, MAX_BITEDITOR_FIELDS)
                                              ELSE values
  /\ inputs' = info'
  /\ editor' = "shown"

(* Edit bits of the menu *)
EditBits ==
  /\ editor = "closed"
  /\ ShowBitEditor(GetMapForFrameId(data))
  /\ UNCHANGED data

UserTypes ==
  /\ editor = "shown"
  /\ \E k \in 1 .. Len(Fields), text \in Texts : inputs' = [inputs EXCEPT ![k] = text]
  /\ UNCHANGED <<data, editor, info>>

(* Apply closes the dialog, and the loop opens it again on the values it had at first. *)
ClickApply ==
  /\ editor = "shown"
  /\ ShowBitEditor(info)
  /\ UNCHANGED data

(* Ok and Cancel: m_ClickType stays None and the loop ends. *)
ClickOther ==
  /\ editor = "shown"
  /\ editor' = "closed"
  /\ inputs' = <<>>
  /\ info' = <<>>
  /\ UNCHANGED data

(* bit_sel is Decimal, which ShowDialog sets and nothing changes: no input is converted. *)
GetOutput == [k \in DOMAIN inputs |-> inputs[k]]

(* For a caller that hands the output of the dialog to the handler, as CanTab does not: the
   handler reads a value for every field, fewer are undefined. *)
ApplyEditingOnFrameId ==
  /\ editor = "shown"
  /\ Len(GetOutput) = Len(Fields)
  /\ data' = Edited(data, GetOutput)
  /\ UNCHANGED <<editor, info, inputs>>

BitsNext == EditBits \/ UserTypes \/ ClickApply \/ ClickOther \/ ApplyEditingOnFrameId

BitsSpec == BitsInit /\ [][BitsNext]_bitsVars
-----------------------------------------------------------------------------
(* copy_bits copies the bits it is asked to, of the data of a frame, and changes no other, at
   every offset and length and whatever stands behind the data, where it reads (bitarray.c:23,
   73). *)
CopyIsBitwise ==
  editor = "shown" /\ inputs = info =>
    \A dest \in Arrays, n \in Counts, soff, doff \in Offsets :
      CopyFits(data, soff, n, dest, doff) =>
        IsBitwiseCopy(data, soff, n, dest, doff, copy_bits(data, soff, n, dest, doff))

(* Fields a mapping can be read and written by: of types that are written, of bits the frame
   has and no other of them *)
Extent(field) == field.offset .. field.offset + field.size - 1
FieldsAreApart(frame) ==
  \A k \in 1 .. Len(Fields) :
    /\ Fields[k].type \in WrittenTypes
    /\ Fields[k].size \in 1 .. WordBits
    /\ Extent(Fields[k]) \subseteq 0 .. Size(frame) * CharBit - 1
    /\ \A j \in 1 .. k - 1 : Extent(Fields[j]) \cap Extent(Fields[k]) = {}

FitsInto(input, field) ==
  StoiAccepts(input) /\ Wrapped(Cast(input, field.type), WordBytes, FALSE) <= bitmask(field.size)

(* Writing and reading are inverse: a field reads back as the number it was given, in its type,
   when that fits, and keeps its bits when it does not, whatever its neighbours are given
   (CanEntryHandler.cpp:53, 142 with bitarray.c:23). *)
FieldsReadBack ==
  [][ApplyEditingOnFrameId /\ FieldsAreApart(data) =>
       \A k \in 1 .. Len(Fields) :
         HandleBitReading(Fields[k], data') =
           IF FitsInto(inputs[k], Fields[k]) THEN Cast(inputs[k], Fields[k].type)
                                             ELSE HandleBitReading(Fields[k], data)]_bitsVars
=============================================================================
