--------------------------- MODULE CanDeviceStm32 ---------------------------
(***************************************************************************)
(* How frames are recovered from the byte stream of the STM32 adapter:     *)
(* CanSerialPort::OnDataReceived appends to a circular buffer, and         *)
(* CanDeviceStm32::ProcessReceivedFrames, on the worker thread, cuts the   *)
(* buffer into UartCanData records.  Both run under m_RxMutex.             *)
(*                                                                         *)
(* A UartCanData is FrameLen bytes: its magic number, here one byte, then  *)
(* the identifier, the length, the payload and the CRC.  A byte is named   *)
(* by the frame it belongs to and its place in it; a corrupted byte        *)
(* belongs to no frame.  The line loses and corrupts bytes.                *)
(*                                                                         *)
(* An operator Op_Bug, before the Op it stands for, is Op with a bug: the  *)
(* properties are tested against it and nothing here uses it.              *)
(***************************************************************************)
EXTENDS Naturals, Sequences, SequencesExt

CONSTANTS
  FrameLen,     \* sizeof(UartCanData), with the magic number counted as one
  Capacity,     \* RX_CIRCBUFF_SIZE
  MagicPlaces,  \* places of a frame, besides the first, that hold the magic number
  MaxFrames,    \* bound: frames the adapter sends
  MaxFaults,    \* bound: bytes the line loses or corrupts
  MaxOutage     \* intact frames in a row that the parser may miss

ASSUME FrameAssumption == FrameLen \in Nat /\ FrameLen >= 2
ASSUME CapacityAssumption == Capacity \in Nat /\ Capacity >= FrameLen
ASSUME MagicAssumption == MagicPlaces \subseteq 2 .. FrameLen
ASSUME BoundAssumption == MaxFrames \in Nat /\ MaxFaults \in Nat /\ MaxOutage \in Nat

VARIABLES
  m_CircBuff,  \* the bytes received and not parsed, oldest first
  parsing,     \* ProcessReceivedFrames is running and owns m_RxMutex
  line,        \* the next byte the adapter sends
  faults,      \* bound: bytes lost or corrupted so far
  received,    \* history: the frames passed to AddToRxQueue, in order
  damaged      \* history: frames with a byte lost, corrupted or overwritten

vars == <<m_CircBuff, parsing, line, faults, received, damaged>>

NoFrame == 0
Frames  == 1 .. MaxFrames
Byte(frame, place) == [frame |-> frame, place |-> place]
Bytes  == [frame : Frames \cup {NoFrame}, place : 1 .. FrameLen]

\* The adapter has sent everything when the line stands before frame MaxFrames + 1.
Sending == line.frame <= MaxFrames

Init ==
  /\ m_CircBuff = <<>>
  /\ parsing = FALSE
  /\ line = Byte(1, 1)
  /\ faults = 0
  /\ received = <<>>
  /\ damaged = {}

-----------------------------------------------------------------------------
(* The line and the receive thread.                                        *)

AdvanceLine ==
  line' = IF line.place < FrameLen THEN Byte(line.frame, line.place + 1)
                                   ELSE Byte(line.frame + 1, 1)

Inserted_Grows(byte) == Append(m_CircBuff, byte)

\* A full circular buffer overwrites its oldest byte.
Inserted(byte) ==
  IF Len(m_CircBuff) < Capacity THEN Append(m_CircBuff, byte)
                                ELSE Append(Tail(m_CircBuff), byte)

Overwritten ==
  IF Len(m_CircBuff) < Capacity THEN {} ELSE {Head(m_CircBuff).frame} \ {NoFrame}

\* A chunk of bytes is inserted under one lock; bytes one by one allow the same
\* buffers at the start of ProcessReceivedFrames, and those of smaller chunks.
OnDataReceived(byte) ==
  /\ ~parsing
  /\ Sending
  /\ m_CircBuff' = Inserted(byte)
  /\ AdvanceLine
  /\ UNCHANGED <<parsing, received>>

ReceiveByte ==
  /\ OnDataReceived(line)
  /\ damaged' = damaged \cup Overwritten
  /\ UNCHANGED faults

ReceiveCorrupted ==
  /\ faults < MaxFaults
  /\ OnDataReceived(Byte(NoFrame, line.place))
  /\ damaged' = damaged \cup Overwritten \cup {line.frame}
  /\ faults' = faults + 1

LoseByte ==
  /\ Sending
  /\ faults < MaxFaults
  /\ AdvanceLine
  /\ damaged' = damaged \cup {line.frame}
  /\ faults' = faults + 1
  /\ UNCHANGED <<m_CircBuff, parsing, received>>

-----------------------------------------------------------------------------
(* ProcessReceivedFrames.                                                  *)

Window == SubSeq(m_CircBuff, 1, FrameLen)

HasMagic(byte) == byte.frame # NoFrame /\ byte.place \in {1} \cup MagicPlaces

\* A CRC over anything but one whole frame is taken not to match.
CrcMatches_Unchecked(window) == window[1].frame # NoFrame
CrcMatches(window) ==
  /\ window[1].frame # NoFrame
  /\ \A place \in 1 .. FrameLen : window[place] = Byte(window[1].frame, place)

Erased(count) == SubSeq(m_CircBuff, count + 1, Len(m_CircBuff))

BeginProcessing ==
  /\ ~parsing
  /\ parsing' = TRUE
  /\ UNCHANGED <<m_CircBuff, line, faults, received, damaged>>

MoreToParse_OffByOne == parsing /\ Len(m_CircBuff) > FrameLen
MoreToParse == parsing /\ Len(m_CircBuff) >= FrameLen

TakeFrame_KeepsBytes ==
  /\ MoreToParse
  /\ HasMagic(Window[1])
  /\ CrcMatches(Window)
  /\ received' = Append(received, Window[1].frame)
  /\ Len(received) < MaxFrames
  /\ UNCHANGED <<m_CircBuff, parsing, line, faults, damaged>>

TakeFrame ==
  /\ MoreToParse
  /\ HasMagic(Window[1])
  /\ CrcMatches(Window)
  /\ received' = Append(received, Window[1].frame)
  /\ m_CircBuff' = Erased(FrameLen)
  /\ UNCHANGED <<parsing, line, faults, damaged>>

\* The whole window goes, not only its magic number.
DropWindow ==
  /\ MoreToParse
  /\ HasMagic(Window[1])
  /\ ~CrcMatches(Window)
  /\ m_CircBuff' = Erased(FrameLen)
  /\ UNCHANGED <<parsing, line, faults, received, damaged>>

DropByte_WholeWindow ==
  /\ MoreToParse
  /\ ~HasMagic(Window[1])
  /\ m_CircBuff' = Erased(FrameLen)
  /\ UNCHANGED <<parsing, line, faults, received, damaged>>

DropByte ==
  /\ MoreToParse
  /\ ~HasMagic(Window[1])
  /\ m_CircBuff' = Erased(1)
  /\ UNCHANGED <<parsing, line, faults, received, damaged>>

EndProcessing ==
  /\ parsing
  /\ ~MoreToParse
  /\ parsing' = FALSE
  /\ UNCHANGED <<m_CircBuff, line, faults, received, damaged>>

-----------------------------------------------------------------------------
ProcessReceivedFrames ==
  BeginProcessing \/ TakeFrame \/ DropWindow \/ DropByte \/ EndProcessing

Next == ReceiveByte \/ ReceiveCorrupted \/ LoseByte \/ ProcessReceivedFrames

Spec == Init /\ [][Next]_vars

\* The worker parses again and again: it is notified of received bytes, and its
\* wait for a notification times out (CanSerialPort.tla).
FairSpec == Spec /\ WF_vars(ProcessReceivedFrames)

-----------------------------------------------------------------------------
TypeOK ==
  /\ m_CircBuff \in Seq(Bytes) /\ Len(m_CircBuff) <= Capacity
  /\ parsing \in BOOLEAN
  /\ line \in [frame : 1 .. MaxFrames + 1, place : 1 .. FrameLen]
  /\ faults \in 0 .. MaxFaults
  /\ received \in Seq(Frames)
  /\ damaged \subseteq Frames

\* The frames that were sent as a whole and left the buffer without being received.
Passed == 1 .. line.frame - 1
InBuffer == {m_CircBuff[i].frame : i \in 1 .. Len(m_CircBuff)}
Missed == {f \in Passed : f \notin InBuffer /\ f \notin ToSet(received)}

\* The parser receives frames in the order they were sent, each at most once,
\* whatever the line and the circular buffer did to the bytes.
Fifo == INSTANCE LossyFifo WITH offered <- line.frame - 1, delivered <- received
ImplementsLossyFifo == Fifo!Spec

\* Line 60: "This second nested loop is needed for recovering when invalid data is
\* received".  The parser does not stay out of step with the stream: it does not
\* miss more than MaxOutage intact frames in a row.
Recovers ==
  \A f \in Frames :
    LET row == f .. f + MaxOutage
    IN  row \subseteq Missed => row \cap damaged # {}

\* Recovering costs at most the frame that follows a damaged one, when no payload
\* contains the magic number.
RecoversAfterOneFrame ==
  MagicPlaces = {} => \A f \in Missed : f \in damaged \/ f - 1 \in damaged

\* A damaged frame is never received.
DamagedNotReceived == damaged \cap ToSet(received) = {}

\* Nothing that can be parsed stays in the buffer: an intact frame that follows an
\* intact frame is received in the end.
IntactFramesArrive ==
  \A f \in Frames : (line.frame > f) ~> (f \in ToSet(received) \cup damaged \/ f - 1 \in damaged)
=============================================================================
