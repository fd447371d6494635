----------------------------- MODULE IsoTpPoll -----------------------------
(***************************************************************************)
(* isotp_poll, the part of libs/isotp that is readable: it sends the       *)
(* consecutive frames of a message as the receiver's flow control allows,  *)
(* and gives up by the clock, which wraps around.  What starts a transfer  *)
(* and takes in the frames of the other side is as isotp.h describes it.   *)
(***************************************************************************)
EXTENDS Integers, FiniteSets

CONSTANTS
  Word,          \* isotp_user_get_ms wraps around at this number, which is even
  Timeout,       \* ISO_TP_DEFAULT_RESPONSE_TIMEOUT
  Invalid,       \* ISOTP_INVALID_BS: no limit
  BlockSizes, SeparationTimes, FramesOfAMessage

\* A pause is at most 127 ms: less than half a turn of the clock, and than the time-out.
ASSUME IsoTpAssumption ==
  /\ Word \in Nat \ {0} /\ Word % 2 = 0
  /\ Timeout \in Nat /\ Invalid \in Nat \ {0}
  /\ \A st \in SeparationTimes : st \in 0 .. Timeout /\ st < Word \div 2

VARIABLES
  ms, send_status, send_bs_remain, send_st_min, send_timer_st, send_timer_bs,
  to_send,         \* frames until send_offset reaches send_size
  receive_status, receive_timer_cr,
  granted,         \* history: frames the last flow control still allows
  gap              \* history: ticks since the last consecutive frame of the block, up to Timeout

sending   == <<send_status, send_bs_remain, send_st_min, send_timer_st, send_timer_bs, to_send,
               granted, gap>>
receiving == <<receive_status, receive_timer_cr>>
isoTpVars == <<ms, sending, receiving>>

IsoTpInit ==
  /\ ms \in 0 .. Word - 1
  /\ send_status = "idle" /\ send_bs_remain = 0 /\ send_st_min = 0 /\ to_send = 0
  /\ send_timer_st = 0 /\ send_timer_bs = 0
  /\ receive_status = "idle" /\ receive_timer_cr = 0
  /\ granted = 0 /\ gap = Timeout

In(t)  == (ms + t) % Word

(* A plausible bug: the two numbers are compared as they are. *)
IsoTpTimeAfter_Bug(a, b) == a > b
IsoTpTimeAfter(a, b)     == (b - a) % Word >= Word \div 2

Tick ==
  /\ ms' = In(1)
  /\ gap' = IF gap < Timeout THEN gap + 1 ELSE gap
  /\ UNCHANGED <<send_status, send_bs_remain, send_st_min, send_timer_st, send_timer_bs, to_send,
                 granted, receiving>>

-----------------------------------------------------------------------------
(* isotp_send and isotp_on_can_message *)
SendFirstFrame ==
  /\ send_status # "in_progress"
  /\ send_status' = "in_progress"
  /\ to_send' \in FramesOfAMessage
  /\ send_bs_remain' = 0 /\ send_st_min' = 0
  /\ send_timer_st' = ms /\ send_timer_bs' = In(Timeout)
  /\ granted' = 0
  /\ UNCHANGED <<ms, gap, receiving>>

(* A receiver answers the first frame and the last one of each block. *)
FlowControl ==
  /\ send_status = "in_progress" /\ granted = 0
  /\ send_timer_bs' = In(Timeout)
  /\ \/ UNCHANGED <<send_bs_remain, send_st_min, granted, gap>>     \* wait
     \/ \E bs \in BlockSizes, st \in SeparationTimes :
          /\ send_bs_remain' = bs /\ granted' = bs
          /\ send_st_min' = st /\ gap' = Timeout
  /\ UNCHANGED <<ms, send_status, send_timer_st, to_send, receiving>>

ReceiveFrame ==
  /\ receive_status' \in {"in_progress", "idle"}
  /\ receive_timer_cr' = In(Timeout)
  /\ UNCHANGED <<ms, sending>>

-----------------------------------------------------------------------------
(* isotp_poll *)
MaySend ==
  /\ send_bs_remain = Invalid \/ send_bs_remain > 0
  /\ send_st_min = 0 \/ IsoTpTimeAfter(ms, send_timer_st)

Remaining == IF send_bs_remain = Invalid THEN Invalid ELSE send_bs_remain - 1

SendConsecutiveFrame ==
  /\ to_send' = to_send - 1
  /\ send_bs_remain' = Remaining
  /\ send_timer_bs' = In(Timeout) /\ send_timer_st' = In(send_st_min)
  /\ send_status' = IF to_send' = 0 THEN "idle" ELSE "in_progress"
  /\ granted' = IF granted = Invalid THEN Invalid ELSE granted - 1
  /\ gap' = 0

SendFails ==
  /\ send_status' = "error"
  /\ UNCHANGED <<to_send, send_bs_remain, send_timer_bs, send_timer_st, granted, gap>>

SendTimesOut ==
  /\ send_status' = IF IsoTpTimeAfter(ms, send_timer_bs) THEN "error" ELSE send_status
  /\ UNCHANGED <<to_send, send_bs_remain, send_timer_bs, send_timer_st, granted, gap>>

ReceiveTimesOut ==
  /\ receive_status' = IF receive_status = "in_progress" /\ IsoTpTimeAfter(ms, receive_timer_cr)
                       THEN "idle" ELSE receive_status
  /\ UNCHANGED receive_timer_cr

isotp_poll ==
  /\ IF send_status # "in_progress" THEN UNCHANGED sending
     ELSE IF MaySend THEN SendConsecutiveFrame \/ SendFails ELSE SendTimesOut
  /\ ReceiveTimesOut
  /\ UNCHANGED <<ms, send_st_min>>

IsoTpNext == Tick \/ SendFirstFrame \/ FlowControl \/ ReceiveFrame \/ isotp_poll
IsoTpSpec == IsoTpInit /\ [][IsoTpNext]_isoTpVars
-----------------------------------------------------------------------------
(* The receiver is never sent more frames than its last flow control allowed, nor two of a
   block with less than the time it asked for between them, also when the clock wraps around between
   two frames (isotp.c:15, 17, isotp_defines.h IsoTpTimeAfter). *)
SenderKeepsToFlowControl ==
  [][ send_status = "in_progress" /\ to_send' # to_send =>
        granted > 0 /\ gap >= send_st_min ]_isoTpVars
=============================================================================
