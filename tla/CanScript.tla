----------------------------- MODULE CanScript -----------------------------
(***************************************************************************)
(* CanScriptHandler runs a script in a thread of its own; the receive      *)
(* thread of the CAN port tells it of every frame; the GUI starts and      *)
(* aborts it and shows its log, every 10 ms (CanScriptTab).                *)
(*                                                                         *)
(* A command is a record: op is "raw" (SetFrameFieldRaw), "field"          *)
(* (SetFrameField), "send", "wait" or "sleep".  The functions that are     *)
(* unreadable (RunScript, ExecuteScript, OnFrameOnBus, the two Set...) do  *)
(* what their declarations and WaitForFrame rely on.                       *)
(***************************************************************************)
EXTENDS Naturals, Sequences, SequencesExt

CONSTANTS Scripts, FrameIds, Values, NoFrame, NoValue, MaxFrames, MaxRuns

VARIABLES
  script,                   \* what is left of the script
  place,                    \* "idle", "next", or the place in WaitForFrame and Sleep
  m_IsAborted,
  m_WaitingFrame, m_WaitingFrameReceived, m_WaitingFrameData,
  m_FrameIDValues, raw_frame_blocks,
  m_PendingLogMessages, m_Output,
  frames,                   \* frames on the bus since the wait began, the number of all of them
  runs

scriptVars == <<script, place, m_IsAborted, m_WaitingFrame, m_WaitingFrameReceived,
                m_WaitingFrameData, m_FrameIDValues, raw_frame_blocks,
                m_PendingLogMessages, m_Output, frames, runs>>

bus  == <<m_WaitingFrameReceived, m_WaitingFrameData, frames>>
tab  == <<m_IsAborted, m_Output, runs>>
sets == <<m_FrameIDValues, raw_frame_blocks>>

ScriptInit ==
  /\ script = <<>> /\ place = "idle"
  /\ m_IsAborted = FALSE
  /\ m_WaitingFrame = NoFrame /\ m_WaitingFrameReceived = FALSE /\ m_WaitingFrameData = NoValue
  /\ m_FrameIDValues = [f \in FrameIds |-> NoValue]
  /\ raw_frame_blocks = [f \in FrameIds |-> NoValue]
  /\ m_PendingLogMessages = <<>> /\ m_Output = <<>>
  /\ frames = [seen |-> {}, count |-> 0]
  /\ runs = 0

AddToLog(message) == m_PendingLogMessages' = Append(m_PendingLogMessages, message)
Message(result, frame, value) == [run |-> runs, result |-> result, frame |-> frame, value |-> value]

-----------------------------------------------------------------------------
(* The GUI thread *)

Run ==
  /\ place = "idle" /\ runs < MaxRuns
  /\ \E s \in Scripts : script' = s
  /\ place' = "next"
  /\ runs' = runs + 1
  /\ m_Output' = <<>>
  /\ m_IsAborted' = FALSE
  /\ UNCHANGED <<bus, sets, m_WaitingFrame, m_PendingLogMessages>>

AbortRunningScript ==
  /\ place # "idle"
  /\ m_IsAborted' = TRUE
  /\ UNCHANGED <<script, place, bus, sets, m_WaitingFrame, m_PendingLogMessages, m_Output, runs>>

ClearOutput ==
  /\ m_Output # <<>>
  /\ m_Output' = <<>>
  /\ UNCHANGED <<script, place, bus, sets, m_IsAborted, m_WaitingFrame, m_PendingLogMessages, runs>>

OnLogTimer ==
  /\ m_PendingLogMessages # <<>>
  /\ m_Output' = m_Output \o m_PendingLogMessages
  /\ m_PendingLogMessages' = <<>>
  /\ UNCHANGED <<script, place, bus, sets, m_IsAborted, m_WaitingFrame, runs>>

(* The receive thread: a frame that is waited for ends the wait. *)
OnFrameOnBus ==
  /\ frames.count < MaxFrames
  /\ \E f \in FrameIds, v \in Values :
       /\ frames' = [seen |-> frames.seen \cup {<<f, v>>}, count |-> frames.count + 1]
       /\ m_WaitingFrameReceived' = (m_WaitingFrameReceived \/ f = m_WaitingFrame)
       /\ m_WaitingFrameData' = IF f = m_WaitingFrame THEN v ELSE m_WaitingFrameData
  /\ UNCHANGED <<script, place, tab, sets, m_WaitingFrame, m_PendingLogMessages>>

-----------------------------------------------------------------------------
(* The script thread *)

Command == Head(script)
Doing(op) == place = "next" /\ ~m_IsAborted /\ script # <<>> /\ Command.op = op
Done == script' = Tail(script) /\ place' = "next"

SetField ==
  /\ \/ /\ Doing("field")
        /\ m_FrameIDValues' = [m_FrameIDValues EXCEPT ![Command.frame] = Command.value]
        /\ UNCHANGED raw_frame_blocks
     \/ /\ Doing("raw")
        /\ raw_frame_blocks' = [raw_frame_blocks EXCEPT ![Command.frame] = Command.value]
        /\ UNCHANGED m_FrameIDValues
  /\ Done
  /\ UNCHANGED <<bus, tab, m_WaitingFrame, m_PendingLogMessages>>

SendFrame ==
  /\ Doing("send")
  /\ LET f == Command.frame
         v == IF m_FrameIDValues[f] # NoValue THEN m_FrameIDValues[f] ELSE raw_frame_blocks[f]
     IN AddToLog(Message(IF v = NoValue THEN "not set" ELSE "sent", f, v))
  /\ Done
  /\ UNCHANGED <<bus, tab, sets, m_WaitingFrame>>

BeginWait ==
  /\ Doing("wait")
  /\ m_WaitingFrame' = Command.frame
  /\ frames' = [frames EXCEPT !.seen = {}]
  /\ place' = "clear"
  /\ AddToLog(Message("start", Command.frame, NoValue))
  /\ UNCHANGED <<script, tab, sets, m_WaitingFrameReceived, m_WaitingFrameData>>

(* A frame that came since BeginWait is forgotten. *)
ClearReceived ==
  /\ place = "clear"
  /\ m_WaitingFrameReceived' = FALSE
  /\ place' = "wait"
  /\ UNCHANGED <<script, tab, sets, frames, m_WaitingFrame, m_WaitingFrameData, m_PendingLogMessages>>

(* A plausible bug: what the last frame held is compared, also after a timeout. *)
WaitResult_Bug ==
  IF m_IsAborted THEN "aborted"
  ELSE IF raw_frame_blocks[m_WaitingFrame] = m_WaitingFrameData THEN "ok" ELSE "invalid data"

(* wait_until returns: the predicate holds, or the time is over.  A notification that comes
   without the mutex only makes it later. *)
WaitResult ==
  IF m_WaitingFrameReceived /\ ~m_IsAborted
  THEN IF raw_frame_blocks[m_WaitingFrame] = m_WaitingFrameData THEN "ok" ELSE "invalid data"
  ELSE IF m_IsAborted THEN "aborted" ELSE "timeout"

EndWait ==
  /\ place = "wait"
  /\ AddToLog(Message(WaitResult, m_WaitingFrame, m_WaitingFrameData))
  /\ m_WaitingFrame' = NoFrame
  /\ m_WaitingFrameReceived' = FALSE
  /\ raw_frame_blocks' = [raw_frame_blocks EXCEPT ![m_WaitingFrame] = NoValue]
  /\ Done
  /\ UNCHANGED <<tab, frames, m_WaitingFrameData, m_FrameIDValues>>

Sleep ==
  /\ \/ /\ Doing("sleep")
        /\ place' = "sleep" /\ UNCHANGED script
        /\ UNCHANGED m_PendingLogMessages
     \/ /\ place = "sleep"
        /\ AddToLog(Message(IF m_IsAborted THEN "aborted" ELSE "ok", NoFrame, NoValue))
        /\ Done
  /\ UNCHANGED <<bus, tab, sets, m_WaitingFrame>>

EndScript ==
  /\ place = "next" /\ (m_IsAborted \/ script = <<>>)
  /\ place' = "idle" /\ script' = <<>>
  /\ UNCHANGED <<bus, tab, sets, m_WaitingFrame, m_PendingLogMessages>>

ScriptThread ==
  SetField \/ SendFrame \/ BeginWait \/ ClearReceived \/ EndWait \/ Sleep \/ EndScript

ScriptNext == Run \/ AbortRunningScript \/ ClearOutput \/ OnLogTimer \/ OnFrameOnBus \/ ScriptThread

ScriptSpec == ScriptInit /\ [][ScriptNext]_scriptVars
-----------------------------------------------------------------------------
(* WaitForFrame says OK, or invalid data, only of a frame that came after its wait had begun:
   never of one that an earlier wait, or nobody, has waited for (CanScriptHandler.cpp:91). *)
ResultsAreOfThisWait ==
  [][EndWait /\ WaitResult \in {"ok", "invalid data"} =>
       <<m_WaitingFrame, m_WaitingFrameData>> \in frames.seen]_scriptVars
=============================================================================
