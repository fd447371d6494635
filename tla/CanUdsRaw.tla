----------------------------- MODULE CanUdsRaw -----------------------------
(***************************************************************************)
(* CanUdsRawDialog::HandleFrameSending: the lines of the dialog are sent   *)
(* as ISO-TP frames, each by a std::async of its own that is given a       *)
(* pointer to byte_array, an array on the stack that every turn of the     *)
(* loop fills anew.  Assigning the next future waits for the thread of the *)
(* one before.  Answers arrive in m_UdsFrames meanwhile.                   *)
(*                                                                         *)
(* A line is Hex, NoHex (something std::async is started for although      *)
(* ConvertHexStringToBuffer refuses it, so that the array stays as it      *)
(* was), Empty (no whole byte) or Delay.  What is in the array is named by *)
(* the turn that filled it, over all clicks.                               *)
(***************************************************************************)
EXTENDS Naturals, Sequences

CONSTANTS
  Hex, NoHex, Delay, Empty, Inputs,
  Ids, Junk,            \* what is typed as an identifier: one other than 0, or Junk
  DefaultEcuId,         \* GetDefaultEcuId
  MaxSends, MaxLate     \* bounds

VARIABLES
  gui,          \* "closed", "idle", or the place of HandleFrameSending
  fields,       \* m_SenderId and m_ReceiverId
  last,         \* m_LastUdsSenderId and m_LastUdsReceiverId
  m_IsoTpResponseId,  \* of the CAN entry handler
  lines,        \* lines that are left
  byte_array,   \* the turn whose line it holds, or Stack
  turns,        \* history: turns that started a thread
  tasks,        \* asyncs whose thread has not read the array yet
  m_isotp_future,  \* the turn whose thread it waits for; 0 if none
  sent,         \* history: what SendIsoTpFrame got
  m_UdsFrames,  \* answers, each the number of the click it answers
  shown, clicks, late

ids     == <<fields, last, m_IsoTpResponseId>>
sendVars == <<byte_array, turns, tasks, m_isotp_future, sent>>
answers == <<m_UdsFrames, shown, late>>
udsVars == <<gui, ids, lines, sendVars, answers, clicks>>

Stack == 0   \* bytes of nobody: the array was not filled, or is no longer there

UdsInit ==
  /\ gui = "closed" /\ lines = <<>>
  /\ fields = [sender |-> Junk, receiver |-> Junk] /\ last = [sender |-> 0, receiver |-> 0]
  /\ m_IsoTpResponseId \in Ids
  /\ byte_array = Stack /\ turns = 0 /\ tasks = {} /\ m_isotp_future = 0 /\ sent = <<>>
  /\ m_UdsFrames = <<>> /\ shown = <<>> /\ clicks = 0 /\ late = 0

(* The fields hold what was sent last, or the defaults, also after an identifier was junk. *)
ShowDialog ==
  /\ gui = "closed"
  /\ last' = IF last.sender # 0 THEN last
             ELSE [sender |-> DefaultEcuId, receiver |-> m_IsoTpResponseId]
  /\ fields' = last'
  /\ gui' = "idle"
  /\ UNCHANGED <<m_IsoTpResponseId, lines, sendVars, answers, clicks>>

TypeId ==
  /\ gui = "idle"
  /\ \E field \in DOMAIN fields, text \in Ids \cup {Junk} :
       fields' = [fields EXCEPT ![field] = text]
  /\ UNCHANGED <<gui, last, m_IsoTpResponseId, lines, sendVars, answers, clicks>>

Cancel ==
  /\ gui = "idle" /\ gui' = "closed"
  /\ UNCHANGED <<ids, lines, sendVars, answers, clicks>>

(* GetSenderId, GetReceiverId: what std::stoi refuses is 0. *)
IdOf(text) == IF text = Junk THEN 0 ELSE text

(* The button: older answers go. *)
Send ==
  /\ gui = "idle" /\ clicks < MaxSends
  /\ lines' \in Inputs
  /\ gui' = "line"
  /\ m_UdsFrames' = <<>>
  /\ clicks' = clicks + 1
  /\ last' = [sender |-> IdOf(fields.sender), receiver |-> IdOf(fields.receiver)]
  /\ UNCHANGED <<fields, m_IsoTpResponseId, sendVars, shown, late>>

SkipLine ==
  /\ gui = "line" /\ lines # <<>> /\ Head(lines) \in {Delay, Empty}
  /\ lines' = Tail(lines)
  /\ UNCHANGED <<gui, ids, sendVars, answers, clicks>>

(* The array is filled, unless the line is no hex: reading it then finds the line before, in
   the same place on the stack, or anything.  A thread is started on it. *)
StartSending ==
  /\ gui = "line" /\ lines # <<>> /\ Head(lines) \in {Hex, NoHex}
  /\ turns' = turns + 1
  /\ byte_array' \in IF Head(lines) = Hex THEN {turns + 1} ELSE {byte_array, Stack}
  /\ tasks' = tasks \cup {[turn |-> turns + 1, click |-> clicks, holds |-> byte_array']}
  /\ lines' = Tail(lines)
  /\ gui' = "assign"
  /\ UNCHANGED <<ids, m_isotp_future, sent, answers, clicks>>

AssignFuture_NoWait ==
  /\ gui = "assign"
  /\ m_isotp_future' = turns
  /\ gui' = "sleep"
  /\ UNCHANGED <<ids, lines, byte_array, turns, tasks, sent, answers, clicks>>

(* m_isotp_future = ...: the state of the old future waits, as it is released, until the
   thread of its turn is done. *)
AssignFuture ==
  /\ gui = "assign"
  /\ \A t \in tasks : t.turn # m_isotp_future
  /\ m_isotp_future' = turns
  /\ gui' = "sleep"
  /\ UNCHANGED <<ids, lines, byte_array, turns, tasks, sent, answers, clicks>>

(* The delay between frames, which need not be long enough for the thread: the turn ends, and
   the array with it. *)
EndTurn ==
  /\ gui = "sleep" /\ gui' = "line"
  /\ UNCHANGED <<ids, lines, sendVars, answers, clicks>>

(* A thread reads the array through its pointer: what the turn under way has put there, if it
   is one of the same click, and otherwise what is left on the stack. *)
Reads(t) ==
  IF gui \in {"assign", "sleep"} /\ t.click = clicks THEN {byte_array} ELSE {byte_array, Stack}

SendIsoTpFrameGlobal ==
  /\ \E t \in tasks : \E data \in Reads(t) :
       /\ sent' = Append(sent, [turn |-> t.turn, holds |-> t.holds, data |-> data])
       /\ tasks' = tasks \ {t}
  /\ UNCHANGED <<gui, ids, lines, byte_array, turns, m_isotp_future, answers, clicks>>

(* An answer, at any time: also while the GUI thread reads them, or after it has. *)
OnAnswer ==
  /\ late < MaxLate /\ clicks > 0
  /\ \E c \in 1 .. clicks : m_UdsFrames' = Append(m_UdsFrames, c)
  /\ late' = late + 1
  /\ UNCHANGED <<gui, ids, lines, sendVars, shown, clicks>>

(* The waits are over: the answers are shown ... *)
ReadAnswers ==
  /\ gui = "line" /\ lines = <<>>
  /\ shown' = m_UdsFrames
  /\ gui' = "clear"
  /\ UNCHANGED <<ids, lines, sendVars, m_UdsFrames, late, clicks>>

(* ... and cleared, those that came since ReadAnswers with them.  The response identifier from
   before the click is set again if another one was typed; the one that was typed is not set. *)
ClearAnswers ==
  /\ gui = "clear"
  /\ m_UdsFrames' = <<>>
  /\ gui' = "idle"
  /\ UNCHANGED <<ids, lines, sendVars, shown, late, clicks>>

HandleFrameSending ==
  SkipLine \/ StartSending \/ AssignFuture \/ EndTurn \/ ReadAnswers \/ ClearAnswers

UdsNext ==
  \/ ShowDialog \/ TypeId \/ Cancel \/ Send
  \/ HandleFrameSending \/ SendIsoTpFrameGlobal \/ OnAnswer

UdsSpec == UdsInit /\ [][UdsNext]_udsVars
-----------------------------------------------------------------------------
(* What is sent for a line is what the array held as its thread was started, or the line of
   the very next turn, which may belong to the next click, or, with no turn under way, bytes of nobody;
   never a line from further on.  A line overtakes at most the one before it.  The array that
   all lines share (CanUdsRawDialog.cpp:263, 275) promises no more: only the wait of the old
   future keeps three turns from meeting. *)
LinesAreAtMostOneLate ==
  \A i \in 1 .. Len(sent) :
    /\ sent[i].data \in {sent[i].holds, sent[i].turn + 1, Stack}
    /\ \A j \in i .. Len(sent) : sent[i].turn <= sent[j].turn + 1
=============================================================================
