---------------------------- MODULE CanSerialPort ----------------------------
(***************************************************************************)
(* The CAN gateway of QustomKeyboard (CanSerialPort.cpp): any thread queues *)
(* frames with AddToTxQueue, one worker thread owns the serial port and    *)
(* drains the queue, the receive thread of the serial port wakes the       *)
(* worker up when bytes arrive, and the owner starts and stops the worker. *)
(*                                                                         *)
(* What makes it delicate is that the worker takes m_mutex only while it   *)
(* writes and while it waits: it tests, reads and pops m_TxQueue, and      *)
(* clears is_notification_pending, without it.                             *)
(*                                                                         *)
(* A frame is named by the number of the AddToTxQueue call that queued it. *)
(* Calls that queue nothing (no data, length 0) are left out: they return  *)
(* before they touch anything.                                             *)
(*                                                                         *)
(* An operator Op_Bug, before the Op it stands for, is Op with a bug: the  *)
(* properties are tested against it and nothing here uses it.              *)
(***************************************************************************)
EXTENDS Naturals, Sequences, FiniteSets, Functions

CONSTANTS
  TX_QUEUE_MAX_SIZE,  \* frames the queue holds
  MaxFrames,          \* bound: calls of AddToTxQueue
  MaxFaults,          \* bound: failures to open the port, and failures of an open port
  Removes             \* what PrepareSendDataFormat may put in is_remove

ASSUME QueueAssumption == TX_QUEUE_MAX_SIZE \in Nat \ {0}
ASSUME BoundAssumption == MaxFrames \in Nat /\ MaxFaults \in Nat
ASSUME DeviceAssumption == Removes \in SUBSET BOOLEAN

VARIABLES
  m_TxQueue,   \* the frames waiting, oldest first
  is_notification_pending,
  notified,    \* the blocked worker has been woken by notify_all
  worker,      \* where the worker thread is
  data_ptr,    \* the frame the worker read from the front of the queue
  is_remove,   \* its verdict from PrepareSendDataFormat
  popping,     \* the queue as the worker's pop() found it
  port,        \* the serial port of the worker
  rxPending,   \* m_CircBuff holds bytes that were not parsed yet
  owner,       \* Init, then DestroyWorkerThread, as the owner goes through them
  stop_requested,
  accepted,    \* history: frames queued so far
  written,     \* history: frames handed to the serial.write of a working port, in order
  wasted,      \* history: frames handed to the serial.write of a port that has failed
  overflows,   \* history: "Queue overflow" messages
  races,       \* history: AddToTxQueue calls that overlapped the worker's pop()
  faults       \* bound: port failures so far

queueVars  == <<m_TxQueue, accepted, overflows, races>>
signalVars == <<is_notification_pending, notified>>
sendVars   == <<data_ptr, is_remove, popping, written, wasted>>
portVars   == <<port, faults>>
ownerVars  == <<owner, stop_requested>>
vars == <<queueVars, signalVars, sendVars, portVars, ownerVars, worker, rxPending>>

NoFrame == 0
Frames  == 1 .. MaxFrames

WorkerPlaces ==
  {"absent", "outer", "open", "check", "wait", "deciding", "blocked", "rx",
   "send", "write", "pop", "popping", "clear", "close", "backoff", "done"}

\* The worker owns m_mutex between the test of the predicate and the moment
\* it blocks; no other thread keeps it across a step.
MutexFree == worker # "deciding"

NotifiyMainThread ==
  /\ is_notification_pending' = TRUE
  /\ notified' = (notified \/ worker = "blocked")

-----------------------------------------------------------------------------
Init ==
  /\ m_TxQueue = <<>>
  /\ is_notification_pending = FALSE
  /\ notified = FALSE
  /\ worker = "absent"
  /\ data_ptr = NoFrame
  /\ is_remove = FALSE
  /\ popping = <<>>
  /\ port = "closed"
  /\ rxPending = FALSE
  /\ owner = "created"
  /\ stop_requested = FALSE
  /\ accepted = 0
  /\ written = <<>>
  /\ wasted = 0
  /\ overflows = 0
  /\ races = 0
  /\ faults = 0

-----------------------------------------------------------------------------
(* Threads that queue frames: GUI, automatic sending, ISO-TP, scripts.     *)

Overflows_OffByOne(queue) == Len(queue) > TX_QUEUE_MAX_SIZE + 1
Overflows(queue) == Len(queue) > TX_QUEUE_MAX_SIZE

WithoutOldest_ClearsAll(queue) == <<>>
WithoutOldest(queue) == Tail(queue)

\* The whole body runs under m_mutex.  The queue is over its limit for an
\* instant only: the oldest frame goes when the newest does not fit.
AddToTxQueue ==
  /\ owner # "gone"
  /\ MutexFree
  /\ accepted < MaxFrames
  /\ accepted' = accepted + 1
  /\ LET pushed == Append(m_TxQueue, accepted + 1)
     IN  IF Overflows(pushed)
         THEN /\ m_TxQueue' = WithoutOldest(pushed)
              /\ overflows' = overflows + 1
         ELSE /\ m_TxQueue' = pushed
              /\ UNCHANGED overflows
  /\ races' = IF worker = "popping" THEN races + 1 ELSE races
  /\ NotifiyMainThread
  /\ UNCHANGED <<sendVars, portVars, ownerVars, worker, rxPending>>

(* The receive thread of the serial port, under m_RxMutex: m_mutex is not  *)
(* needed to notify.                                                       *)
OnDataReceived ==
  /\ port = "open"
  /\ rxPending' = TRUE
  /\ NotifiyMainThread
  /\ UNCHANGED <<queueVars, sendVars, portVars, ownerVars, worker>>

\* The adapter is unplugged, or a read fails: errorStatus() becomes true.
PortFails ==
  /\ port = "open"
  /\ faults < MaxFaults
  /\ port' = "error"
  /\ faults' = faults + 1
  /\ UNCHANGED <<queueVars, signalVars, sendVars, ownerVars, worker, rxPending>>

-----------------------------------------------------------------------------
(* The owner: Init, then the destructor.                                   *)

\* Init starts a worker if there is none.
StartWorker ==
  /\ owner = "created"
  /\ worker = "absent"
  /\ owner' = "running"
  /\ worker' = "outer"
  /\ UNCHANGED <<queueVars, signalVars, sendVars, portVars, rxPending, stop_requested>>

DestroyNotify ==
  /\ owner = "running"
  /\ owner' = "notified"
  /\ NotifiyMainThread
  /\ UNCHANGED <<queueVars, sendVars, portVars, worker, rxPending, stop_requested>>

\* ~jthread requests the stop, then joins.
RequestStop ==
  /\ owner = "notified"
  /\ owner' = "joining"
  /\ stop_requested' = TRUE
  /\ UNCHANGED <<queueVars, signalVars, sendVars, portVars, worker, rxPending>>

Join ==
  /\ owner = "joining"
  /\ worker = "done"
  /\ owner' = "gone"
  /\ UNCHANGED <<queueVars, signalVars, sendVars, portVars, worker, rxPending, stop_requested>>

-----------------------------------------------------------------------------
(* The worker thread.                                                      *)

Goto(from, to) == worker = from /\ worker' = to

OuterLoop ==
  /\ Goto("outer", IF stop_requested THEN "done" ELSE "open")
  /\ UNCHANGED <<queueVars, signalVars, sendVars, portVars, ownerVars, rxPending>>

OpenSerial ==
  /\ Goto("open", "check")
  /\ port' = "open"
  /\ UNCHANGED <<queueVars, signalVars, sendVars, ownerVars, rxPending, faults>>

\* The constructor of the serial port throws.
OpenThrows ==
  /\ Goto("open", "backoff")
  /\ faults < MaxFaults
  /\ faults' = faults + 1
  /\ UNCHANGED <<queueVars, signalVars, sendVars, ownerVars, rxPending, port>>

\* One second passes, or a stop cuts it short; notifications do not.
Backoff ==
  /\ Goto("backoff", "outer")
  /\ UNCHANGED <<queueVars, signalVars, sendVars, portVars, ownerVars, rxPending>>

InnerLoop_IgnoresStop ==
  /\ Goto("check", IF port = "error" THEN "close" ELSE "wait")
  /\ UNCHANGED <<queueVars, signalVars, sendVars, portVars, ownerVars, rxPending>>

InnerLoop ==
  /\ Goto("check", IF stop_requested \/ port = "error" THEN "close" ELSE "wait")
  /\ UNCHANGED <<queueVars, signalVars, sendVars, portVars, ownerVars, rxPending>>

CloseSerial_DropsQueue ==
  /\ Goto("close", "outer")
  /\ port' = "closed"
  /\ m_TxQueue' = <<>>
  /\ UNCHANGED <<signalVars, sendVars, ownerVars, rxPending, faults, accepted, overflows, races>>

CloseSerial ==
  /\ Goto("close", "outer")
  /\ port' = "closed"
  /\ UNCHANGED <<queueVars, signalVars, sendVars, ownerVars, rxPending, faults>>

\* wait_until: lock m_mutex and test the predicate ...
TestPredicate ==
  /\ Goto("wait", IF stop_requested \/ is_notification_pending THEN "rx" ELSE "deciding")
  /\ UNCHANGED <<queueVars, signalVars, sendVars, portVars, ownerVars, rxPending>>

\* ... then release it and block, unless a stop was requested meanwhile.
Block ==
  /\ Goto("deciding", IF stop_requested THEN "rx" ELSE "blocked")
  /\ notified' = FALSE
  /\ UNCHANGED <<queueVars, sendVars, portVars, ownerVars, rxPending, is_notification_pending>>

Wake ==
  /\ notified \/ stop_requested
  /\ Goto("blocked", "wait")
  /\ UNCHANGED <<queueVars, signalVars, sendVars, portVars, ownerVars, rxPending>>

Timeout_WaitsAgain ==
  /\ Goto("blocked", "wait")
  /\ UNCHANGED <<queueVars, signalVars, sendVars, portVars, ownerVars, rxPending>>

\* CAN_SERIAL_PORT_TIMEOUT: the worker goes on whatever the predicate says.
Timeout ==
  /\ Goto("blocked", "rx")
  /\ UNCHANGED <<queueVars, signalVars, sendVars, portVars, ownerVars, rxPending>>

ProcessReceivedFrames_OnlyIfNotified ==
  /\ Goto("rx", "send")
  /\ rxPending' = (rxPending /\ ~is_notification_pending)
  /\ UNCHANGED <<queueVars, signalVars, sendVars, portVars, ownerVars>>

ProcessReceivedFrames ==
  /\ Goto("rx", "send")
  /\ rxPending' = FALSE
  /\ UNCHANGED <<queueVars, signalVars, sendVars, portVars, ownerVars>>

\* empty() and front(), without the lock.  One step: a queue that was not
\* empty does not become empty before front(), and the later head is the one read.
ReadFront ==
  /\ IF m_TxQueue = <<>>
     THEN Goto("send", "clear") /\ UNCHANGED data_ptr
     ELSE Goto("send", "write") /\ data_ptr' = Head(m_TxQueue)
  /\ UNCHANGED <<queueVars, signalVars, portVars, ownerVars, rxPending, is_remove, popping, written, wasted>>

\* PrepareSendDataFormat and serial.write under m_mutex, on the copy of the
\* front the worker holds.  A device that does not remove the frame wrote
\* something else, a set-up command.  The loop does not look at errorStatus():
\* what it hands to a port that failed since line 121 goes nowhere, and is popped
\* all the same.
WriteFrame ==
  /\ Goto("write", "pop")
  /\ is_remove' \in Removes
  /\ LET reaches == is_remove' /\ port = "open"
         dead    == is_remove' /\ port # "open"
     IN  /\ written' = IF reaches THEN Append(written, data_ptr) ELSE written
         /\ wasted'  = IF dead THEN wasted + 1 ELSE wasted
  /\ UNCHANGED <<queueVars, signalVars, portVars, ownerVars, rxPending, data_ptr, popping>>

KeepFrame ==
  /\ ~is_remove
  /\ Goto("pop", "send")
  /\ data_ptr' = NoFrame
  /\ UNCHANGED <<queueVars, signalVars, portVars, ownerVars, rxPending, is_remove, popping, written, wasted>>

BeginPop ==
  /\ is_remove
  /\ Goto("pop", "popping")
  /\ popping' = m_TxQueue
  /\ UNCHANGED <<queueVars, signalVars, portVars, ownerVars, rxPending, data_ptr, is_remove, written, wasted>>

PopResults_Forgotten == {m_TxQueue}

\* pop() without the lock.  When a push overlaps it the outcome is undefined:
\* both take effect, or the pop writes back the size it read and the push is
\* undone, or (after an overflow) both pops removed the same element.
PopResults ==
  {Tail(m_TxQueue)}
    \cup (IF m_TxQueue # popping THEN {Tail(popping)} ELSE {})
    \cup (IF Head(m_TxQueue) # Head(popping) THEN {m_TxQueue} ELSE {})

EndPop ==
  /\ Goto("popping", "send")
  /\ m_TxQueue' \in PopResults
  /\ data_ptr' = NoFrame
  /\ popping' = <<>>
  /\ UNCHANGED <<signalVars, portVars, ownerVars, rxPending, is_remove, written, wasted, accepted, overflows, races>>

ClearNotification ==
  /\ Goto("clear", "check")
  /\ is_notification_pending' = FALSE
  /\ UNCHANGED <<queueVars, sendVars, portVars, ownerVars, rxPending, notified>>

-----------------------------------------------------------------------------
SendPendingCanFrames == ReadFront \/ WriteFrame \/ KeepFrame \/ BeginPop \/ EndPop

WorkerThread ==
  \/ OuterLoop \/ OpenSerial \/ OpenThrows \/ Backoff
  \/ InnerLoop \/ CloseSerial
  \/ TestPredicate \/ Block \/ Wake \/ Timeout
  \/ ProcessReceivedFrames \/ SendPendingCanFrames \/ ClearNotification

Owner == StartWorker \/ DestroyNotify \/ RequestStop \/ Join

Next == AddToTxQueue \/ OnDataReceived \/ PortFails \/ Owner \/ WorkerThread

Spec == Init /\ [][Next]_vars

(* The scheduler runs the worker and finishes a shutdown that has begun; a *)
(* device does not refuse to take a frame for ever.  Nobody has to queue   *)
(* frames, send bytes, start the worker or destroy it.                     *)
Fairness ==
  /\ WF_vars(WorkerThread)
  /\ SF_vars(WriteFrame /\ is_remove')
  /\ WF_vars(RequestStop)
  /\ WF_vars(Join)

FairSpec == Spec /\ Fairness

-----------------------------------------------------------------------------
TypeOK ==
  /\ m_TxQueue \in Seq(Frames) /\ Len(m_TxQueue) <= TX_QUEUE_MAX_SIZE
  /\ is_notification_pending \in BOOLEAN
  /\ notified \in BOOLEAN
  /\ worker \in WorkerPlaces
  /\ data_ptr \in Frames \cup {NoFrame}
  /\ is_remove \in BOOLEAN
  /\ popping \in Seq(Frames) /\ Len(popping) <= TX_QUEUE_MAX_SIZE
  /\ port \in {"closed", "open", "error"}
  /\ rxPending \in BOOLEAN
  /\ owner \in {"created", "running", "notified", "joining", "gone"}
  /\ stop_requested \in BOOLEAN
  /\ accepted \in 0 .. MaxFrames
  /\ written \in Seq(Frames)
  /\ wasted \in Nat
  /\ overflows \in 0 .. MaxFrames
  /\ races \in 0 .. MaxFrames
  /\ faults \in 0 .. MaxFaults

\* The worker never pops, and never reads the front of, an empty std::queue,
\* although AddToTxQueue may pop behind its back between the test for
\* emptiness and pop(): undefined behaviour in SendPendingCanFrames otherwise.
PopFindsAFrame ==
  worker \in {"write", "pop", "popping"} => m_TxQueue # <<>>

\* A frame that was queued, is no longer on its way and did not reach a working port.
Lost == (1 .. accepted) \ (Range(m_TxQueue) \cup Range(written) \cup {data_ptr})

\* Frames are lost in three ways only: an overflow, a push that overlapped the
\* worker's unlocked pop(), and SendPendingCanFrames going on into a port that has
\* failed.  Each costs one frame at most: what is still queued when the worker
\* notices the outage survives it, the restart of the connection, and a
\* notification that was missed.
LossIsAccounted == Cardinality(Lost) <= overflows + races + wasted

\* The transmit path is a lossy FIFO: despite the unlocked accesses no frame is
\* written twice, and none after a frame that was queued later.
Fifo == INSTANCE LossyFifo WITH offered <- accepted, delivered <- written
ImplementsLossyFifo == Fifo!Spec

\* A queued frame leaves the queue unless the port is being destroyed, although
\* its notification may be wiped out by line 140 or fall between the test of the
\* predicate and the wait: the timeout of the wait makes up for it.
EveryFrameLeaves ==
  \A f \in Frames : (f \in Range(m_TxQueue) /\ owner = "running")
                      ~> (f \notin Range(m_TxQueue) \/ stop_requested)

\* Received bytes are parsed, although their notification is sent without m_mutex.
ReceivedBytesAreParsed == rxPending ~> (~rxPending \/ stop_requested)

\* Destroying the port ends: the join of the worker is not waited for in vain,
\* wherever the worker was and whatever the port does.
DestroyEnds == (owner = "notified") ~> (owner = "gone")
=============================================================================
