------------------------- MODULE CanSerialPortProofs -------------------------
(***************************************************************************)
(* The transmit path of CanSerialPort, proved for every queue size, every  *)
(* number of frames and faults, and every kind of device: its type         *)
(* invariant, that pop() never meets an empty queue, that it is a lossy    *)
(* FIFO, and that each lost frame has a cause.                             *)
(***************************************************************************)
EXTENDS CanSerialPort, SequenceTheorems, FiniteSetTheorems, TLAPS

-----------------------------------------------------------------------------
(* Queues of frame numbers in increasing order.                            *)

Increasing(queue) ==
  \A i, j \in 1 .. Len(queue) : i < j => queue[i] < queue[j]

AllAtLeast(queue, frame) == \A i \in 1 .. Len(queue) : frame <= queue[i]
AllAtMost(queue, frame)  == \A i \in 1 .. Len(queue) : queue[i] <= frame

\* The value and the place of each element of Append(q, e), for the provers.
LEMMA AppendElements ==
  ASSUME NEW S, NEW q \in Seq(S), NEW e \in S
  PROVE  /\ Append(q, e) \in Seq(S)
         /\ Append(q, e) # <<>>
         /\ Len(Append(q, e)) = Len(q) + 1
         /\ \A i \in 1 .. Len(q) : Append(q, e)[i] = q[i]
         /\ Append(q, e)[Len(q) + 1] = e
  BY AppendProperties

\* Queueing the next number keeps a queue in order and below it.
LEMMA AppendKeepsOrder ==
  ASSUME NEW q \in Seq(Nat), NEW n \in Nat, Increasing(q), AllAtMost(q, n)
  PROVE  /\ Increasing(Append(q, n + 1))
         /\ AllAtMost(Append(q, n + 1), n + 1)
         /\ \A m \in Nat : m <= n + 1 /\ AllAtLeast(q, m) => AllAtLeast(Append(q, n + 1), m)
         /\ q # <<>> => Head(Append(q, n + 1)) = Head(q)
<1> DEFINE a == Append(q, n + 1)
<1>1. /\ Len(a) = Len(q) + 1
      /\ \A i \in 1 .. Len(q) : a[i] = q[i]
      /\ a[Len(q) + 1] = n + 1
  BY AppendElements, n + 1 \in Nat
<1>2. /\ Len(q) \in Nat
      /\ \A i \in 1 .. Len(q) : q[i] \in Nat
  BY LenProperties, ElementOfSeq
<1> HIDE DEF a
<1>3. Increasing(a)
  <2> SUFFICES ASSUME NEW i \in 1 .. Len(a), NEW j \in 1 .. Len(a), i < j
               PROVE  a[i] < a[j]
    BY DEF Increasing
  <2>1. a[i] = q[i] /\ q[i] <= n
    BY <1>1, <1>2 DEF AllAtMost
  <2>2. CASE j = Len(q) + 1
    BY <1>1, <1>2, <2>1, <2>2
  <2>3. CASE j # Len(q) + 1
    <3>1. i \in 1 .. Len(q) /\ j \in 1 .. Len(q)
      BY <1>1, <1>2, <2>3
    <3> QED BY <3>1, <1>1 DEF Increasing
  <2> QED BY <2>2, <2>3
<1>4. AllAtMost(a, n + 1)
  <2> SUFFICES ASSUME NEW i \in 1 .. Len(a)
               PROVE  a[i] <= n + 1
    BY DEF AllAtMost
  <2> QED BY <1>1, <1>2 DEF AllAtMost
<1>5. ASSUME NEW m \in Nat, m <= n + 1, AllAtLeast(q, m)
      PROVE  AllAtLeast(a, m)
  <2> SUFFICES ASSUME NEW i \in 1 .. Len(a)
               PROVE  m <= a[i]
    BY DEF AllAtLeast
  <2> QED BY <1>1, <1>2, <1>5 DEF AllAtLeast
<1>6. q # <<>> => Head(a) = Head(q)
  BY <1>1, <1>2, EmptySeq
<1> QED BY <1>3, <1>4, <1>5, <1>6 DEF a

\* Where the head of a queue stands among bounds on its elements.
LEMMA HeadBounds ==
  ASSUME NEW q \in Seq(Nat), q # <<>>, Increasing(q)
  PROVE  /\ Head(q) \in Nat
         /\ AllAtLeast(q, Head(q))
         /\ \A m \in Nat : AllAtLeast(q, m) => m <= Head(q)
         /\ \A m \in Nat : AllAtMost(q, m) => Head(q) <= m
         /\ \A m \in Nat : m <= Head(q) => AllAtLeast(q, m)
<1>1. /\ Len(q) \in Nat \ {0}
      /\ \A i \in 1 .. Len(q) : q[i] \in Nat
      /\ Head(q) = q[1]
  BY EmptySeq, ElementOfSeq
<1>2. \A i \in 1 .. Len(q) : q[1] <= q[i]
  BY <1>1 DEF Increasing
<1> QED BY <1>1, <1>2 DEF AllAtMost, AllAtLeast

\* Removing the head keeps a queue in order, and leaves what is younger.
LEMMA TailKeepsOrder ==
  ASSUME NEW q \in Seq(Nat), q # <<>>, Increasing(q)
  PROVE  /\ Tail(q) \in Seq(Nat)
         /\ Len(Tail(q)) = Len(q) - 1
         /\ Increasing(Tail(q))
         /\ AllAtLeast(Tail(q), Head(q) + 1)
         /\ \A m \in Nat : AllAtMost(q, m) => AllAtMost(Tail(q), m)
<1> DEFINE t == Tail(q)
<1>0. t \in Seq(Nat)
  BY HeadTailProperties
<1>1. /\ Len(t) = Len(q) - 1
      /\ \A i \in 1 .. Len(t) : t[i] = q[i + 1]
  BY HeadTailProperties
<1>2. /\ Len(q) \in Nat \ {0}
      /\ \A i \in 1 .. Len(q) : q[i] \in Nat
      /\ Head(q) = q[1]
  BY EmptySeq, ElementOfSeq
<1> HIDE DEF t
<1>i. \A i \in 1 .. Len(t) : i + 1 \in 2 .. Len(q) /\ t[i] = q[i + 1]
  BY <1>1, <1>2
<1>3. Increasing(t)
  <2> SUFFICES ASSUME NEW i \in 1 .. Len(t), NEW j \in 1 .. Len(t), i < j
               PROVE  q[i + 1] < q[j + 1]
    BY <1>i DEF Increasing
  <2>1. i + 1 \in 1 .. Len(q) /\ j + 1 \in 1 .. Len(q) /\ i + 1 < j + 1
    BY <1>i, <1>2
  <2> QED BY <2>1 DEF Increasing
<1>4. AllAtLeast(t, Head(q) + 1)
  <2> SUFFICES ASSUME NEW i \in 1 .. Len(t)
               PROVE  q[1] + 1 <= q[i + 1]
    BY <1>i, <1>2 DEF AllAtLeast
  <2>1. 1 \in 1 .. Len(q) /\ i + 1 \in 1 .. Len(q) /\ 1 < i + 1
    BY <1>i, <1>2
  <2>2. q[1] < q[i + 1]
    BY <2>1 DEF Increasing
  <2> QED BY <2>1, <2>2, <1>2
<1>5. ASSUME NEW m \in Nat, AllAtMost(q, m)
      PROVE  AllAtMost(t, m)
  <2> SUFFICES ASSUME NEW i \in 1 .. Len(t)
               PROVE  q[i + 1] <= m
    BY <1>i DEF AllAtMost
  <2>1. i + 1 \in 1 .. Len(q)
    BY <1>i, <1>2
  <2> QED BY <2>1, <1>5 DEF AllAtMost
<1> QED BY <1>0, <1>1, <1>3, <1>4, <1>5 DEF t

\* A lower bound may be lowered, an upper bound raised.
LEMMA BoundsWeaken ==
  ASSUME NEW q \in Seq(Nat), NEW m \in Nat, NEW n \in Nat, m <= n
  PROVE  /\ AllAtLeast(q, n) => AllAtLeast(q, m)
         /\ AllAtMost(q, m) => AllAtMost(q, n)
<1>1. \A i \in 1 .. Len(q) : q[i] \in Nat
  BY ElementOfSeq
<1> QED BY <1>1 DEF AllAtLeast, AllAtMost

-----------------------------------------------------------------------------
(* What the threads and the queue agree on.                                *)

LastWritten == Fifo!LastDelivered

\* The histories count calls of AddToTxQueue.
CountersInv ==
  /\ overflows <= accepted
  /\ races <= accepted
  /\ LastWritten <= accepted

\* The queue, and the copy an overlapped pop() may restore, list frames in the
\* order they were queued.
OrderInv ==
  /\ Increasing(m_TxQueue)
  /\ AllAtMost(m_TxQueue, accepted)
  /\ Increasing(popping)
  /\ AllAtMost(popping, accepted)

\* What the worker holds while it sends is never younger than what is queued,
\* and what is queued is younger than what was written, except for the frame that
\* was written and is about to be popped.
HandInv ==
  /\ worker = "write" => /\ LastWritten < data_ptr
                         /\ data_ptr <= accepted
                         /\ AllAtLeast(m_TxQueue, data_ptr)
  /\ worker = "pop" /\ is_remove => AllAtLeast(m_TxQueue, LastWritten)
  /\ worker = "popping" => /\ popping # <<>>
                           /\ AllAtLeast(popping, LastWritten)
                           /\ AllAtLeast(m_TxQueue, Head(popping))
  /\ worker # "popping" /\ ~(worker = "pop" /\ is_remove)
       => AllAtLeast(m_TxQueue, LastWritten + 1)

PathInv == PopFindsAFrame /\ CountersInv /\ OrderInv /\ HandInv

IInv == TypeOK /\ PathInv

-----------------------------------------------------------------------------
\* A sequence of frames is a sequence of numbers.
LEMMA FramesAreNumbers ==
  ASSUME NEW q \in Seq(Frames)
  PROVE  /\ q \in Seq(Nat)
         /\ Len(q) \in Nat
         /\ \A i \in 1 .. Len(q) : q[i] \in Frames
<1>1. Frames \subseteq Nat
  BY BoundAssumption DEF Frames
<1> QED BY <1>1, SeqMonotonic, ElementOfSeq, LenProperties

\* The last frame written is a number.
LEMMA LastWrittenNat ==
  ASSUME written \in Seq(Frames)
  PROVE  LastWritten \in Nat
BY FramesAreNumbers DEF LastWritten, Fifo!LastDelivered

\* Writing a frame makes it the last one.
LEMMA WriteMakesLast ==
  ASSUME written \in Seq(Frames), NEW f \in Frames, written' = Append(written, f)
  PROVE  LastWritten' = f
<1>1. written' # <<>> /\ Len(written') = Len(written) + 1 /\ written'[Len(written) + 1] = f
  BY AppendElements
<1> QED BY <1>1 DEF LastWritten, Fifo!LastDelivered

\* The initial state satisfies the invariant.
LEMMA InitIInv == Init => IInv
<1> SUFFICES ASSUME Init PROVE IInv
  OBVIOUS
<1> USE QueueAssumption, BoundAssumption DEF Init
<1>1. TypeOK
  <2>1. <<>> \in Seq(Frames) /\ Len(<<>>) = 0
    BY EmptySeq
  <2>2. 0 \in 0 .. MaxFrames /\ 0 \in 0 .. MaxFaults /\ 0 <= TX_QUEUE_MAX_SIZE
    OBVIOUS
  <2> QED BY <2>1, <2>2 DEF TypeOK, WorkerPlaces, NoFrame
<1>2. LastWritten = 0
  BY DEF LastWritten, Fifo!LastDelivered
<1>3. OrderInv
  BY DEF OrderInv, Increasing, AllAtMost
<1>4. HandInv
  BY DEF HandInv, AllAtLeast
<1> QED BY <1>1, <1>2, <1>3, <1>4 DEF IInv, PathInv, PopFindsAFrame, CountersInv

-----------------------------------------------------------------------------
(* Type correctness, in two parts: the data of the transmit path, and the  *)
(* control of the threads.                                                 *)

DataTypes ==
  /\ m_TxQueue \in Seq(Frames) /\ Len(m_TxQueue) <= TX_QUEUE_MAX_SIZE
  /\ data_ptr \in Frames \cup {NoFrame}
  /\ popping \in Seq(Frames) /\ Len(popping) <= TX_QUEUE_MAX_SIZE
  /\ accepted \in 0 .. MaxFrames
  /\ written \in Seq(Frames)
  /\ wasted \in Nat
  /\ overflows \in 0 .. MaxFrames
  /\ races \in 0 .. MaxFrames

ControlTypes ==
  /\ is_notification_pending \in BOOLEAN
  /\ notified \in BOOLEAN
  /\ worker \in WorkerPlaces
  /\ is_remove \in BOOLEAN
  /\ port \in {"closed", "open", "error"}
  /\ rxPending \in BOOLEAN
  /\ owner \in {"created", "running", "notified", "joining", "gone"}
  /\ stop_requested \in BOOLEAN
  /\ faults \in 0 .. MaxFaults

\* The type invariant falls into the data of the path and the control of the threads.
LEMMA TypesInTwoParts == TypeOK <=> DataTypes /\ ControlTypes
  BY DEF TypeOK, DataTypes, ControlTypes

\* A notification keeps the types of what it sets.
LEMMA NotifyTypes ==
  ASSUME NotifiyMainThread
  PROVE  is_notification_pending' \in BOOLEAN /\ notified' \in BOOLEAN
  BY Zenon DEF NotifiyMainThread

\* Threads other than the worker keep the types of the control.
LEMMA OthersControlTypes ==
  ASSUME ControlTypes, AddToTxQueue \/ OnDataReceived \/ PortFails \/ Owner
  PROVE  ControlTypes'
<1> USE BoundAssumption DEF ControlTypes, signalVars, sendVars, portVars, ownerVars
<1>1. CASE AddToTxQueue
  BY <1>1, NotifyTypes DEF AddToTxQueue
<1>2. CASE OnDataReceived
  BY <1>2, NotifyTypes DEF OnDataReceived
<1>3. CASE PortFails
  BY <1>3 DEF PortFails
<1>4. CASE StartWorker
  BY <1>4 DEF StartWorker, WorkerPlaces
<1>5. CASE DestroyNotify
  BY <1>5, NotifyTypes DEF DestroyNotify
<1>6. CASE RequestStop
  BY <1>6 DEF RequestStop
<1>7. CASE Join
  BY <1>7 DEF Join
<1> QED BY <1>1, <1>2, <1>3, <1>4, <1>5, <1>6, <1>7 DEF Owner

\* So does the worker.
LEMMA WorkerControlTypes ==
  ASSUME ControlTypes, WorkerThread
  PROVE  ControlTypes'
<1> USE BoundAssumption DEF ControlTypes, signalVars, sendVars, portVars, ownerVars, Goto, WorkerPlaces
<1>1. CASE OuterLoop \/ OpenSerial \/ OpenThrows \/ Backoff \/ InnerLoop \/ CloseSerial
  BY <1>1 DEF OuterLoop, OpenSerial, OpenThrows, Backoff, InnerLoop, CloseSerial
<1>2. CASE TestPredicate \/ Block \/ Wake
  BY <1>2 DEF TestPredicate, Block, Wake
<1>3. CASE Timeout \/ ProcessReceivedFrames \/ ClearNotification
  BY <1>3 DEF Timeout, ProcessReceivedFrames, ClearNotification
<1>4. CASE ReadFront \/ KeepFrame \/ BeginPop \/ EndPop
  BY <1>4 DEF ReadFront, KeepFrame, BeginPop, EndPop
<1>5. CASE WriteFrame
  BY <1>5, DeviceAssumption DEF WriteFrame
<1> QED BY <1>1, <1>2, <1>3, <1>4, <1>5 DEF WorkerThread, SendPendingCanFrames

-----------------------------------------------------------------------------
(* The data of the transmit path: one lemma for each action that moves it. *)

\* Steps that leave the path alone, with the worker where it was or between
\* places where it holds no frame.
LEMMA QuietStep ==
  ASSUME IInv, UNCHANGED <<queueVars, sendVars>>,
         \/ worker' = worker
         \/ {worker, worker'} \cap {"write", "pop", "popping"} = {}
  PROVE  DataTypes' /\ PathInv'
<1> USE DEF IInv, PathInv, queueVars, sendVars
<1>1. DataTypes'
  BY TypesInTwoParts DEF DataTypes
<1>2. LastWritten' = LastWritten
  BY DEF LastWritten, Fifo!LastDelivered
<1>3. PopFindsAFrame' /\ CountersInv' /\ OrderInv'
  BY <1>2 DEF PopFindsAFrame, CountersInv, OrderInv, Increasing, AllAtMost
<1>4. HandInv'
  BY <1>2 DEF HandInv, AllAtLeast
<1> QED BY <1>1, <1>3, <1>4

\* Queueing a frame: the newest goes in, the oldest may go out.
LEMMA AddStep ==
  ASSUME IInv, AddToTxQueue
  PROVE  DataTypes' /\ PathInv'
<1> DEFINE pushed == Append(m_TxQueue, accepted + 1)
<1>a. DataTypes /\ PathInv
  BY TypesInTwoParts DEF IInv
<1>b. UNCHANGED sendVars /\ worker' = worker /\ accepted' = accepted + 1
  BY DEF AddToTxQueue
<1>c. LastWritten' = LastWritten /\ LastWritten \in Nat
  BY <1>a, <1>b, LastWrittenNat DEF LastWritten, Fifo!LastDelivered, sendVars, DataTypes
<1>1. accepted \in Nat /\ accepted + 1 \in Frames /\ accepted + 1 \in 0 .. MaxFrames
  BY <1>a, BoundAssumption DEF AddToTxQueue, Frames, DataTypes
<1>2. /\ m_TxQueue \in Seq(Nat)
      /\ Len(m_TxQueue) \in Nat
      /\ Increasing(m_TxQueue)
      /\ AllAtMost(m_TxQueue, accepted)
  BY <1>a, FramesAreNumbers DEF DataTypes, PathInv, OrderInv
<1>3. /\ pushed \in Seq(Frames)
      /\ pushed # <<>>
      /\ Len(pushed) = Len(m_TxQueue) + 1
  BY <1>a, <1>1, AppendElements DEF DataTypes
<1>4. /\ Increasing(pushed)
      /\ AllAtMost(pushed, accepted + 1)
      /\ \A m \in Nat : m <= accepted + 1 /\ AllAtLeast(m_TxQueue, m) => AllAtLeast(pushed, m)
  BY <1>1, <1>2, AppendKeepsOrder
<1> HIDE DEF pushed
<1>n. pushed \in Seq(Nat)
  BY <1>3, FramesAreNumbers
<1>t. Tail(pushed) \in Seq(Frames)
  BY <1>3, HeadTailProperties
<1>5. /\ Tail(pushed) \in Seq(Nat)
      /\ Len(Tail(pushed)) = Len(m_TxQueue)
      /\ Increasing(Tail(pushed))
      /\ AllAtMost(Tail(pushed), accepted + 1)
      /\ AllAtLeast(Tail(pushed), Head(pushed) + 1)
  <2>1. /\ Tail(pushed) \in Seq(Nat)
        /\ Len(Tail(pushed)) = Len(pushed) - 1
        /\ Increasing(Tail(pushed))
        /\ \A m \in Nat : AllAtMost(pushed, m) => AllAtMost(Tail(pushed), m)
        /\ AllAtLeast(Tail(pushed), Head(pushed) + 1)
    BY <1>n, <1>3, <1>4, TailKeepsOrder
  <2> QED BY <2>1, <1>1, <1>2, <1>3, <1>4
<1>6. ASSUME NEW m \in Nat, AllAtLeast(pushed, m)
      PROVE  AllAtLeast(Tail(pushed), m)
  <2>1. Head(pushed) \in Nat /\ m <= Head(pushed)
    BY <1>n, <1>3, <1>4, <1>6, HeadBounds
  <2>2. Head(pushed) + 1 \in Nat /\ m <= Head(pushed) + 1
    BY <2>1
  <2> QED BY <2>2, <1>5, BoundsWeaken
<1>7. /\ m_TxQueue' \in Seq(Frames)
      /\ Len(m_TxQueue') <= TX_QUEUE_MAX_SIZE
      /\ m_TxQueue' # <<>>
      /\ Increasing(m_TxQueue')
      /\ AllAtMost(m_TxQueue', accepted + 1)
      /\ \A m \in Nat : m <= accepted + 1 /\ AllAtLeast(m_TxQueue, m) => AllAtLeast(m_TxQueue', m)
      /\ overflows' \in {overflows, overflows + 1}
  <2>1. CASE Overflows(pushed)
    <3>1. m_TxQueue' = Tail(pushed) /\ overflows' = overflows + 1
      BY <2>1 DEF AddToTxQueue, WithoutOldest, pushed
    <3>2. Len(m_TxQueue) = TX_QUEUE_MAX_SIZE
      BY <2>1, <1>a, <1>2, <1>3, QueueAssumption DEF Overflows, DataTypes
    <3>3. Len(Tail(pushed)) # 0
      BY <3>2, <1>5, QueueAssumption
    <3>4. Tail(pushed) # <<>>
      BY <3>3, EmptySeq
    <3> QED BY <3>1, <3>2, <3>4, <1>t, <1>4, <1>5, <1>6, QueueAssumption
  <2>2. CASE ~Overflows(pushed)
    <3>1. m_TxQueue' = pushed /\ overflows' = overflows
      BY <2>2 DEF AddToTxQueue, pushed
    <3>2. Len(pushed) <= TX_QUEUE_MAX_SIZE
      BY <2>2, <1>2, <1>3, QueueAssumption DEF Overflows
    <3> QED BY <3>1, <3>2, <1>3, <1>4
  <2> QED BY <2>1, <2>2
<1>8. races' \in {races, races + 1}
  BY DEF AddToTxQueue
<1>9. DataTypes'
  <2>1. overflows' \in 0 .. MaxFrames /\ races' \in 0 .. MaxFrames
    BY <1>a, <1>1, <1>7, <1>8, BoundAssumption DEF DataTypes, PathInv, CountersInv
  <2> QED BY <2>1, <1>a, <1>b, <1>1, <1>7 DEF DataTypes, sendVars
<1>10. PopFindsAFrame' /\ CountersInv'
  BY <1>a, <1>b, <1>c, <1>1, <1>7, <1>8 DEF PopFindsAFrame, PathInv, CountersInv, DataTypes
<1>11. OrderInv'
  <2>1. popping \in Seq(Nat) /\ popping' = popping
    BY <1>a, <1>b, FramesAreNumbers DEF DataTypes, sendVars
  <2>2. Increasing(popping) /\ AllAtMost(popping, accepted + 1)
    BY <2>1, <1>a, <1>1, BoundsWeaken DEF PathInv, OrderInv
  <2> QED BY <2>1, <2>2, <1>b, <1>7 DEF OrderInv
<1>12. HandInv'
  <2>1. /\ LastWritten <= accepted
        /\ LastWritten + 1 \in Nat
    BY <1>a, <1>c DEF PathInv, CountersInv
  <2>2. CASE worker = "write"
    <3>1. /\ LastWritten < data_ptr
          /\ data_ptr <= accepted
          /\ data_ptr \in Nat
          /\ AllAtLeast(m_TxQueue, data_ptr)
          /\ AllAtLeast(m_TxQueue, LastWritten + 1)
      BY <2>2, <1>a, BoundAssumption DEF PathInv, HandInv, DataTypes, Frames, NoFrame
    <3> QED BY <3>1, <2>1, <2>2, <1>b, <1>c, <1>1, <1>7 DEF HandInv, sendVars
  <2>3. CASE worker = "pop" /\ is_remove
    BY <2>1, <2>3, <1>a, <1>b, <1>c, <1>1, <1>7 DEF PathInv, HandInv, sendVars
  <2>4. CASE worker = "popping"
    <3>1. /\ popping # <<>>
          /\ AllAtLeast(popping, LastWritten)
          /\ AllAtLeast(m_TxQueue, Head(popping))
      BY <2>4, <1>a DEF PathInv, HandInv
    <3>2. Head(popping) \in Nat /\ Head(popping) <= accepted
      BY <3>1, <1>a, <1>1, FramesAreNumbers, HeadBounds DEF DataTypes, PathInv, OrderInv
    <3>3. AllAtLeast(m_TxQueue', Head(popping))
      BY <3>1, <3>2, <1>1, <1>7
    <3> QED BY <3>1, <3>3, <2>4, <1>b, <1>c DEF HandInv, sendVars
  <2>5. CASE worker \notin {"write", "popping"} /\ ~(worker = "pop" /\ is_remove)
    BY <2>1, <2>5, <1>a, <1>b, <1>c, <1>1, <1>7 DEF PathInv, HandInv, sendVars
  <2> QED BY <2>2, <2>3, <2>4, <2>5
<1> QED BY <1>9, <1>10, <1>11, <1>12 DEF PathInv

\* What the queue of the invariant is, as a sequence of numbers.
LEMMA QueueFacts ==
  ASSUME IInv
  PROVE  /\ DataTypes
         /\ m_TxQueue \in Seq(Nat) /\ Increasing(m_TxQueue)
         /\ popping \in Seq(Nat) /\ Increasing(popping)
         /\ accepted \in Nat
         /\ LastWritten \in Nat /\ LastWritten <= accepted
<1>1. DataTypes
  BY TypesInTwoParts DEF IInv
<1>2. m_TxQueue \in Seq(Nat) /\ popping \in Seq(Nat)
  BY <1>1, FramesAreNumbers DEF DataTypes
<1>3. LastWritten \in Nat
  BY <1>1, LastWrittenNat DEF DataTypes
<1> QED BY <1>1, <1>2, <1>3, BoundAssumption DEF DataTypes, IInv, PathInv, OrderInv, CountersInv

\* The worker takes a copy of the front.
LEMMA ReadFrontStep ==
  ASSUME IInv, ReadFront
  PROVE  DataTypes' /\ PathInv'
<1> USE QueueFacts
<1>1. CASE m_TxQueue = <<>>
  <2>1. UNCHANGED <<queueVars, sendVars>> /\ worker = "send" /\ worker' = "clear"
    BY <1>1 DEF ReadFront, Goto, sendVars
  <2> QED BY <2>1, QuietStep
<1>2. CASE m_TxQueue # <<>>
  <2>1. /\ UNCHANGED <<queueVars, is_remove, popping, written, wasted>>
        /\ worker = "send" /\ worker' = "write"
        /\ data_ptr' = Head(m_TxQueue)
    BY <1>2 DEF ReadFront, Goto
  <2>2. AllAtLeast(m_TxQueue, LastWritten + 1)
    BY <2>1 DEF IInv, PathInv, HandInv
  <2>3. Head(m_TxQueue) \in Frames
    BY <1>2, HeadTailProperties DEF DataTypes
  <2>4. /\ Head(m_TxQueue) \in Nat
        /\ LastWritten + 1 <= Head(m_TxQueue)
        /\ Head(m_TxQueue) <= accepted
        /\ AllAtLeast(m_TxQueue, Head(m_TxQueue))
    BY <1>2, <2>2, HeadBounds DEF IInv, PathInv, OrderInv
  <2>5. LastWritten' = LastWritten
    BY <2>1 DEF LastWritten, Fifo!LastDelivered
  <2>6. DataTypes'
    BY <2>1, <2>3 DEF DataTypes, queueVars
  <2>7. PopFindsAFrame' /\ CountersInv' /\ OrderInv'
    BY <1>2, <2>1, <2>5 DEF PopFindsAFrame, IInv, PathInv, CountersInv, OrderInv, queueVars
  <2>8. HandInv'
    BY <2>1, <2>2, <2>4, <2>5 DEF HandInv, queueVars
  <2> QED BY <2>6, <2>7, <2>8 DEF PathInv
<1> QED BY <1>1, <1>2

\* The worker writes the frame it holds to a working port, or to one that has failed,
\* or writes a command of the device.
LEMMA WriteFrameCases ==
  ASSUME WriteFrame, DataTypes
  PROVE  /\ UNCHANGED <<queueVars, data_ptr, popping>>
         /\ worker = "write" /\ worker' = "pop"
         /\ is_remove' \in BOOLEAN
         /\ \/ is_remove' /\ written' = Append(written, data_ptr) /\ wasted' = wasted
            \/ is_remove' /\ written' = written /\ wasted' = wasted + 1
            \/ ~is_remove' /\ written' = written /\ wasted' = wasted
<1>1. /\ UNCHANGED <<queueVars, data_ptr, popping>>
      /\ worker = "write" /\ worker' = "pop"
      /\ is_remove' \in BOOLEAN
      /\ written' = IF is_remove' /\ port = "open" THEN Append(written, data_ptr) ELSE written
      /\ wasted' = IF is_remove' /\ port # "open" THEN wasted + 1 ELSE wasted
  BY DeviceAssumption DEF WriteFrame, Goto
<1>2. CASE is_remove' /\ port = "open"
  BY <1>1, <1>2
<1>3. CASE is_remove' /\ port # "open"
  BY <1>1, <1>3
<1>4. CASE ~is_remove'
  BY <1>1, <1>4
<1> QED BY <1>1, <1>2, <1>3, <1>4

\* None of the three disturbs the order of the path.
LEMMA WriteFrameStep ==
  ASSUME IInv, WriteFrame
  PROVE  DataTypes' /\ PathInv'
<1> USE QueueFacts
<1>1. /\ UNCHANGED <<queueVars, data_ptr, popping>>
      /\ worker = "write" /\ worker' = "pop"
      /\ is_remove' \in BOOLEAN
      /\ \/ is_remove' /\ written' = Append(written, data_ptr) /\ wasted' = wasted
         \/ is_remove' /\ written' = written /\ wasted' = wasted + 1
         \/ ~is_remove' /\ written' = written /\ wasted' = wasted
  BY WriteFrameCases
<1>2. /\ LastWritten < data_ptr
      /\ data_ptr <= accepted
      /\ AllAtLeast(m_TxQueue, data_ptr)
      /\ AllAtLeast(m_TxQueue, LastWritten + 1)
  BY <1>1 DEF IInv, PathInv, HandInv
<1>3. data_ptr \in Frames
  BY <1>2 DEF DataTypes, NoFrame
<1>4. PopFindsAFrame' /\ OrderInv'
  BY <1>1 DEF PopFindsAFrame, OrderInv, IInv, PathInv, queueVars
<1>5. CASE written' = Append(written, data_ptr) /\ wasted' = wasted
  <2>1. Append(written, data_ptr) \in Seq(Frames)
    BY <1>3, AppendElements DEF DataTypes
  <2>2. LastWritten' = data_ptr
    BY <1>1, <1>3, <1>5, WriteMakesLast DEF DataTypes
  <2>3. DataTypes'
    BY <1>1, <1>5, <2>1 DEF DataTypes, queueVars
  <2>4. CountersInv'
    BY <1>1, <1>2, <2>2 DEF CountersInv, IInv, PathInv, queueVars
  <2>5. HandInv'
    BY <1>1, <1>2, <1>5, <2>2 DEF HandInv, queueVars
  <2> QED BY <1>4, <2>3, <2>4, <2>5 DEF PathInv
<1>6. CASE written' = written /\ wasted' \in {wasted, wasted + 1}
  <2>1. LastWritten' = LastWritten
    BY <1>1, <1>6 DEF LastWritten, Fifo!LastDelivered
  <2>2. DataTypes'
    BY <1>1, <1>6 DEF DataTypes, queueVars
  <2>3. CountersInv'
    BY <1>1, <2>1 DEF CountersInv, IInv, PathInv, queueVars
  <2>4. AllAtLeast(m_TxQueue, LastWritten)
    BY <1>2, BoundsWeaken, LastWritten + 1 \in Nat, LastWritten <= LastWritten + 1
  <2>5. HandInv'
    BY <1>1, <1>2, <1>6, <2>1, <2>4 DEF HandInv, queueVars
  <2> QED BY <1>4, <2>2, <2>3, <2>5 DEF PathInv
<1> QED BY <1>1, <1>5, <1>6

\* The device keeps the frame, or the worker begins to pop it.
LEMMA BeginPopStep ==
  ASSUME IInv, KeepFrame \/ BeginPop
  PROVE  DataTypes' /\ PathInv'
<1> USE QueueFacts
<1>1. UNCHANGED <<queueVars, is_remove, written, wasted>> /\ worker = "pop"
  BY DEF KeepFrame, BeginPop, Goto
<1>2. LastWritten' = LastWritten
  BY <1>1 DEF LastWritten, Fifo!LastDelivered
<1>3. m_TxQueue # <<>> /\ CountersInv'
  BY <1>1, <1>2 DEF IInv, PathInv, PopFindsAFrame, CountersInv, queueVars
<1>4. CASE KeepFrame
  <2>1. worker' = "send" /\ ~is_remove /\ data_ptr' = NoFrame /\ popping' = popping
    BY <1>4 DEF KeepFrame, Goto
  <2>2. DataTypes' /\ OrderInv'
    BY <1>1, <2>1 DEF DataTypes, OrderInv, IInv, PathInv, queueVars
  <2>3. HandInv' /\ PopFindsAFrame'
    BY <1>1, <1>2, <2>1 DEF HandInv, PopFindsAFrame, IInv, PathInv, queueVars
  <2> QED BY <1>3, <2>2, <2>3 DEF PathInv
<1>5. CASE BeginPop
  <2>1. worker' = "popping" /\ is_remove /\ data_ptr' = data_ptr /\ popping' = m_TxQueue
    BY <1>5 DEF BeginPop, Goto
  <2>2. DataTypes' /\ OrderInv'
    BY <1>1, <2>1 DEF DataTypes, OrderInv, IInv, PathInv, queueVars
  <2>3. AllAtLeast(m_TxQueue, LastWritten)
    BY <1>1, <2>1 DEF IInv, PathInv, HandInv
  <2>4. AllAtLeast(m_TxQueue, Head(m_TxQueue))
    BY <1>3, HeadBounds
  <2>5. HandInv' /\ PopFindsAFrame'
    BY <1>1, <1>2, <1>3, <2>1, <2>3, <2>4 DEF HandInv, PopFindsAFrame, queueVars
  <2> QED BY <1>3, <2>2, <2>5 DEF PathInv
<1> QED BY <1>4, <1>5

\* Whatever an overlapped pop() leaves is in order, and younger than what was
\* written.
LEMMA PopResultsInOrder ==
  ASSUME IInv, worker = "popping", NEW q \in PopResults
  PROVE  /\ q \in Seq(Frames)
         /\ Len(q) <= TX_QUEUE_MAX_SIZE
         /\ Increasing(q)
         /\ AllAtMost(q, accepted)
         /\ AllAtLeast(q, LastWritten + 1)
<1> USE QueueFacts
<1>1. /\ m_TxQueue # <<>> /\ popping # <<>>
      /\ AllAtMost(m_TxQueue, accepted) /\ AllAtMost(popping, accepted)
      /\ AllAtLeast(popping, LastWritten)
      /\ AllAtLeast(m_TxQueue, Head(popping))
  BY DEF IInv, PathInv, PopFindsAFrame, OrderInv, HandInv
<1>2. /\ Head(popping) \in Nat /\ LastWritten <= Head(popping)
      /\ Head(m_TxQueue) \in Nat /\ Head(popping) <= Head(m_TxQueue)
  BY <1>1, HeadBounds
<1>3. ASSUME NEW t \in {m_TxQueue, popping}
      PROVE  /\ Tail(t) \in Seq(Frames)
             /\ Len(Tail(t)) <= TX_QUEUE_MAX_SIZE
             /\ Increasing(Tail(t))
             /\ AllAtMost(Tail(t), accepted)
             /\ AllAtLeast(Tail(t), LastWritten + 1)
  <2>1. /\ t \in Seq(Nat) /\ t \in Seq(Frames) /\ t # <<>> /\ Increasing(t)
        /\ AllAtMost(t, accepted) /\ Len(t) <= TX_QUEUE_MAX_SIZE
        /\ Head(t) \in Nat /\ LastWritten <= Head(t)
    BY <1>1, <1>2 DEF DataTypes
  <2>2. Tail(t) \in Seq(Frames)
    BY <2>1, HeadTailProperties
  <2>3. /\ Tail(t) \in Seq(Nat)
        /\ Len(Tail(t)) = Len(t) - 1
        /\ Increasing(Tail(t))
        /\ AllAtMost(Tail(t), accepted)
        /\ AllAtLeast(Tail(t), Head(t) + 1)
    BY <2>1, TailKeepsOrder
  <2>4. AllAtLeast(Tail(t), LastWritten + 1)
    BY <2>1, <2>3, BoundsWeaken, LastWritten + 1 \in Nat, Head(t) + 1 \in Nat,
       LastWritten + 1 <= Head(t) + 1
  <2>5. Len(t) \in Nat
    BY <2>1, LenProperties
  <2> QED BY <2>1, <2>2, <2>3, <2>4, <2>5, QueueAssumption
<1>4. CASE Head(m_TxQueue) # Head(popping) /\ q = m_TxQueue
  <2>1. LastWritten + 1 \in Nat /\ LastWritten + 1 <= Head(m_TxQueue)
    BY <1>2, <1>4
  <2>2. AllAtLeast(m_TxQueue, LastWritten + 1)
    BY <1>1, <2>1, HeadBounds
  <2> QED BY <1>1, <1>4, <2>2 DEF DataTypes
<1>5. \/ q = Tail(m_TxQueue) \/ q = Tail(popping)
      \/ Head(m_TxQueue) # Head(popping) /\ q = m_TxQueue
  BY DEF PopResults
<1> QED BY <1>3, <1>4, <1>5

\* The worker ends its pop.
LEMMA EndPopStep ==
  ASSUME IInv, EndPop
  PROVE  DataTypes' /\ PathInv'
<1> USE QueueFacts
<1>1. /\ UNCHANGED <<is_remove, written, wasted, accepted, overflows, races>>
      /\ worker = "popping" /\ worker' = "send"
      /\ data_ptr' = NoFrame /\ popping' = <<>>
      /\ m_TxQueue' \in PopResults
  BY DEF EndPop, Goto
<1>2. /\ m_TxQueue' \in Seq(Frames)
      /\ Len(m_TxQueue') <= TX_QUEUE_MAX_SIZE
      /\ Increasing(m_TxQueue')
      /\ AllAtMost(m_TxQueue', accepted)
      /\ AllAtLeast(m_TxQueue', LastWritten + 1)
  BY <1>1, PopResultsInOrder
<1>3. /\ <<>> \in Seq(Frames) /\ Len(<<>>) = 0
      /\ Increasing(<<>>) /\ AllAtMost(<<>>, accepted)
  BY EmptySeq DEF Increasing, AllAtMost
<1>4. LastWritten' = LastWritten
  BY <1>1 DEF LastWritten, Fifo!LastDelivered
<1>5. DataTypes'
  BY <1>1, <1>2, <1>3, QueueAssumption DEF DataTypes
<1>6. PopFindsAFrame' /\ CountersInv' /\ OrderInv'
  BY <1>1, <1>2, <1>3, <1>4 DEF PopFindsAFrame, CountersInv, OrderInv, IInv, PathInv
<1>7. HandInv'
  BY <1>1, <1>2, <1>4 DEF HandInv
<1> QED BY <1>5, <1>6, <1>7 DEF PathInv
-----------------------------------------------------------------------------
\* The invariant is inductive.
LEMMA IInvStep == IInv /\ [Next]_vars => IInv'
<1> SUFFICES ASSUME IInv, [Next]_vars
             PROVE  IInv'
  OBVIOUS
<1>1. ControlTypes'
  <2>1. ControlTypes
    BY TypesInTwoParts DEF IInv
  <2>2. CASE UNCHANGED vars
    BY <2>1, <2>2 DEF ControlTypes, vars, signalVars, sendVars, portVars, ownerVars
  <2> QED BY <2>1, <2>2, OthersControlTypes, WorkerControlTypes DEF Next
<1>2. DataTypes' /\ PathInv'
  <2>1. CASE AddToTxQueue
    BY <2>1, AddStep
  <2>2. CASE OnDataReceived \/ PortFails \/ DestroyNotify \/ RequestStop \/ Join
    <3>1. UNCHANGED <<queueVars, sendVars>> /\ worker' = worker
      BY <2>2 DEF OnDataReceived, PortFails, DestroyNotify, RequestStop, Join
    <3> QED BY <3>1, QuietStep
  <2>3. CASE StartWorker
    <3>1. UNCHANGED <<queueVars, sendVars>> /\ worker = "absent" /\ worker' = "outer"
      BY <2>3 DEF StartWorker
    <3> QED BY <3>1, QuietStep
  <2>4. CASE OuterLoop \/ OpenSerial \/ OpenThrows \/ Backoff \/ InnerLoop \/ CloseSerial
    <3>1. /\ UNCHANGED <<queueVars, sendVars>>
          /\ {worker, worker'} \cap {"write", "pop", "popping"} = {}
      BY <2>4 DEF OuterLoop, OpenSerial, OpenThrows, Backoff, InnerLoop, CloseSerial, Goto
    <3> QED BY <3>1, QuietStep
  <2>5. CASE TestPredicate \/ Block \/ Wake \/ Timeout \/ ProcessReceivedFrames \/ ClearNotification
    <3>1. /\ UNCHANGED <<queueVars, sendVars>>
          /\ {worker, worker'} \cap {"write", "pop", "popping"} = {}
      BY <2>5 DEF TestPredicate, Block, Wake, Timeout, ProcessReceivedFrames, ClearNotification, Goto
    <3> QED BY <3>1, QuietStep
  <2>6. CASE SendPendingCanFrames
    BY <2>6, ReadFrontStep, WriteFrameStep, BeginPopStep, EndPopStep DEF SendPendingCanFrames
  <2>7. CASE UNCHANGED vars
    <3>1. UNCHANGED <<queueVars, sendVars>> /\ worker' = worker
      BY <2>7 DEF vars
    <3> QED BY <3>1, QuietStep
  <2> QED BY <2>1, <2>2, <2>3, <2>4, <2>5, <2>6, <2>7 DEF Next, Owner, WorkerThread
<1>3. TypeOK'
  BY <1>1, <1>2 DEF TypeOK, DataTypes, ControlTypes
<1> QED BY <1>2, <1>3 DEF IInv

\* The invariant holds in every reachable state.
THEOREM Invariant == Spec => []IInv
  BY InitIInv, IInvStep, PTL DEF Spec

\* Every variable of CanSerialPort keeps its type: in particular the queue never
\* holds more than TX_QUEUE_MAX_SIZE frames outside AddToTxQueue.
THEOREM TypeCorrectness == Spec => []TypeOK
<1>1. IInv => TypeOK
  BY DEF IInv
<1> QED BY Invariant, <1>1, PTL

\* The unlocked SendPendingCanFrames never reads the front of, and never pops, an
\* empty std::queue, whatever AddToTxQueue removes behind its back.
THEOREM NeverPopsEmpty == Spec => []PopFindsAFrame
<1>1. IInv => PopFindsAFrame
  BY DEF IInv, PathInv
<1> QED BY Invariant, <1>1, PTL

\* CanSerialPort implements the lossy FIFO: each of its steps queues the next
\* frame, hands a later frame than all before to the serial port, or neither.
THEOREM Refinement == Spec => ImplementsLossyFifo
<1>1. Init => Fifo!Init
  BY DEF Init, Fifo!Init
<1>2. IInv /\ [Next]_vars => [Fifo!Next]_Fifo!vars
  <2> SUFFICES ASSUME IInv, [Next]_vars
               PROVE  [Fifo!Next]_Fifo!vars
    OBVIOUS
  <2> USE DEF queueVars, sendVars
  <2>1. CASE AddToTxQueue
    BY <2>1 DEF AddToTxQueue, Fifo!Next, Fifo!Offer
  <2>2. CASE WriteFrame
    <3>1. /\ accepted' = accepted
          /\ written' = Append(written, data_ptr) \/ written' = written
      BY <2>2, QueueFacts, WriteFrameCases
    <3>2. LastWritten < data_ptr /\ data_ptr <= accepted
      BY <2>2 DEF WriteFrame, Goto, IInv, PathInv, HandInv
    <3>3. data_ptr \in LastWritten + 1 .. accepted
      BY <3>2, QueueFacts, BoundAssumption DEF DataTypes, Frames, NoFrame
    <3>4. CASE written' = Append(written, data_ptr)
      BY <3>1, <3>3, <3>4 DEF Fifo!Next, Fifo!Deliver, LastWritten
    <3>5. CASE written' = written
      BY <3>1, <3>5 DEF Fifo!vars
    <3> QED BY <3>1, <3>4, <3>5
  <2>3. CASE OnDataReceived \/ PortFails \/ Owner \/ ReadFront \/ KeepFrame \/ BeginPop \/ EndPop
    BY <2>3 DEF OnDataReceived, PortFails, Owner, StartWorker, DestroyNotify, RequestStop, Join,
                ReadFront, KeepFrame, BeginPop, EndPop, Fifo!vars
  <2>4. CASE OuterLoop \/ OpenSerial \/ OpenThrows \/ Backoff \/ InnerLoop \/ CloseSerial
    BY <2>4 DEF OuterLoop, OpenSerial, OpenThrows, Backoff, InnerLoop, CloseSerial, Fifo!vars
  <2>5. CASE TestPredicate \/ Block \/ Wake \/ Timeout \/ ProcessReceivedFrames \/ ClearNotification
    BY <2>5 DEF TestPredicate, Block, Wake, Timeout, ProcessReceivedFrames, ClearNotification, Fifo!vars
  <2>6. CASE UNCHANGED vars
    BY <2>6 DEF vars, Fifo!vars
  <2> QED BY <2>1, <2>2, <2>3, <2>4, <2>5, <2>6 DEF Next, WorkerThread, SendPendingCanFrames
<1> QED BY Invariant, <1>1, <1>2, PTL DEF Spec, ImplementsLossyFifo, Fifo!Spec

-----------------------------------------------------------------------------
(* Lost frames.  A frame that the worker holds may have left the queue by  *)
(* an overflow, and is charged to it although it is still going to be      *)
(* written; the pop that follows then takes a frame that nobody wrote.     *)
(* What counts while the worker is about to pop is therefore the queue     *)
(* that the pop leaves.                                                    *)

\* The frames that are gone if the queue is `queue`, the one in hand included.
Missing(queue, gone, n) == (1 .. n) \ (Range(queue) \cup Range(gone))
Covered(queue) == Cardinality(Missing(queue, written, accepted)) <= overflows + races + wasted

LossInv ==
  /\ AllAtMost(written, LastWritten)
  /\ Covered(m_TxQueue)
  /\ worker = "pop" /\ is_remove => Covered(Tail(m_TxQueue))
  /\ worker = "popping" => Covered(Tail(m_TxQueue)) /\ Covered(Tail(popping))

\* What a set has to do with one that lacks, or exchanges, one element.
LEMMA OneElement ==
  ASSUME NEW S, IsFiniteSet(S), NEW T, NEW x, NEW y
  PROVE  /\ Cardinality(S) \in Nat
         /\ T \subseteq S => Cardinality(T) \in Nat /\ Cardinality(T) <= Cardinality(S)
         /\ T \subseteq S \cup {x} => Cardinality(T) \in Nat /\ Cardinality(T) <= Cardinality(S) + 1
         /\ y \in S /\ T \subseteq (S \ {y}) \cup {x}
              => Cardinality(T) \in Nat /\ Cardinality(T) <= Cardinality(S)
<1>1. Cardinality(S) \in Nat
  BY FS_CardinalityType
<1>2. ASSUME T \subseteq S PROVE Cardinality(T) \in Nat /\ Cardinality(T) <= Cardinality(S)
  BY <1>2, FS_Subset, FS_CardinalityType
<1>3. ASSUME T \subseteq S \cup {x}
      PROVE  Cardinality(T) \in Nat /\ Cardinality(T) <= Cardinality(S) + 1
  <2>1. IsFiniteSet(S \cup {x}) /\ Cardinality(S \cup {x}) <= Cardinality(S) + 1
    BY <1>1, FS_AddElement
  <2>2. /\ IsFiniteSet(T) /\ Cardinality(T) <= Cardinality(S \cup {x})
        /\ Cardinality(T) \in Nat /\ Cardinality(S \cup {x}) \in Nat
    BY <1>3, <2>1, FS_Subset, FS_CardinalityType
  <2> QED BY <1>1, <2>1, <2>2
<1>4. ASSUME y \in S, T \subseteq (S \ {y}) \cup {x}
      PROVE  Cardinality(T) \in Nat /\ Cardinality(T) <= Cardinality(S)
  <2> DEFINE R == S \ {y}
  <2>1. IsFiniteSet(R) /\ Cardinality(R) = Cardinality(S) - 1
    BY <1>4, FS_RemoveElement
  <2>2. IsFiniteSet(R \cup {x}) /\ Cardinality(R \cup {x}) <= Cardinality(S)
    <3>1. /\ IsFiniteSet(R \cup {x})
          /\ Cardinality(R \cup {x}) = IF x \in R THEN Cardinality(R) ELSE Cardinality(R) + 1
      BY <2>1, FS_AddElement
    <3> QED BY <1>1, <2>1, <3>1
  <2>3. /\ IsFiniteSet(T) /\ Cardinality(T) <= Cardinality(R \cup {x})
        /\ Cardinality(T) \in Nat /\ Cardinality(R \cup {x}) \in Nat
    BY <1>4, <2>2, FS_Subset, FS_CardinalityType
  <2> QED BY <1>1, <2>2, <2>3
<1> QED BY <1>1, <1>2, <1>3, <1>4

\* What is in a queue after Append and Tail.
LEMMA RangeOfQueues ==
  ASSUME NEW q \in Seq(Frames), NEW f \in Frames
  PROVE  /\ Range(Append(q, f)) = Range(q) \cup {f}
         /\ q # <<>> => Range(q) = {Head(q)} \cup Range(Tail(q))
<1>1. Range(Append(q, f)) = Range(q) \cup {f}
  <2>1. /\ Append(q, f) \in Seq(Frames)
        /\ DOMAIN Append(q, f) = 1 .. Len(q) + 1 /\ DOMAIN q = 1 .. Len(q) /\ Len(q) \in Nat
        /\ \A i \in 1 .. Len(q) : Append(q, f)[i] = q[i]
        /\ Append(q, f)[Len(q) + 1] = f
    BY AppendElements, LenProperties
  <2>2. 1 .. Len(q) + 1 = (1 .. Len(q)) \cup {Len(q) + 1}
    BY <2>1
  <2> HIDE DEF Append
  <2> QED BY <2>1, <2>2 DEF Range
<1>2. ASSUME q # <<>> PROVE Range(q) = {Head(q)} \cup Range(Tail(q))
  <2> DEFINE t == Tail(q)
  <2>1. /\ Len(q) \in Nat \ {0} /\ DOMAIN q = 1 .. Len(q)
        /\ DOMAIN t = 1 .. Len(q) - 1
        /\ \A i \in 1 .. Len(q) - 1 : t[i] = q[i + 1]
        /\ Head(q) = q[1]
    BY <1>2, EmptySeq, LenProperties, HeadTailProperties
  <2> HIDE DEF t
  <2>2. ASSUME NEW i \in 1 .. Len(q) PROVE q[i] \in {Head(q)} \cup Range(t)
    <3>1. CASE i = 1
      BY <3>1, <2>1
    <3>2. CASE i # 1
      <4>1. i - 1 \in 1 .. Len(q) - 1 /\ (i - 1) + 1 = i
        BY <3>2, <2>1
      <4> QED BY <4>1, <2>1 DEF Range
    <3> QED BY <3>1, <3>2
  <2>3. ASSUME NEW i \in 1 .. Len(q) - 1 PROVE t[i] \in Range(q)
    <3>1. i + 1 \in 1 .. Len(q)
      BY <2>1
    <3> QED BY <3>1, <2>1 DEF Range
  <2>4. q[1] \in Range(q)
    BY <2>1 DEF Range
  <2> QED BY <2>1, <2>2, <2>3, <2>4 DEF Range, t
<1> QED BY <1>1, <1>2

\* The frames that are missing are finitely many.
LEMMA MissingIsFinite ==
  ASSUME NEW n \in Nat, NEW q, NEW w
  PROVE  IsFiniteSet(Missing(q, w, n)) /\ Cardinality(Missing(q, w, n)) \in Nat
<1>1. IsFiniteSet(1 .. n)
  BY FS_Interval
<1>2. Missing(q, w, n) \in SUBSET (1 .. n)
  BY DEF Missing
<1> QED BY <1>1, <1>2, FS_Subset, FS_CardinalityType

\* Queueing behind a queue that is not empty does not touch what is before.
LEMMA TailOfAppend ==
  ASSUME NEW q \in Seq(Frames), q # <<>>, NEW f \in Frames
  PROVE  Tail(q) \in Seq(Frames) /\ Tail(Append(q, f)) = Append(Tail(q), f)
  OBVIOUS

\* Queueing frame n + 1 makes r of q: what it costs, at most one frame, is charged.
LEMMA QueueingIsCharged ==
  ASSUME NEW n \in Nat, NEW q, NEW r, NEW w, NEW x, NEW c \in Nat, NEW d \in Nat,
         Cardinality(Missing(q, w, n)) <= c,
         \/ Range(q) \cup {n + 1} \subseteq Range(r) /\ c <= d
         \/ Range(q) \cup {n + 1} \subseteq Range(r) \cup {x} /\ c + 1 <= d
  PROVE  Cardinality(Missing(r, w, n + 1)) <= d
<1> DEFINE M == Missing(q, w, n)
           N == Missing(r, w, n + 1)
<1>1. IsFiniteSet(M) /\ Cardinality(M) \in Nat /\ Cardinality(M) <= c
  BY MissingIsFinite
<1>2. 1 .. n + 1 = (1 .. n) \cup {n + 1}
  OBVIOUS
<1>3. CASE Range(q) \cup {n + 1} \subseteq Range(r) /\ c <= d
  <2>1. N \subseteq M
    BY <1>2, <1>3 DEF Missing
  <2> HIDE DEF M, N
  <2>2. Cardinality(N) \in Nat /\ Cardinality(N) <= Cardinality(M)
    BY <1>1, <2>1, OneElement
  <2>3. Cardinality(N) <= d
    BY <1>1, <1>3, <2>2
  <2> QED BY <2>3 DEF N
<1>4. CASE Range(q) \cup {n + 1} \subseteq Range(r) \cup {x} /\ c + 1 <= d
  <2>1. N \subseteq M \cup {x}
    BY <1>2, <1>4 DEF Missing
  <2> HIDE DEF M, N
  <2>2. Cardinality(N) \in Nat /\ Cardinality(N) <= Cardinality(M) + 1
    BY <1>1, <2>1, OneElement
  <2>3. Cardinality(N) <= d
    BY <1>1, <1>4, <2>2
  <2> QED BY <2>3 DEF N
<1> QED BY <1>3, <1>4

\* Writing frame f, and popping the head of the queue then, costs nothing more: if f is no
\* longer the head it was missing before, and the head is missing in its place.
LEMMA WritingIsFree ==
  ASSUME NEW n \in Nat, NEW q \in Seq(Frames), q # <<>>, Increasing(q),
         NEW w \in Seq(Frames), NEW f \in Frames, f <= n,
         AllAtLeast(q, f), \A i \in 1 .. Len(w) : w[i] < f
  PROVE  /\ Cardinality(Missing(q, Append(w, f), n)) <= Cardinality(Missing(q, w, n))
         /\ Cardinality(Missing(Tail(q), Append(w, f), n)) <= Cardinality(Missing(q, w, n))
<1> DEFINE h == Head(q)
           M == Missing(q, w, n)
           N == Missing(q, Append(w, f), n)
           T == Missing(Tail(q), Append(w, f), n)
<1>1. q \in Seq(Nat) /\ f \in Nat /\ \A i \in 1 .. Len(q) : q[i] \in Nat
  BY BoundAssumption, FramesAreNumbers, ElementOfSeq DEF Frames
<1>2. h \in Nat /\ AllAtLeast(q, h) /\ f <= h
  BY <1>1, HeadBounds
<1>3. Range(q) = {h} \cup Range(Tail(q)) /\ Range(Append(w, f)) = Range(w) \cup {f}
  BY RangeOfQueues
<1>4. DOMAIN q = 1 .. Len(q) /\ DOMAIN w = 1 .. Len(w)
  BY LenProperties
<1>5. IsFiniteSet(M) /\ Cardinality(M) \in Nat
  BY MissingIsFinite
<1>6. Cardinality(N) <= Cardinality(M)
  <2>1. N \subseteq M
    BY <1>3 DEF Missing
  <2> HIDE DEF M, N
  <2> QED BY <1>5, <2>1, OneElement
<1>7. CASE h = f
  <2>1. T \subseteq M
    BY <1>3, <1>7 DEF Missing
  <2> HIDE DEF M, N, T
  <2>2. Cardinality(T) <= Cardinality(M)
    BY <1>5, <2>1, OneElement
  <2> QED BY <1>6, <2>2 DEF M, N, T
<1>8. CASE h # f
  <2>1. \A i \in 1 .. Len(q) : q[i] # f
    BY <1>1, <1>2, <1>8 DEF AllAtLeast
  <2>2. \A i \in 1 .. Len(w) : w[i] # f
    BY <1>1, FramesAreNumbers, BoundAssumption DEF Frames
  <2>3. f \notin Range(q) /\ f \notin Range(w)
    BY <1>4, <2>1, <2>2 DEF Range
  <2>4. f \in 1 .. n
    BY BoundAssumption DEF Frames
  <2>5. f \in M
    BY <2>3, <2>4 DEF Missing
  <2>6. T \subseteq (M \ {f}) \cup {h}
    BY <1>3 DEF Missing
  <2> HIDE DEF M, N, T, h
  <2>7. Cardinality(T) <= Cardinality(M)
    BY <1>5, <2>5, <2>6, OneElement
  <2> QED BY <1>6, <2>7 DEF M, N, T
<1> QED BY <1>7, <1>8

\* Initially nothing was queued.
LEMMA InitLoss == Init => LossInv
<1> SUFFICES ASSUME Init PROVE LossInv
  OBVIOUS
<1>1. AllAtMost(written, LastWritten)
  BY DEF Init, AllAtMost
<1>2. Missing(m_TxQueue, written, accepted) = {}
  BY DEF Init, Missing
<1>3. Covered(m_TxQueue)
  BY <1>2, FS_EmptySet DEF Init, Covered
<1> QED BY <1>1, <1>3 DEF Init, LossInv

\* Steps that queue and write nothing, and do not move the worker to or from a pop.
LEMMA QuietLoss ==
  ASSUME LossInv, UNCHANGED <<queueVars, written, wasted>>,
         \/ UNCHANGED <<worker, is_remove, popping>>
         \/ worker' \notin {"pop", "popping"}
  PROVE  LossInv'
<1> USE DEF queueVars
<1>1. LastWritten' = LastWritten
  BY DEF LastWritten, Fifo!LastDelivered
<1>2. AllAtMost(written, LastWritten)' /\ Covered(m_TxQueue)'
  BY <1>1 DEF LossInv, AllAtMost, Covered
<1>3. CASE UNCHANGED <<worker, is_remove, popping>>
  BY <1>2, <1>3 DEF LossInv, Covered
<1>4. CASE worker' \notin {"pop", "popping"}
  BY <1>2, <1>4 DEF LossInv
<1> QED BY <1>3, <1>4

\* The places of a queue, without its newest frame.
LEMMA PlacesBelowTheLast ==
  ASSUME NEW n \in Nat, NEW i \in 1 .. n + 1, i # n + 1 PROVE i \in 1 .. n
  OBVIOUS

\* The counters of overflows and of overlaps never fall: what was paid for stays so.
LEMMA CostGrows ==
  ASSUME NEW a \in Nat, NEW b \in Nat, NEW c \in Nat, NEW d \in Nat, NEW w \in Nat,
         a <= c, b <= d
  PROVE  /\ a + b + w \in Nat /\ c + d + w \in Nat /\ a + b + w <= c + d + w
         /\ c = a + 1 => a + b + w + 1 <= c + d + w
         /\ d = b + 1 => a + b + w + 1 <= c + d + w
  OBVIOUS

\* Queueing a frame: an overflow pays for the oldest, and a race for the newest,
\* which the pop it overlaps may undo.
LEMMA AddLoss ==
  ASSUME IInv, LossInv, AddToTxQueue
  PROVE  LossInv'
<1> DEFINE new    == accepted + 1
           pushed == Append(m_TxQueue, new)
           cost   == overflows + races + wasted
<1>1. DataTypes /\ DataTypes'
  BY QueueFacts, AddStep
<1>2. /\ UNCHANGED <<written, wasted, worker, is_remove, popping>>
      /\ accepted' = new /\ new \in Frames /\ accepted \in Nat
  BY <1>1, BoundAssumption DEF AddToTxQueue, sendVars, DataTypes, Frames
<1>3. /\ overflows \in Nat /\ races \in Nat /\ overflows' \in Nat /\ races' \in Nat
      /\ wasted \in Nat
  BY <1>1, BoundAssumption DEF DataTypes
<1>4. /\ races <= races'
      /\ worker = "popping" => races' = races + 1
  BY <1>3 DEF AddToTxQueue
<1>5. \/ m_TxQueue' = pushed /\ overflows' = overflows
      \/ m_TxQueue' = Tail(pushed) /\ overflows' = overflows + 1
  BY DEF AddToTxQueue, WithoutOldest
<1>6. overflows <= overflows'
  BY <1>3 DEF AddToTxQueue
<1>c. /\ cost \in Nat /\ cost' \in Nat /\ cost <= cost'
      /\ overflows' = overflows + 1 => cost + 1 <= cost'
      /\ worker = "popping" => cost + 1 <= cost'
  BY <1>2, <1>3, <1>4, <1>6, CostGrows
<1>7. /\ pushed \in Seq(Frames) /\ pushed # <<>>
      /\ Range(pushed) = Range(m_TxQueue) \cup {new}
      /\ Range(pushed) = {Head(pushed)} \cup Range(Tail(pushed))
  <2>1. m_TxQueue \in Seq(Frames)
    BY <1>1 DEF DataTypes
  <2>2. pushed \in Seq(Frames) /\ pushed # <<>>
    BY <2>1, <1>2, AppendElements
  <2> QED BY <2>1, <2>2, <1>2, RangeOfQueues
<1> HIDE DEF pushed, cost
<1>8. Cardinality(Missing(m_TxQueue', written, new)) <= cost'
  <2>1. Cardinality(Missing(m_TxQueue, written, accepted)) <= cost
    BY DEF LossInv, Covered, cost
  <2>2. CASE m_TxQueue' = pushed
    BY <1>2, <1>7, <1>c, <2>1, <2>2, QueueingIsCharged
  <2>3. CASE m_TxQueue' = Tail(pushed) /\ overflows' = overflows + 1
    <3>1. Range(m_TxQueue) \cup {new} \subseteq Range(Tail(pushed)) \cup {Head(pushed)}
      BY <1>7
    <3> QED BY <1>2, <1>c, <2>1, <2>3, <3>1, QueueingIsCharged
  <2> QED BY <1>5, <2>2, <2>3
<1>9. ASSUME m_TxQueue # <<>>, Cardinality(Missing(Tail(m_TxQueue), written, accepted)) <= cost
      PROVE  Cardinality(Missing(Tail(m_TxQueue'), written, new)) <= cost'
  <2> DEFINE rest == Tail(pushed)
  <2>1. rest = Append(Tail(m_TxQueue), new) /\ Tail(m_TxQueue) \in Seq(Frames)
    BY <1>1, <1>2, <1>9, TailOfAppend DEF DataTypes, pushed
  <2> HIDE DEF rest
  <2>2. /\ rest \in Seq(Frames) /\ rest # <<>>
        /\ Range(rest) = Range(Tail(m_TxQueue)) \cup {new}
    <3>1. rest \in Seq(Frames) /\ rest # <<>>
      BY <1>2, <2>1, AppendElements
    <3> QED BY <1>2, <2>1, <3>1, RangeOfQueues
  <2>3. Range(rest) = {Head(rest)} \cup Range(Tail(rest))
    BY <1>2, <2>2, RangeOfQueues
  <2>4. CASE m_TxQueue' = pushed
    <3>1. Tail(m_TxQueue') = rest
      BY <2>4 DEF rest
    <3> QED BY <1>2, <1>9, <1>c, <2>2, <3>1, QueueingIsCharged
  <2>5. CASE m_TxQueue' = Tail(pushed) /\ overflows' = overflows + 1
    <3>1. Range(Tail(m_TxQueue)) \cup {new} \subseteq Range(Tail(rest)) \cup {Head(rest)}
      BY <2>2, <2>3
    <3>2. Tail(m_TxQueue') = Tail(rest)
      BY <2>5 DEF rest
    <3> QED BY <1>2, <1>9, <1>c, <2>5, <3>1, <3>2, QueueingIsCharged
  <2> QED BY <1>5, <2>4, <2>5
<1>10. ASSUME worker = "popping"
       PROVE  Cardinality(Missing(Tail(popping), written, new)) <= cost'
  <2>1. Cardinality(Missing(Tail(popping), written, accepted)) <= cost
    BY <1>10 DEF LossInv, Covered, cost
  <2>2. Range(Tail(popping)) \cup {new} \subseteq Range(Tail(popping)) \cup {new}
    OBVIOUS
  <2> QED BY <1>2, <1>10, <1>c, <2>1, <2>2, QueueingIsCharged
<1>11. worker \in {"pop", "popping"} => m_TxQueue # <<>>
  BY DEF IInv, PathInv, PopFindsAFrame
<1>12. AllAtMost(written, LastWritten)'
  BY <1>2 DEF LossInv, AllAtMost, LastWritten, Fifo!LastDelivered
<1>13. worker = "popping" \/ (worker = "pop" /\ is_remove)
         => Cardinality(Missing(Tail(m_TxQueue), written, accepted)) <= cost
  BY DEF LossInv, Covered, cost
<1>14. Covered(m_TxQueue)'
  BY <1>2, <1>8 DEF Covered, cost
<1>15. worker = "popping" \/ (worker = "pop" /\ is_remove) => (Covered(Tail(m_TxQueue)))'
  BY <1>2, <1>9, <1>11, <1>13 DEF Covered, cost
<1>16. worker = "popping" => Covered(Tail(popping))'
  BY <1>2, <1>10 DEF Covered, cost
<1>17. CASE worker = "popping"
  BY <1>2, <1>12, <1>14, <1>15, <1>16, <1>17 DEF LossInv
<1>18. CASE worker = "pop" /\ is_remove
  BY <1>2, <1>12, <1>14, <1>15, <1>18 DEF LossInv
<1>19. CASE worker # "popping" /\ ~(worker = "pop" /\ is_remove)
  BY <1>2, <1>12, <1>14, <1>19 DEF LossInv
<1> QED BY <1>17, <1>18, <1>19

\* Writing a frame; one that goes to a dead port is charged to it.
LEMMA WriteLoss ==
  ASSUME IInv, LossInv, WriteFrame
  PROVE  LossInv'
<1> USE QueueFacts
<1>1. /\ UNCHANGED <<queueVars, data_ptr, popping>>
      /\ worker = "write" /\ worker' = "pop"
      /\ is_remove' \in BOOLEAN
      /\ \/ is_remove' /\ written' = Append(written, data_ptr) /\ wasted' = wasted
         \/ is_remove' /\ written' = written /\ wasted' = wasted + 1
         \/ ~is_remove' /\ written' = written /\ wasted' = wasted
  BY WriteFrameCases
<1>2. /\ LastWritten < data_ptr /\ data_ptr <= accepted
      /\ AllAtLeast(m_TxQueue, data_ptr) /\ m_TxQueue # <<>>
  BY <1>1 DEF IInv, PathInv, HandInv, PopFindsAFrame
<1>3. data_ptr \in Frames /\ data_ptr \in Nat
  BY <1>2, BoundAssumption DEF DataTypes, NoFrame, Frames
<1>4. CASE ~is_remove' /\ written' = written /\ wasted' = wasted
  <2>1. LastWritten' = LastWritten /\ written' = written
    BY <1>1, <1>4 DEF LastWritten, Fifo!LastDelivered
  <2>2. AllAtMost(written, LastWritten)' /\ Covered(m_TxQueue)'
    BY <1>1, <1>4, <2>1 DEF LossInv, AllAtMost, Covered, queueVars
  <2> QED BY <1>1, <1>4, <2>2 DEF LossInv
<1>5. CASE written' = Append(written, data_ptr) /\ wasted' = wasted
  <2>1. /\ written' \in Seq(Frames) /\ Len(written') = Len(written) + 1
        /\ \A i \in 1 .. Len(written) : written'[i] = written[i]
        /\ written'[Len(written) + 1] = data_ptr
    BY <1>1, <1>3, <1>5, AppendElements DEF DataTypes
  <2>2. LastWritten' = data_ptr
    BY <1>1, <1>3, <1>5, WriteMakesLast DEF DataTypes
  <2>3. written \in Seq(Frames) /\ Len(written) \in Nat
    BY FramesAreNumbers DEF DataTypes
  <2>4. \A i \in 1 .. Len(written) : written[i] \in Nat /\ written[i] < data_ptr
    <3> SUFFICES ASSUME NEW i \in 1 .. Len(written)
                 PROVE  written[i] \in Nat /\ written[i] < data_ptr
      OBVIOUS
    <3>1. written[i] \in Nat
      BY <2>3, FramesAreNumbers, BoundAssumption DEF Frames
    <3>2. written[i] <= LastWritten
      BY DEF LossInv, AllAtMost
    <3> QED BY <1>2, <1>3, <3>1, <3>2
  <2>5. AllAtMost(written, LastWritten)'
    <3>1. ASSUME NEW i \in 1 .. Len(written) + 1 PROVE written'[i] <= data_ptr
      <4>1. CASE i = Len(written) + 1
        BY <1>3, <2>1, <4>1
      <4>2. CASE i # Len(written) + 1
        <5>1. i \in 1 .. Len(written)
          BY <2>3, <4>2, PlacesBelowTheLast
        <5>2. written'[i] \in Nat /\ written'[i] < data_ptr
          BY <2>1, <2>4, <5>1
        <5> QED BY <1>3, <5>2
      <4> QED BY <4>1, <4>2
    <3> QED BY <2>1, <2>2, <3>1 DEF AllAtMost
  <2> DEFINE before == Cardinality(Missing(m_TxQueue, written, accepted))
             cost   == overflows + races + wasted
  <2>6. /\ Cardinality(Missing(m_TxQueue, written', accepted)) <= before
        /\ Cardinality(Missing(Tail(m_TxQueue), written', accepted)) <= before
    BY <1>1, <1>2, <1>3, <1>5, <2>3, <2>4, WritingIsFree DEF DataTypes
  <2>7. /\ before \in Nat /\ before <= cost /\ cost \in Nat
        /\ Cardinality(Missing(m_TxQueue, written', accepted)) \in Nat
        /\ Cardinality(Missing(Tail(m_TxQueue), written', accepted)) \in Nat
    BY MissingIsFinite, BoundAssumption DEF LossInv, Covered, DataTypes
  <2> HIDE DEF before, cost
  <2>8. /\ Cardinality(Missing(m_TxQueue, written', accepted)) <= cost
        /\ Cardinality(Missing(Tail(m_TxQueue), written', accepted)) <= cost
    BY <2>6, <2>7
  <2>9. (Covered(m_TxQueue))' /\ (Covered(Tail(m_TxQueue)))'
    BY <1>1, <1>5, <2>8 DEF Covered, queueVars, cost
  <2> QED BY <1>1, <2>5, <2>9 DEF LossInv
<1>6. CASE written' = written /\ wasted' = wasted + 1
  <2> DEFINE whole == Cardinality(Missing(m_TxQueue, written, accepted))
             rest  == Cardinality(Missing(Tail(m_TxQueue), written, accepted))
             cost  == overflows + races + wasted
  <2>1. Range(m_TxQueue) = {Head(m_TxQueue)} \cup Range(Tail(m_TxQueue))
    BY <1>2, <1>3, RangeOfQueues DEF DataTypes
  <2>2. Missing(Tail(m_TxQueue), written, accepted)
          \subseteq Missing(m_TxQueue, written, accepted) \cup {Head(m_TxQueue)}
    BY <2>1 DEF Missing
  <2>3. /\ IsFiniteSet(Missing(m_TxQueue, written, accepted))
        /\ whole \in Nat /\ whole <= cost /\ cost \in Nat
    BY MissingIsFinite, BoundAssumption DEF LossInv, Covered, DataTypes
  <2>4. rest \in Nat /\ rest <= whole + 1
    BY <2>2, <2>3, OneElement
  <2> HIDE DEF whole, rest, cost
  <2>5. whole <= cost + 1 /\ rest <= cost + 1
    BY <2>3, <2>4
  <2>6. cost' = cost + 1
    BY <1>1, <1>6, BoundAssumption DEF cost, queueVars, DataTypes
  <2>7. (Covered(m_TxQueue))' /\ (Covered(Tail(m_TxQueue)))'
    BY <1>1, <1>6, <2>5, <2>6 DEF Covered, queueVars, whole, rest, cost
  <2>8. AllAtMost(written, LastWritten)'
    BY <1>6 DEF LossInv, AllAtMost, LastWritten, Fifo!LastDelivered
  <2> QED BY <1>1, <2>7, <2>8 DEF LossInv
<1> QED BY <1>1, <1>4, <1>5, <1>6

\* The pop: whichever queue it leaves was counted before.
LEMMA PopLoss ==
  ASSUME LossInv, BeginPop \/ EndPop
  PROVE  LossInv'
<1>1. UNCHANGED <<written, wasted, accepted, overflows, races>>
  BY DEF BeginPop, EndPop, queueVars
<1>2. AllAtMost(written, LastWritten)'
  BY <1>1 DEF LossInv, AllAtMost, LastWritten, Fifo!LastDelivered
<1>3. CASE BeginPop
  <2>1. /\ worker = "pop" /\ is_remove /\ worker' = "popping"
        /\ m_TxQueue' = m_TxQueue /\ popping' = m_TxQueue
    BY <1>3 DEF BeginPop, Goto, queueVars
  <2>2. Covered(m_TxQueue)' /\ (Covered(Tail(m_TxQueue)))' /\ Covered(Tail(popping))'
    BY <1>1, <2>1 DEF LossInv, Covered
  <2> QED BY <1>2, <2>1, <2>2 DEF LossInv
<1>4. CASE EndPop
  <2>1. worker = "popping" /\ worker' = "send" /\ m_TxQueue' \in PopResults
    BY <1>4 DEF EndPop, Goto
  <2>2. m_TxQueue' \in {Tail(m_TxQueue), Tail(popping), m_TxQueue}
    BY <2>1 DEF PopResults
  <2>3. Covered(m_TxQueue)'
    BY <1>1, <2>1, <2>2 DEF LossInv, Covered
  <2> QED BY <1>2, <2>1, <2>3 DEF LossInv
<1> QED BY <1>3, <1>4

\* Every step keeps the account.
LEMMA LossStep == IInv /\ LossInv /\ [Next]_vars => LossInv'
<1> SUFFICES ASSUME IInv, LossInv, [Next]_vars PROVE LossInv'
  OBVIOUS
<1>1. CASE AddToTxQueue
  BY <1>1, AddLoss
<1>2. CASE OnDataReceived \/ PortFails \/ DestroyNotify \/ RequestStop \/ Join \/ UNCHANGED vars
  <2>1. UNCHANGED <<queueVars, sendVars, worker>>
    BY <1>2 DEF OnDataReceived, PortFails, DestroyNotify, RequestStop, Join, vars
  <2> QED BY <2>1, QuietLoss DEF sendVars
<1>3. CASE \/ StartWorker \/ OuterLoop \/ OpenSerial \/ OpenThrows \/ Backoff \/ InnerLoop
           \/ CloseSerial
  <2>1. UNCHANGED <<queueVars, sendVars>> /\ worker' \notin {"pop", "popping"}
    BY <1>3 DEF StartWorker, OuterLoop, OpenSerial, OpenThrows, Backoff, InnerLoop, CloseSerial, Goto
  <2> QED BY <2>1, QuietLoss DEF sendVars
<1>4. CASE TestPredicate \/ Block \/ Wake \/ Timeout \/ ProcessReceivedFrames \/ ClearNotification
  <2>1. UNCHANGED <<queueVars, sendVars>> /\ worker' \notin {"pop", "popping"}
    BY <1>4 DEF TestPredicate, Block, Wake, Timeout, ProcessReceivedFrames, ClearNotification, Goto
  <2> QED BY <2>1, QuietLoss DEF sendVars
<1>5. CASE ReadFront \/ KeepFrame
  <2>1. UNCHANGED <<queueVars, written, wasted>> /\ worker' \notin {"pop", "popping"}
    BY <1>5 DEF ReadFront, KeepFrame, Goto
  <2> QED BY <2>1, QuietLoss
<1>6. CASE WriteFrame
  BY <1>6, WriteLoss
<1>7. CASE BeginPop \/ EndPop
  BY <1>7, PopLoss
<1> QED BY <1>1, <1>2, <1>3, <1>4, <1>5, <1>6, <1>7
        DEF Next, Owner, WorkerThread, SendPendingCanFrames

\* No more frames are lost than overflows, overlaps of push and pop and writes to a
\* port that has failed can have cost: what is queued when the worker notices the
\* outage survives the restart of the connection, whatever becomes of notifications.
THEOREM EachLossHasItsCause == Spec => []LossIsAccounted
<1>1. IInv /\ LossInv => LossIsAccounted
  <2> SUFFICES ASSUME IInv, LossInv PROVE LossIsAccounted
    OBVIOUS
  <2>1. IsFiniteSet(Missing(m_TxQueue, written, accepted)) /\ overflows \in Nat /\ races \in Nat /\ wasted \in Nat
    BY QueueFacts, MissingIsFinite, BoundAssumption DEF DataTypes
  <2>2. Lost \subseteq Missing(m_TxQueue, written, accepted)
    BY DEF Lost, Missing
  <2>3. /\ Cardinality(Lost) \in Nat
        /\ Cardinality(Missing(m_TxQueue, written, accepted)) \in Nat
        /\ Cardinality(Lost) <= Cardinality(Missing(m_TxQueue, written, accepted))
    BY <2>1, <2>2, OneElement
  <2> QED BY <2>1, <2>3 DEF LossInv, Covered, LossIsAccounted
<1>2. Spec => [](IInv /\ LossInv)
  BY InitIInv, IInvStep, InitLoss, LossStep, PTL DEF Spec
<1> QED BY <1>1, <1>2, PTL
=============================================================================
