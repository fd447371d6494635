-------------------------- MODULE DidHandlerProofs --------------------------
(***************************************************************************)
(* DidHandler, for any number of DIDs, requests, aborts and retries and    *)
(* whatever the ECU does: the DID that is popped is the DID that was asked *)
(* for, and an update is lost only between the showing and the clearing of *)
(* the updates.  With an ECU that answers in time no DID gets the value of *)
(* another one.                                                            *)
(***************************************************************************)
EXTENDS DidHandler, Integers, TLAPS

FrontInv == m_PendingDidReads \in Seq(Dids) /\ FrontIsCurrent

\* AddDidToReadQueue appends to the deque: the front stays what it was.
LEMMA AppendKeepsHead ==
  ASSUME NEW S, NEW q \in Seq(S), NEW e \in S
  PROVE  /\ Append(q, e) \in Seq(S)
         /\ q # <<>> => Append(q, e) # <<>> /\ Head(Append(q, e)) = Head(q)
  OBVIOUS

\* Init has an empty deque and an idle worker.
LEMMA FrontInit == Init => FrontInv
  BY DEF Init, FrontInv, FrontIsCurrent, ReadPlaces

\* No thread but the worker takes a DID from the deque, or moves the worker.
LEMMA FrontOthers == FrontInv /\ (Gui \/ Ecu) => FrontInv'
<1> SUFFICES ASSUME FrontInv, Gui \/ Ecu PROVE FrontInv'
  OBVIOUS
<1> USE DEF FrontInv, FrontIsCurrent
<1>1. ASSUME NEW did \in ReadDids, AddDidToReadQueue(did) PROVE FrontInv'
  <2>1. did \in Dids /\ UNCHANGED <<worker, curr_did>>
    BY <1>1, DidBounds DEF AddDidToReadQueue, ByGui, Dids
  <2>2. m_PendingDidReads' = Append(m_PendingDidReads, did)
    BY <1>1 DEF AddDidToReadQueue
  <2> QED
    BY <2>1, <2>2, AppendKeepsHead
<1>2. CASE UNCHANGED <<m_PendingDidReads, worker, curr_did>>
  BY <1>2
<1>3. (\E did \in Dids : WriteDid(did)) => UNCHANGED <<m_PendingDidReads, worker, curr_did>>
  BY DEF WriteDid, ByGui
<1>4. NotifyDidUpdate \/ AbortDidUpdate => UNCHANGED <<m_PendingDidReads, worker, curr_did>>
  BY DEF NotifyDidUpdate, AbortDidUpdate, ByGui
<1>5. ShowUpdates \/ ClearUpdates => UNCHANGED <<m_PendingDidReads, worker, curr_did>>
  BY DEF ShowUpdates, ClearUpdates, ByGui
<1>6. Ecu => UNCHANGED <<m_PendingDidReads, worker, curr_did>>
  BY DEF Ecu, EcuAnswers, EcuNeedsTime, EcuForgets, EcuRecovers, ByEcu, readVars, workerVars
<1> QED
  BY <1>1, <1>2, <1>3, <1>4, <1>5, <1>6 DEF Gui

\* A step to a place that is not in ReadPlaces needs the deque to keep its type only.
LEMMA FrontLeaves ==
  ASSUME m_PendingDidReads' \in Seq(Dids), worker' \notin ReadPlaces
  PROVE  FrontInv'
  BY DEF FrontInv, FrontIsCurrent, ReadPlaces

\* A step between two places of one request leaves the deque and curr_did alone.
LEMMA FrontStays ==
  ASSUME FrontInv, worker \in ReadPlaces, UNCHANGED <<m_PendingDidReads, curr_did>>
  PROVE  FrontInv'
  BY DEF FrontInv, FrontIsCurrent, ReadPlaces

\* ProcessReadDidResponse and ProcessRejectedNrc pop the DID they were given.
LEMMA FrontPopped ==
  ASSUME FrontInv, worker \in ReadPlaces,
         m_PendingDidReads' = Tail(m_PendingDidReads)
  PROVE  /\ Head(m_PendingDidReads) = curr_did
         /\ m_PendingDidReads' \in Seq(Dids)
  BY DEF FrontInv, FrontIsCurrent

\* The steps of HandleDidReading: a request starts with the front, and pops it when it ends.
LEMMA FrontReading == FrontInv /\ (Acquire \/ Reading) => FrontInv'
<1> SUFFICES ASSUME FrontInv, Acquire \/ Reading PROVE FrontInv'
  OBVIOUS
<1>t. m_PendingDidReads \in Seq(Dids) /\ <<>> \in Seq(Dids)
  BY DEF FrontInv
<1>1. CASE Acquire
  BY <1>1, <1>t, FrontLeaves DEF Acquire, Goto, ReadPlaces
<1>2. CASE ReadNext
  BY <1>2, <1>t DEF ReadNext, Goto, readVars, FrontInv, FrontIsCurrent, ReadPlaces
<1>3. CASE ReadsDone
  BY <1>3, <1>t, FrontLeaves DEF ReadsDone, MovesTo, Goto, readVars, ReadPlaces
<1>4. CASE SessionOpened
  BY <1>4, FrontStays DEF SessionOpened, Goto, ReadPlaces
<1>5. CASE SessionFails
  <2>1. m_PendingDidReads' \in Seq(Dids) /\ worker' \in {"writing", "pause"}
    BY <1>5, <1>t DEF SessionFails, Goto
  <2> QED
    BY <2>1, FrontLeaves DEF ReadPlaces
<1>6. CASE ReadAnswered
  BY <1>6, FrontStays DEF ReadAnswered, MovesTo, Goto, readVars, ReadPlaces
<1>7. CASE ReadUnanswered \/ ReadIgnored \/ Pause
  <2>1. UNCHANGED m_PendingDidReads /\ worker' \in {"pause", "reading"}
    BY <1>7 DEF ReadUnanswered, ReadIgnored, Pause, MovesTo, Goto, readVars
  <2> QED
    BY <2>1, <1>t, FrontLeaves DEF ReadPlaces
<1>8. CASE ReadPositive \/ ReadRejected
  <2>1. worker = "settle" /\ worker' = "pause"
    BY <1>8 DEF ReadPositive, ReadRejected, Settled, Goto
  <2>2. m_PendingDidReads' = Tail(m_PendingDidReads)
    BY <1>8 DEF ReadPositive, ReadRejected, ProcessReadDidResponse, ProcessRejectedNrc
  <2> QED
    BY <2>1, <2>2, FrontPopped, FrontLeaves DEF ReadPlaces
<1>9. CASE ReadPending
  BY <1>9, <1>t, FrontStays DEF ReadPending, Settled, Goto, readVars, ReadPlaces
<1>10. CASE ReadRefused
  BY <1>10, <1>t, FrontLeaves DEF ReadRefused, Goto, ReadPlaces
<1>11. CASE ClearLength
  BY <1>11, FrontStays DEF ClearLength, Goto, readVars, ReadPlaces
<1>12. CASE WaitingOver
  <2>1. worker = "waiting" /\ worker' = "pause"
    BY <1>12 DEF WaitingOver, Goto
  <2>2. \/ UNCHANGED m_PendingDidReads
        \/ m_PendingDidReads' = Tail(m_PendingDidReads)
    BY <1>12 DEF WaitingOver, ProcessReadDidResponse, ProcessRejectedNrc, readVars
  <2> QED
    BY <2>1, <2>2, <1>t, FrontPopped, FrontLeaves DEF ReadPlaces
<1>13. CASE WaitingGoesOn
  BY <1>13, FrontStays DEF WaitingGoesOn, WaitsOn, Goto, ReadPlaces
<1> QED
  BY <1>1, <1>2, <1>3, <1>4, <1>5, <1>6, <1>7, <1>8, <1>9, <1>10, <1>11, <1>12, <1>13
     DEF Reading

\* HandleDidWriting does not touch the pending reads.
LEMMA FrontWriting == FrontInv /\ Writing => FrontInv'
<1> SUFFICES ASSUME FrontInv, Writing PROVE FrontInv'
  OBVIOUS
<1> USE DEF ByWriting, readVars, Goto
<1>1. UNCHANGED m_PendingDidReads
  <2>1. FirstWrite \/ NextWrite \/ NoWrites \/ WritesDone => UNCHANGED m_PendingDidReads
    BY DEF FirstWrite, NextWrite, StartWrite, NoWrites, WritesDone, Ends
  <2>2. WriteSessionOpened \/ WriteClearLength => UNCHANGED m_PendingDidReads
    BY DEF WriteSessionOpened, WriteClearLength
  <2>3. WriteSessionFails \/ WriteAnswered \/ WriteWaited => UNCHANGED m_PendingDidReads
    BY DEF WriteSessionFails, WriteAnswered, WriteWaited, MovesTo
  <2> QED
    BY <2>1, <2>2, <2>3 DEF Writing
<1>2. worker' \notin ReadPlaces
  <2>1. FirstWrite \/ NextWrite => worker' = "wsession"
    BY DEF FirstWrite, NextWrite, StartWrite
  <2>2. NoWrites \/ WritesDone => worker' = "idle"
    BY DEF NoWrites, WritesDone, Ends
  <2>3. WriteSessionOpened \/ WriteClearLength => worker' \in {"wanswer", "wwaiting"}
    BY DEF WriteSessionOpened, WriteClearLength
  <2>4. WriteSessionFails \/ WriteAnswered \/ WriteWaited => worker' \in {"wpause", "wclearing"}
    BY DEF WriteSessionFails, WriteAnswered, WriteWaited, MovesTo
  <2> QED
    BY <2>1, <2>2, <2>3, <2>4 DEF Writing, ReadPlaces
<1> QED
  BY <1>1, <1>2, FrontLeaves DEF FrontInv

\* While the worker asks for a DID, that DID is the front of m_PendingDidReads: the deque
\* is never popped when it is empty, and never loses another DID than the one answered.
THEOREM PopsWhatItAskedFor == Spec => []FrontIsCurrent
<1>1. FrontInv /\ [Next]_vars => FrontInv'
  <2>1. FrontInv /\ UNCHANGED vars => FrontInv'
    BY DEF FrontInv, FrontIsCurrent, ReadPlaces, vars, readVars, workerVars
  <2> QED
    BY <2>1, FrontOthers, FrontReading, FrontWriting DEF Next, WorkerThread
<1>2. FrontInv => FrontIsCurrent
  BY DEF FrontInv
<1> QED
  BY FrontInit, <1>1, <1>2, PTL DEF Spec

-----------------------------------------------------------------------------
(* The updates: the worker pushes them while the GUI thread shows and      *)
(* clears them.                                                            *)

\* Between the showing and the clearing everything that is not shown came since, and is
\* about to be cleared.
UpdateInv ==
  /\ UpdatesLostOnlyInClear
  /\ gui = "shown" => unshown \subseteq missed

\* A step that leaves the updates and the place of the GUI thread alone.
LEMMA UpdatesStay ==
  ASSUME UpdateInv, UNCHANGED updateVars, UNCHANGED gui
  PROVE  UpdateInv'
  BY DEF UpdateInv, UpdatesLostOnlyInClear, updateVars

\* Push announces the DID, and records that the clearing may lose it.
LEMMA UpdatePushed ==
  ASSUME UpdateInv, NEW did, Push(did), UNCHANGED gui
  PROVE  UpdateInv'
<1>1. unshown' \subseteq m_UpdatedDids' \cup missed'
  BY DEF Push, UpdateInv, UpdatesLostOnlyInClear
<1>2. gui = "shown" => unshown' \subseteq missed'
  BY DEF Push, UpdateInv
<1> QED
  BY <1>1, <1>2 DEF UpdateInv, UpdatesLostOnlyInClear

\* The GUI thread: what it clears it has shown, or it came while it was shown.
LEMMA UpdatesGui == UpdateInv /\ Gui => UpdateInv'
<1> SUFFICES ASSUME UpdateInv, Gui PROVE UpdateInv'
  OBVIOUS
<1>1. CASE ShowUpdates
  <2>1. unshown' \subseteq missed' /\ gui' = "shown"
    BY <1>1 DEF ShowUpdates, UpdateInv, UpdatesLostOnlyInClear
  <2> QED
    BY <2>1 DEF UpdateInv, UpdatesLostOnlyInClear
<1>2. CASE ClearUpdates
  <2>1. unshown' \subseteq missed' /\ gui' = "idle"
    BY <1>2 DEF ClearUpdates, UpdateInv
  <2> QED
    BY <2>1 DEF UpdateInv, UpdatesLostOnlyInClear
<1>3. ASSUME NEW did, AddDidToReadQueue(did) \/ WriteDid(did) PROVE UpdateInv'
  BY <1>3, UpdatesStay DEF AddDidToReadQueue, WriteDid
<1>4. CASE NotifyDidUpdate \/ AbortDidUpdate
  BY <1>4, UpdatesStay DEF NotifyDidUpdate, AbortDidUpdate, guiVars
<1> QED
  BY <1>1, <1>2, <1>3, <1>4 DEF Gui

\* The reading pushes what it ends, but for NRC 22, which is recorded as missed.
LEMMA UpdatesReading == UpdateInv /\ Reading => UpdateInv'
<1> SUFFICES ASSUME UpdateInv, Reading PROVE UpdateInv'
  OBVIOUS
<1>g. UNCHANGED gui
  BY DEF Reading, ReadNext, ReadsDone, SessionOpened, SessionFails, ReadAnswered, ReadUnanswered,
         ReadPositive, ReadPending, ReadRejected, ReadRefused, ReadIgnored, ClearLength,
         WaitingOver, WaitingGoesOn, Pause, MovesTo, ByReading, guiVars
<1>1. CASE ReadNext \/ ReadsDone \/ SessionOpened \/ SessionFails \/ ReadAnswered
             \/ ReadUnanswered \/ ReadIgnored \/ ClearLength \/ Pause
  BY <1>1, <1>g, UpdatesStay
     DEF ReadNext, ReadsDone, SessionOpened, SessionFails, ReadAnswered, ReadUnanswered,
         ReadIgnored, ClearLength, Pause, MovesTo
<1>2. CASE ReadPositive \/ ReadRejected
  BY <1>2, <1>g, UpdatePushed
     DEF ReadPositive, ReadRejected, ProcessReadDidResponse, ProcessRejectedNrc
<1>3. CASE ReadPending
  BY <1>3, <1>g, UpdatePushed, UpdatesStay DEF ReadPending
<1>4. CASE ReadRefused
  <2>1. unshown' = unshown \cup {curr_did} /\ missed' = missed \cup {curr_did} /\ UNCHANGED m_UpdatedDids
    BY <1>4 DEF ReadRefused
  <2> QED
    BY <1>g, <2>1 DEF UpdateInv, UpdatesLostOnlyInClear
<1>5. CASE WaitingOver
  BY <1>5, <1>g, UpdatePushed DEF WaitingOver, ProcessReadDidResponse, ProcessRejectedNrc
<1>6. CASE WaitingGoesOn
  BY <1>6, <1>g, UpdatePushed DEF WaitingGoesOn
<1> QED
  BY <1>1, <1>2, <1>3, <1>4, <1>5, <1>6 DEF Reading

\* The ECU, the start of the worker and the writing do not touch the updates.
LEMMA UpdatesOthers == UpdateInv /\ (Ecu \/ Acquire \/ Writing) => UpdateInv'
<1> SUFFICES ASSUME UpdateInv, Ecu \/ Acquire \/ Writing PROVE UpdateInv'
  OBVIOUS
<1>1. CASE Ecu
  BY <1>1, UpdatesStay
     DEF Ecu, EcuAnswers, EcuNeedsTime, EcuForgets, EcuRecovers, ByEcu, guiVars
<1>2. CASE Acquire
  BY <1>2, UpdatesStay DEF Acquire, guiVars
<1>3. CASE FirstWrite \/ NextWrite \/ NoWrites \/ WritesDone
  BY <1>3, UpdatesStay
     DEF FirstWrite, NextWrite, StartWrite, NoWrites, WritesDone, Ends, ByWriting, guiVars
<1>4. CASE WriteSessionOpened \/ WriteClearLength
  BY <1>4, UpdatesStay DEF WriteSessionOpened, WriteClearLength, ByWriting, guiVars
<1>5. CASE WriteSessionFails \/ WriteAnswered \/ WriteWaited
  BY <1>5, UpdatesStay
     DEF WriteSessionFails, WriteAnswered, WriteWaited, MovesTo, ByReading, guiVars
<1> QED
  BY <1>1, <1>2, <1>3, <1>4, <1>5 DEF Writing

\* An update that was not shown is still to be shown, unless it came between the showing and
\* the clearing, which take no lock, or was an NRC 22, which is not announced.
THEOREM UpdatesAreLostInTheClearOnly == Spec => []UpdatesLostOnlyInClear
<1>1. Init => UpdateInv
  BY DEF Init, UpdateInv, UpdatesLostOnlyInClear
<1>2. UpdateInv /\ [Next]_vars => UpdateInv'
  <2>1. UpdateInv /\ UNCHANGED vars => UpdateInv'
    BY UpdatesStay DEF vars, guiVars
  <2> QED
    BY <2>1, UpdatesGui, UpdatesReading, UpdatesOthers DEF Next, WorkerThread
<1>3. UpdateInv => UpdatesLostOnlyInClear
  BY DEF UpdateInv
<1> QED
  BY <1>1, <1>2, <1>3, PTL DEF Spec

-----------------------------------------------------------------------------
(* The answers of an ECU that is on time: what it has still to answer is   *)
(* in such an order that no answer is taken for that of another DID.       *)

\* The DIDs that are named in requests; HandleDidWriting takes the least of a set.
Named == Dids \cup {NoDid} \cup {Min(T) : T \in SUBSET Dids}
RequestType == [service : {"session", "read", "write"}, did : Named]

RequestTypes ==
  /\ requests \in Seq(RequestType) /\ curr_did \in Named
  /\ m_PendingDidWrites \in SUBSET Dids
  /\ DOMAIN m_DidList = Dids

Starting  == {"idle", "reading", "writing", "session", "wsession"}
Answering == {"answer", "settle", "clearing", "waiting"}

\* Before a session is open, only the request that is announced as pending may be no session
\* request; an open session has one request, its last.
OnlySessions(q) == \A i \in 1 .. Len(q) : q[i].service = "session"
PendingFirst(q, announced) ==
  \A i \in 1 .. Len(q) : q[i].service # "session" => announced /\ i = 1
LastIs(q, r) == \A i \in 1 .. Len(q) : q[i].service # "session" => i = Len(q) /\ q[i] = r
OneRequest(q) == \A i \in 1 .. Len(q) : q[i].service # "session" => i = Len(q)
AnnouncedIsFirst(q, announced) == announced => q # <<>> /\ Head(q).service # "session"

QueueInv ==
  /\ AnnouncedIsFirst(requests, responsePending)
  /\ worker \in Starting => PendingFirst(requests, responsePending)
  /\ worker \in {"session", "wsession"} /\ m_IsoTpBufLen = "data" => OnlySessions(requests)
  /\ worker \in Answering => LastIs(requests, Request("read", curr_did))
  /\ worker \notin Starting => OneRequest(requests) \/ PendingFirst(requests, responsePending)

BufferInv ==
  worker \in Answering =>
    m_IsoTpBuffer.to.service # "read" \/ m_IsoTpBuffer.to = Request("read", curr_did)

OwnValues == \A d \in Dids : m_DidList[d] \in {NoDid, d}

TimeInv == RequestTypes /\ (ecu = "good" => QueueInv /\ BufferInv /\ OwnValues)

\* The ECU answers the first request.
LEMMA ShapeOfAnswered ==
  ASSUME NEW q \in Seq(RequestType), q # <<>>
  PROVE  /\ Tail(q) \in Seq(RequestType) /\ Head(q) \in RequestType
         /\ \A p : PendingFirst(q, p) => OnlySessions(Tail(q))
         /\ \A r : LastIs(q, r) => LastIs(Tail(q), r) /\ (Head(q).service = "session" \/ Head(q) = r)
         /\ OneRequest(q) => OneRequest(Tail(q))
<1>1. /\ Tail(q) \in Seq(RequestType) /\ Head(q) \in RequestType
      /\ Len(Tail(q)) = Len(q) - 1 /\ Len(q) \in Nat \ {0} /\ Head(q) = q[1]
  OBVIOUS
<1>l. Len(q) \in Nat
  OBVIOUS
<1>2. \A i \in 1 .. Len(Tail(q)) : Tail(q)[i] = q[i + 1] /\ i + 1 \in 1 .. Len(q)
  OBVIOUS
<1>3. ASSUME NEW p, PendingFirst(q, p) PROVE OnlySessions(Tail(q))
  BY <1>1, <1>2, <1>3 DEF PendingFirst, OnlySessions
<1>4. ASSUME NEW r, LastIs(q, r)
      PROVE  LastIs(Tail(q), r) /\ (Head(q).service = "session" \/ Head(q) = r)
  <2>1. ASSUME NEW i \in 1 .. Len(Tail(q)), Tail(q)[i].service # "session"
        PROVE  i = Len(Tail(q)) /\ Tail(q)[i] = r
    <3>1. Tail(q)[i] = q[i + 1] /\ i + 1 \in 1 .. Len(q)
      BY <1>2
    <3>2. i + 1 = Len(q) /\ q[i + 1] = r
      BY <1>4, <2>1, <3>1 DEF LastIs
    <3>3. i \in Nat
      BY <2>1
    <3>4. i = Len(q) - 1
      BY <1>l, <3>2, <3>3
    <3> QED
      BY <1>1, <3>1, <3>2, <3>4
  <2>2. Head(q).service = "session" \/ Head(q) = r
    <3>1. 1 \in 1 .. Len(q)
      BY <1>1
    <3> QED
      BY <1>1, <1>4, <3>1 DEF LastIs
  <2> QED
    BY <2>1, <2>2 DEF LastIs
<1>5. ASSUME OneRequest(q) PROVE OneRequest(Tail(q))
  <2>1. ASSUME NEW i \in 1 .. Len(Tail(q)), Tail(q)[i].service # "session"
        PROVE  i = Len(Tail(q))
    <3>1. Tail(q)[i] = q[i + 1] /\ i + 1 \in 1 .. Len(q)
      BY <1>2
    <3>2. i + 1 = Len(q)
      BY <1>5, <2>1, <3>1 DEF OneRequest
    <3>3. i \in Nat
      BY <2>1
    <3>4. i = Len(q) - 1
      BY <1>l, <3>2, <3>3
    <3> QED
      BY <1>1, <3>4
  <2> QED
    BY <2>1 DEF OneRequest
<1> QED
  BY <1>1, <1>3, <1>4, <1>5

\* The worker sends a request.
LEMMA ShapeOfSent ==
  ASSUME NEW q \in Seq(RequestType), NEW r \in RequestType
  PROVE  /\ Append(q, r) \in Seq(RequestType)
         /\ \A p : AnnouncedIsFirst(q, p) => AnnouncedIsFirst(Append(q, r), p)
         /\ \A p : PendingFirst(q, p) /\ r.service = "session" => PendingFirst(Append(q, r), p)
         /\ OnlySessions(q) => LastIs(Append(q, r), r) /\ OneRequest(Append(q, r))
<1>1. /\ Append(q, r) \in Seq(RequestType)
      /\ Len(Append(q, r)) = Len(q) + 1 /\ Len(q) \in Nat
      /\ q # <<>> => Append(q, r) # <<>> /\ Head(Append(q, r)) = Head(q)
  OBVIOUS
<1>2. \A i \in 1 .. Len(q) + 1 : Append(q, r)[i] = IF i = Len(q) + 1 THEN r ELSE q[i]
  OBVIOUS
<1>3. ASSUME NEW p, AnnouncedIsFirst(q, p) PROVE AnnouncedIsFirst(Append(q, r), p)
  BY <1>1, <1>3 DEF AnnouncedIsFirst
<1>4. ASSUME NEW p, PendingFirst(q, p), r.service = "session" PROVE PendingFirst(Append(q, r), p)
  BY <1>1, <1>2, <1>4 DEF PendingFirst
<1>5. ASSUME OnlySessions(q) PROVE LastIs(Append(q, r), r) /\ OneRequest(Append(q, r))
  BY <1>1, <1>2, <1>5 DEF OnlySessions, LastIs, OneRequest
<1> QED
  BY <1>1, <1>3, <1>4, <1>5

\* How the shapes follow from each other.
LEMMA ShapesWeaken ==
  ASSUME NEW q \in Seq(RequestType), NEW p
  PROVE  /\ q = <<>> => \A r : OnlySessions(q) /\ PendingFirst(q, p) /\ LastIs(q, r) /\ OneRequest(q)
         /\ OnlySessions(q) => \A r : PendingFirst(q, p) /\ LastIs(q, r) /\ OneRequest(q)
         /\ OnlySessions(q) /\ AnnouncedIsFirst(q, p) => ~p
         /\ \A r : LastIs(q, r) => OneRequest(q)
         /\ OneRequest(q) /\ AnnouncedIsFirst(q, p) /\ p => PendingFirst(q, p)
         /\ PendingFirst(q, p) => PendingFirst(q, TRUE)
         /\ PendingFirst(q, FALSE) => OnlySessions(q)
<1>1. Len(q) \in Nat /\ (q # <<>> => Len(q) >= 1 /\ Head(q) = q[1]) /\ (q = <<>> => Len(q) = 0)
  OBVIOUS
<1>2. q = <<>> => OnlySessions(q)
  BY <1>1 DEF OnlySessions
<1>3. OnlySessions(q) => \A r : PendingFirst(q, p) /\ LastIs(q, r) /\ OneRequest(q)
  BY DEF OnlySessions, PendingFirst, LastIs, OneRequest
<1>4. OnlySessions(q) /\ AnnouncedIsFirst(q, p) => ~p
  BY <1>1 DEF OnlySessions, AnnouncedIsFirst
<1>5. \A r : LastIs(q, r) => OneRequest(q)
  BY DEF LastIs, OneRequest
<1>6. ASSUME OneRequest(q), AnnouncedIsFirst(q, p), p PROVE PendingFirst(q, p)
  BY <1>1, <1>6 DEF OneRequest, AnnouncedIsFirst, PendingFirst
<1>7. PendingFirst(q, p) => PendingFirst(q, TRUE)
  BY DEF PendingFirst
<1>8. PendingFirst(q, FALSE) => OnlySessions(q)
  BY DEF PendingFirst, OnlySessions
<1> QED
  BY <1>2, <1>3, <1>4, <1>5, <1>6, <1>7, <1>8

\* The GUI adds DIDs, and may abort: an aborted wait has no data.
LEMMA TimeGui == TimeInv /\ Gui => TimeInv'
<1> SUFFICES ASSUME TimeInv, Gui PROVE TimeInv'
  OBVIOUS
<1>1. UNCHANGED <<requests, responsePending, ecu, worker, curr_did, m_DidList, m_IsoTpBuffer>>
  BY DEF Gui, AddDidToReadQueue, WriteDid, NotifyDidUpdate, AbortDidUpdate, ShowUpdates, ClearUpdates,
         ByGui, ecuVars
<1>2. m_IsoTpBufLen' = "data" => m_IsoTpBufLen = "data"
  BY DEF Gui, AddDidToReadQueue, WriteDid, NotifyDidUpdate, AbortDidUpdate, ShowUpdates, ClearUpdates
<1>3. m_PendingDidWrites' \in SUBSET Dids
  BY DEF Gui, AddDidToReadQueue, WriteDid, NotifyDidUpdate, AbortDidUpdate, ShowUpdates, ClearUpdates,
         writeVars, TimeInv, RequestTypes
<1> QED
  BY <1>1, <1>2, <1>3 DEF TimeInv, RequestTypes, QueueInv, BufferInv, OwnValues

\* An answer in time is that to the first request.
LEMMA TimeEcu == TimeInv /\ Ecu => TimeInv'
<1> SUFFICES ASSUME TimeInv, Ecu PROVE TimeInv'
  OBVIOUS
<1>1. UNCHANGED <<worker, curr_did, m_PendingDidWrites, m_DidList>>
  BY DEF Ecu, EcuAnswers, EcuNeedsTime, EcuForgets, EcuRecovers, ByEcu, workerVars, readVars, writeVars
<1>2. requests \in Seq(RequestType)
  BY DEF TimeInv, RequestTypes
<1>3. RequestTypes'
  <2>1. requests' = requests \/ (requests # <<>> /\ requests' = Tail(requests))
    BY DEF Ecu, EcuAnswers, EcuNeedsTime, EcuForgets, EcuRecovers
  <2>2. requests' \in Seq(RequestType)
    BY <1>2, <2>1, ShapeOfAnswered
  <2> QED
    BY <1>1, <2>2 DEF TimeInv, RequestTypes
<1>4. CASE ecu' # "good"
  BY <1>3, <1>4 DEF TimeInv
<1>5. CASE ecu' = "good"
  <2>1. ecu = "good" /\ (EcuAnswers \/ EcuNeedsTime)
    BY <1>5 DEF Ecu, EcuAnswers, EcuNeedsTime, EcuForgets, EcuRecovers
  <2>2. QueueInv /\ BufferInv /\ OwnValues
    BY <2>1 DEF TimeInv
  <2>3. CASE EcuAnswers
    <3>1. requests # <<>> /\ requests' = Tail(requests) /\ responsePending' = FALSE
          /\ m_IsoTpBuffer'.to = Head(requests)
      BY <2>3 DEF EcuAnswers, OnIsoTpDataReceived, Answer
    <3>2. PendingFirst(requests, responsePending) => OnlySessions(requests')
      BY <1>2, <3>1, ShapeOfAnswered
    <3>3. OnlySessions(requests') => PendingFirst(requests', FALSE) /\ OneRequest(requests')
      BY <1>3, ShapesWeaken DEF RequestTypes
    <3>4. worker \in Answering =>
            /\ LastIs(requests', Request("read", curr_did))
            /\ Head(requests).service = "session" \/ Head(requests) = Request("read", curr_did)
      BY <1>2, <2>2, <3>1, ShapeOfAnswered DEF QueueInv
    <3>5. OneRequest(requests) => OneRequest(requests')
      BY <1>2, <3>1, ShapeOfAnswered
    <3>6. QueueInv'
      BY <1>1, <2>2, <3>1, <3>2, <3>3, <3>4, <3>5 DEF QueueInv, AnnouncedIsFirst, Starting
    <3>7. BufferInv'
      BY <1>1, <3>1, <3>4 DEF BufferInv
    <3> QED
      BY <1>1, <1>3, <2>2, <3>6, <3>7 DEF TimeInv, OwnValues
  <2>4. CASE EcuNeedsTime
    <3>1. requests # <<>> /\ ~responsePending /\ Head(requests).service # "session"
          /\ UNCHANGED requests /\ responsePending' = TRUE /\ m_IsoTpBuffer'.to = Head(requests)
      BY <2>4 DEF EcuNeedsTime, OnIsoTpDataReceived, Answer
    <3>2. ~PendingFirst(requests, responsePending)
      <4>1. 1 \in 1 .. Len(requests) /\ requests[1].service # "session"
        BY <1>2, <3>1
      <4> QED
        BY <3>1, <4>1 DEF PendingFirst
    <3>3. AnnouncedIsFirst(requests', responsePending')
      BY <3>1 DEF AnnouncedIsFirst
    <3>4. QueueInv'
      BY <1>1, <2>2, <3>1, <3>2, <3>3 DEF QueueInv, Starting
    <3>5. worker \in Answering =>
            Head(requests).service = "session" \/ Head(requests) = Request("read", curr_did)
      BY <1>2, <2>2, <3>1, ShapeOfAnswered DEF QueueInv
    <3>6. BufferInv'
      BY <1>1, <3>1, <3>5 DEF BufferInv
    <3> QED
      BY <1>1, <1>3, <2>2, <3>4, <3>6 DEF TimeInv, OwnValues
  <2> QED
    BY <2>1, <2>3, <2>4
<1> QED
  BY <1>4, <1>5

\* A step of the worker that sends nothing.  A pause ends with no request left, or with one that
\* was announced as pending; a value that is taken over is that of curr_did.
LEMMA TimeMoves ==
  ASSUME TimeInv, NoSend, curr_did' \in {curr_did, NoDid}, m_PendingDidWrites' \in SUBSET Dids,
         worker' \notin {"session", "wsession"},
         worker' \in Answering => worker \in Answering /\ curr_did' = curr_did,
         worker' \in Starting => worker \in Starting \/ PauseOver,
         \/ UNCHANGED m_DidList
         \/ /\ worker \in Answering /\ Received("read", "positive")
            /\ m_DidList' = [m_DidList EXCEPT ![curr_did] = m_IsoTpBuffer.to.did]
  PROVE  TimeInv'
<1>1. RequestTypes'
  BY DEF TimeInv, RequestTypes, NoSend, ecuVars, Named
<1>2. CASE ecu # "good"
  BY <1>1, <1>2 DEF TimeInv, NoSend, ecuVars
<1>3. CASE ecu = "good"
  <2>1. QueueInv /\ BufferInv /\ OwnValues /\ requests \in Seq(RequestType)
    BY <1>3 DEF TimeInv, RequestTypes
  <2>2. UNCHANGED <<requests, responsePending, m_IsoTpBuffer, m_IsoTpBufLen>>
    BY DEF NoSend, bufferVars, ecuVars
  <2>3. PauseOver => PendingFirst(requests, responsePending)
    BY <1>3, <2>1, ShapesWeaken DEF PauseOver, QueueInv
  <2>4. QueueInv'
    BY <2>1, <2>2, <2>3 DEF QueueInv
  <2>5. BufferInv'
    BY <2>1, <2>2 DEF BufferInv
  <2>6. OwnValues'
    <3>1. CASE UNCHANGED m_DidList
      BY <2>1, <3>1 DEF OwnValues
    <3>2. CASE /\ worker \in Answering /\ Received("read", "positive")
               /\ m_DidList' = [m_DidList EXCEPT ![curr_did] = m_IsoTpBuffer.to.did]
      <4>1. m_IsoTpBuffer.to.did = curr_did
        BY <2>1, <3>2 DEF BufferInv, Received, Request
      <4> QED
        BY <2>1, <3>2, <4>1 DEF OwnValues, TimeInv, RequestTypes
    <3> QED
      BY <3>1, <3>2
  <2> QED
    BY <1>1, <2>4, <2>5, <2>6 DEF TimeInv
<1> QED
  BY <1>2, <1>3

\* The worker asks for a session.
LEMMA SessionSent ==
  ASSUME TimeInv, NEW did \in Named, Send("session", NoDid), curr_did' = did,
         worker \in Starting \/ PauseOver, worker' \in {"session", "wsession"},
         UNCHANGED <<m_PendingDidWrites, m_DidList>>
  PROVE  TimeInv'
<1>1. Request("session", NoDid) \in RequestType /\ Request("session", NoDid).service = "session"
  BY DEF Request, RequestType, Named
<1>2. requests \in Seq(RequestType) /\ requests' \in {requests, Append(requests, Request("session", NoDid))}
  BY DEF TimeInv, RequestTypes, Send
<1>3. RequestTypes'
  BY <1>1, <1>2, ShapeOfSent DEF TimeInv, RequestTypes
<1>4. UNCHANGED <<responsePending, ecu>> /\ m_IsoTpBufLen' = "0"
  BY DEF Send, ClearAnswer
<1>5. ASSUME ecu = "good" PROVE QueueInv' /\ BufferInv' /\ OwnValues'
  <2>1. QueueInv /\ OwnValues
    BY <1>5 DEF TimeInv
  <2>2. PendingFirst(requests, responsePending)
    BY <1>2, <1>5, <2>1, ShapesWeaken DEF PauseOver, QueueInv
  <2>3. PendingFirst(requests', responsePending) /\ AnnouncedIsFirst(requests', responsePending)
    BY <1>1, <1>2, <2>1, <2>2, ShapeOfSent DEF QueueInv
  <2>4. QueueInv'
    BY <1>4, <2>3 DEF QueueInv, Starting, Answering
  <2> QED
    BY <2>1, <2>4 DEF BufferInv, OwnValues, Answering
<1> QED
  BY <1>3, <1>4, <1>5 DEF TimeInv

\* The session is open, or the worker takes it for open: what was pending is answered.
LEMMA RequestSent ==
  ASSUME TimeInv, NEW service \in {"read", "write"}, Send(service, curr_did), UNCHANGED curr_did,
         worker \in {"session", "wsession"}, m_IsoTpBufLen = "data",
         worker' = "wanswer" \/ (worker' = "answer" /\ service = "read"),
         UNCHANGED <<m_PendingDidWrites, m_DidList>>
  PROVE  TimeInv'
<1> DEFINE r == Request(service, curr_did)
<1>1. r \in RequestType
  BY DEF Request, RequestType, TimeInv, RequestTypes
<1>2. requests \in Seq(RequestType) /\ requests' \in {requests, Append(requests, r)}
  BY DEF TimeInv, RequestTypes, Send
<1> HIDE DEF r
<1>3. RequestTypes'
  BY <1>1, <1>2, ShapeOfSent DEF TimeInv, RequestTypes
<1>4. UNCHANGED <<responsePending, ecu>> /\ m_IsoTpBuffer' = NoAnswer
  BY DEF Send, ClearAnswer
<1>5. ASSUME ecu = "good" PROVE QueueInv' /\ BufferInv' /\ OwnValues'
  <2>1. QueueInv /\ OwnValues
    BY <1>5 DEF TimeInv
  <2>2. OnlySessions(requests)
    BY <2>1 DEF QueueInv
  <2>3. LastIs(requests', r) /\ OneRequest(requests') /\ AnnouncedIsFirst(requests', responsePending)
    <3>1. LastIs(requests, r) /\ OneRequest(requests)
      BY <1>2, <2>2, ShapesWeaken
    <3> QED
      BY <1>1, <1>2, <2>1, <2>2, <3>1, ShapeOfSent DEF QueueInv
  <2>4. QueueInv'
    BY <1>4, <2>3 DEF QueueInv, Starting, Answering, r
  <2>5. BufferInv'
    BY <1>4 DEF BufferInv, NoAnswer, Answer, Request
  <2> QED
    BY <2>1, <2>4, <2>5 DEF OwnValues
<1> QED
  BY <1>3, <1>4, <1>5 DEF TimeInv

\* Line 200 clears the length, and what the buffer holds is not looked at any more.
LEMMA TimeCleared ==
  ASSUME TimeInv, ClearAnswer, UNCHANGED <<ecuVars, curr_did, m_PendingDidWrites, m_DidList>>,
         \/ worker \in Answering /\ worker' \in Answering
         \/ worker = "wclearing" /\ worker' = "wwaiting"
  PROVE  TimeInv'
<1>1. UNCHANGED <<requests, responsePending, ecu>> /\ m_IsoTpBuffer' = NoAnswer
  BY DEF ClearAnswer, ecuVars
<1>2. RequestTypes'
  BY <1>1 DEF TimeInv, RequestTypes
<1>3. QueueInv => QueueInv'
  BY <1>1 DEF QueueInv, Starting, Answering
<1>4. BufferInv'
  BY <1>1 DEF BufferInv, NoAnswer, Answer, Request
<1>5. OwnValues => OwnValues'
  BY DEF OwnValues
<1> QED
  BY <1>1, <1>2, <1>3, <1>4, <1>5 DEF TimeInv

\* What the worker looks at was asked for, while it reads.
LEMMA TimeReading == TimeInv /\ FrontInv /\ (Acquire \/ Reading) => TimeInv'
<1> SUFFICES ASSUME TimeInv, FrontInv, Acquire \/ Reading PROVE TimeInv'
  OBVIOUS
<1>w. m_PendingDidWrites' \in SUBSET Dids /\ UNCHANGED m_PendingDidWrites
  <2>1. UNCHANGED m_PendingDidWrites
    BY DEF Acquire, Reading, ReadNext, ReadsDone, SessionOpened, SessionFails, ReadAnswered,
           ReadUnanswered, ReadPositive, ReadPending, ReadRejected, ReadRefused, ReadIgnored,
           ClearLength, WaitingOver, WaitingGoesOn, Pause, MovesTo, ByReading, writeVars
  <2> QED
    BY <2>1 DEF TimeInv, RequestTypes
<1> USE DEF Starting, Answering
<1>1. CASE ReadNext
  <2>1. Head(m_PendingDidReads) \in Named
    BY <1>1 DEF ReadNext, FrontInv, Named
  <2> QED
    BY <1>1, <1>w, <2>1, SessionSent DEF ReadNext, Goto, readVars
<1>2. CASE SessionOpened
  BY <1>2, <1>w, RequestSent DEF SessionOpened, Goto, GotResponse
<1>3. CASE ClearLength
  BY <1>3, <1>w, TimeCleared DEF ClearLength, Goto, readVars
<1>4. CASE Acquire \/ ReadsDone
  BY <1>4, <1>w, TimeMoves DEF Acquire, ReadsDone, MovesTo, Goto, readVars
<1>5. CASE SessionFails
  BY <1>5, <1>w, TimeMoves DEF SessionFails, Goto
<1>6. CASE ReadAnswered \/ ReadUnanswered \/ ReadIgnored \/ Pause
  BY <1>6, <1>w, TimeMoves
     DEF ReadAnswered, ReadUnanswered, ReadIgnored, Pause, Settled, MovesTo, Goto, readVars
<1>7. CASE ReadPositive \/ ReadRejected
  BY <1>7, <1>w, TimeMoves
     DEF ReadPositive, ReadRejected, Settled, Goto, ProcessReadDidResponse, ProcessRejectedNrc
<1>8. CASE ReadPending \/ ReadRefused
  BY <1>8, <1>w, TimeMoves DEF ReadPending, ReadRefused, Settled, Goto, readVars
<1>9. CASE WaitingOver
  BY <1>9, <1>w, TimeMoves
     DEF WaitingOver, Goto, ProcessReadDidResponse, ProcessRejectedNrc, readVars
<1>10. CASE WaitingGoesOn
  BY <1>10, <1>w, TimeMoves DEF WaitingGoesOn, WaitsOn, Goto
<1> QED
  BY <1>1, <1>2, <1>3, <1>4, <1>5, <1>6, <1>7, <1>8, <1>9, <1>10 DEF Reading

\* And while it writes.
LEMMA TimeWriting == TimeInv /\ Writing => TimeInv'
<1> SUFFICES ASSUME TimeInv, Writing PROVE TimeInv'
  OBVIOUS
<1>w. m_PendingDidWrites \in SUBSET Dids /\ {} \in SUBSET Dids
  BY DEF TimeInv, RequestTypes
<1> USE DEF Starting, Answering, ByWriting, readVars, Goto
<1>1. CASE FirstWrite \/ NextWrite
  <2>1. PICK did \in {Min(m_PendingDidWrites), Min(Ahead)} :
          StartWrite(did) /\ (worker = "writing" \/ PauseOver) /\ UNCHANGED m_PendingDidWrites
    BY <1>1 DEF FirstWrite, NextWrite, StartWrite
  <2>2. did \in Named
    BY <1>w DEF Named, Ahead
  <2> QED
    BY <2>1, <2>2, SessionSent DEF StartWrite
<1>2. CASE NoWrites \/ WritesDone
  BY <1>2, <1>w, TimeMoves DEF NoWrites, WritesDone, Ends, writeVars
<1>3. CASE WriteSessionOpened
  BY <1>3, RequestSent DEF WriteSessionOpened, GotResponse
<1>4. CASE WriteClearLength
  BY <1>4, TimeCleared DEF WriteClearLength, writeVars
<1>5. CASE WriteSessionFails \/ WriteAnswered \/ WriteWaited
  <2>1. /\ NoSend /\ UNCHANGED <<curr_did, m_DidList, m_PendingDidWrites>>
        /\ worker' \in {"wpause", "wclearing"}
    BY <1>5 DEF WriteSessionFails, WriteAnswered, WriteWaited, MovesTo, ByReading, writeVars
  <2> QED
    BY <1>w, <2>1, TimeMoves
<1> QED
  BY <1>1, <1>2, <1>3, <1>4, <1>5 DEF Writing

\* The buffer is compared with neither the request nor the DID: with an ECU that answers every
\* request in time, however often it announces that the answer is pending, and whatever is
\* aborted, no DID gets the value of another one all the same.
THEOREM ValuesAreOfTheirDid == Spec => []ValuesOnTime
<1>1. Init => FrontInv /\ TimeInv
  <2>1. ASSUME Init PROVE RequestTypes
    BY <2>1 DEF Init, RequestTypes, Named
  <2>2. ASSUME Init PROVE QueueInv /\ BufferInv /\ OwnValues
    <3>1. OnlySessions(<<>>) /\ PendingFirst(<<>>, FALSE)
      BY DEF OnlySessions, PendingFirst
    <3> QED
      BY <2>2, <3>1
         DEF Init, QueueInv, BufferInv, OwnValues, AnnouncedIsFirst, Starting, Answering
  <2> QED
    BY <2>1, <2>2, FrontInit DEF TimeInv
<1>2. FrontInv /\ TimeInv /\ [Next]_vars => FrontInv' /\ TimeInv'
  <2>1. FrontInv /\ [Next]_vars => FrontInv'
    <3>1. FrontInv /\ UNCHANGED vars => FrontInv'
      BY DEF FrontInv, FrontIsCurrent, ReadPlaces, vars, readVars, workerVars
    <3> QED
      BY <3>1, FrontOthers, FrontReading, FrontWriting DEF Next, WorkerThread
  <2>2. TimeInv /\ UNCHANGED vars => TimeInv'
    BY DEF TimeInv, RequestTypes, QueueInv, BufferInv, OwnValues, vars, readVars, writeVars, bufferVars,
           ecuVars, workerVars
  <2> QED
    BY <2>1, <2>2, TimeGui, TimeEcu, TimeReading, TimeWriting DEF Next, WorkerThread
<1>3. TimeInv => ValuesOnTime
  BY DEF TimeInv, OwnValues, ValuesOnTime
<1> QED
  BY <1>1, <1>2, <1>3, PTL DEF Spec
=============================================================================
