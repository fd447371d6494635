----------------------------- MODULE DidHandler -----------------------------
(***************************************************************************)
(* The UDS client (DidHandler.cpp): the GUI asks for DIDs to be read and   *)
(* written, one worker thread asks the ECU over ISO-TP, and the GUI shows  *)
(* what was updated (gui/DidTab.cpp).  The ECU answers each request, in    *)
(* order, one at a time; it may first answer that the response is pending. *)
(*                                                                         *)
(* AddDidToReadQueue, WriteDid, NotifyDidUpdate, AbortDidUpdate and        *)
(* OnIsoTpDataReceived are called or relied upon by readable code, their   *)
(* bodies are not readable: they do here what that code needs of them.     *)
(* The values of DIDs are left out; a value is named by the DID that the   *)
(* ECU was asked for.                                                      *)
(*                                                                         *)
(* An operator Op_Bug, before the Op it stands for, is Op with a bug: the  *)
(* properties are tested against it and nothing here uses it.              *)
(***************************************************************************)
EXTENDS Naturals, Sequences, FiniteSetsExt

CONSTANTS
  MaxDid,                        \* the DIDs are 1 .. MaxDid
  ReadDids,                      \* those that the GUI asks to be read
  FirstRead,                     \* bound: the one it asks for first, reading being alike for all
  MAX_EXTENDED_SESSION_RETRIES,
  Bounds,                        \* bounds: how often the GUI does each thing, as records
  MaxRequests                    \* requests an ECU queues; it ignores further ones

ASSUME DidBounds ==
  /\ MaxDid \in Nat /\ ReadDids \subseteq 1 .. MaxDid /\ FirstRead \in ReadDids
  /\ Bounds \subseteq [reads : Nat, writes : Nat, aborts : Nat, shows : Nat]
  /\ MAX_EXTENDED_SESSION_RETRIES \in Nat /\ MaxRequests \in Nat \ {0}

VARIABLES
  m_PendingDidReads,
  m_PendingDidWrites,  \* the DIDs that are its keys
  m_UpdatedDids,       \* as a set
  m_IsAborted,
  m_Semaphore,         \* its count is 1
  m_IsoTpBuffer,       \* the last answer
  m_IsoTpBufLen,       \* "0", "data", or "aborted" for 0xFFFF
  m_DidList,           \* the values, each named by the DID the ECU answered for
  worker,              \* where the worker is
  curr_did,            \* the DID it reads or writes
  retries,             \* extended_session_retry_count
  requests,            \* the requests the ECU has not answered
  responsePending,     \* it has answered "response pending" to the first one
  ecu,                 \* "good": on time; "faulty": late, losing; "recovered"
  gui,                 \* "shown": between showing the updates and clearing them
  notify,              \* NotifyDidUpdate is still to be called
  reads, writes, aborts, shows,  \* bound: calls so far
  refused,             \* history: a negative answer has left its DID pending
  untried,             \* history: DIDs to write that the worker did not get to
  unshown,             \* history: DIDs that changed since they were shown
  missed               \* history: those that changed while gui = "shown", or by NRC 22

readVars   == <<m_PendingDidReads, m_DidList, retries, refused>>
writeVars  == <<m_PendingDidWrites, untried>>
updateVars == <<m_UpdatedDids, unshown, missed>>
abortVars  == <<m_IsAborted, aborts>>
bufferVars == <<m_IsoTpBuffer, m_IsoTpBufLen>>
ecuVars    == <<requests, responsePending, ecu>>
guiVars    == <<gui, notify, reads, writes, shows>>
workerVars == <<worker, curr_did, m_Semaphore>>
vars == <<readVars, writeVars, updateVars, abortVars, bufferVars, ecuVars, guiVars, workerVars>>

Dids   == 1 .. MaxDid
NoDid  == 0
Request(service, did) == [service |-> service, did |-> did]
Answer(request, says) == [to |-> request, says |-> says]
NoAnswer == Answer(Request("none", NoDid), "nothing")

Init ==
  /\ m_PendingDidReads = <<>>
  /\ m_PendingDidWrites = {}
  /\ m_UpdatedDids = {}
  /\ m_IsAborted = FALSE
  /\ m_Semaphore = FALSE
  /\ m_IsoTpBuffer = NoAnswer
  /\ m_IsoTpBufLen = "0"
  /\ m_DidList = [d \in Dids |-> NoDid]
  /\ worker = "idle"
  /\ curr_did = NoDid
  /\ retries = 0
  /\ requests = <<>>
  /\ responsePending = FALSE
  /\ ecu \in {"good", "faulty"}
  /\ gui = "idle"
  /\ notify = FALSE
  /\ reads = 0 /\ writes = 0 /\ aborts = 0 /\ shows = 0
  /\ refused = FALSE
  /\ untried = {} /\ unshown = {} /\ missed = {}

-----------------------------------------------------------------------------
(* The GUI thread.                                                         *)

\* Calls of AddDidToReadQueue, WriteDid and AbortDidUpdate, and times the updates are shown
WithinBounds(r, w, a, s) ==
  \E b \in Bounds : r <= b.reads /\ w <= b.writes /\ a <= b.aborts /\ s <= b.shows

ByGui == UNCHANGED <<ecuVars, worker, curr_did, m_DidList, retries, refused, m_IsoTpBuffer>>

AddDidToReadQueue(did) ==
  /\ WithinBounds(reads + 1, writes, aborts, shows)
  /\ reads = 0 => did = FirstRead
  /\ reads' = reads + 1
  /\ m_PendingDidReads' = Append(m_PendingDidReads, did)
  /\ notify' = TRUE
  /\ ByGui
  /\ UNCHANGED <<writeVars, updateVars, abortVars, gui, writes, shows, m_Semaphore, m_IsoTpBufLen>>

\* A DID that is already a key gets the new value.
WriteDid(did) ==
  /\ WithinBounds(reads, writes + 1, aborts, shows)
  /\ writes' = writes + 1
  /\ m_PendingDidWrites' = m_PendingDidWrites \cup {did}
  /\ untried' = untried \cup {did}
  /\ notify' = TRUE
  /\ ByGui
  /\ UNCHANGED <<m_PendingDidReads, updateVars, abortVars, gui, reads, shows, m_Semaphore,
                 m_IsoTpBufLen>>

\* A release of a binary semaphore that is released already has no effect.
NotifyDidUpdate ==
  /\ notify
  /\ notify' = FALSE
  /\ m_Semaphore' = TRUE
  /\ ByGui
  /\ UNCHANGED <<m_PendingDidReads, writeVars, updateVars, abortVars, gui, reads, writes, shows,
                 m_IsoTpBufLen>>

\* The length 0xFFFF ends a wait for an answer, unless the worker clears it first.
AbortDidUpdate ==
  /\ WithinBounds(reads, writes, aborts + 1, shows)
  /\ aborts' = aborts + 1
  /\ m_IsAborted' = TRUE
  /\ m_IsoTpBufLen' = "aborted" \/ (m_IsoTpBufLen = "0" /\ UNCHANGED m_IsoTpBufLen)
  /\ ByGui
  /\ UNCHANGED <<m_PendingDidReads, writeVars, updateVars, guiVars, m_Semaphore>>

\* On100msTimer goes through the updates and then clears them, without a lock.
ShowUpdates ==
  /\ gui = "idle"
  /\ m_UpdatedDids # {}
  /\ WithinBounds(reads, writes, aborts, shows + 1)
  /\ shows' = shows + 1
  /\ gui' = "shown"
  /\ unshown' = unshown \ m_UpdatedDids
  /\ missed' = missed \ m_UpdatedDids
  /\ ByGui
  /\ UNCHANGED <<m_PendingDidReads, writeVars, m_UpdatedDids, abortVars, notify, reads, writes,
                 m_Semaphore, m_IsoTpBufLen>>

ClearUpdates ==
  /\ gui = "shown"
  /\ gui' = "idle"
  /\ m_UpdatedDids' = {}
  /\ ByGui
  /\ UNCHANGED <<m_PendingDidReads, writeVars, unshown, missed, abortVars, notify, reads, writes,
                 shows, m_Semaphore, m_IsoTpBufLen>>

-----------------------------------------------------------------------------
(* The ECU, and OnIsoTpDataReceived.                                       *)

ByEcu == UNCHANGED <<readVars, writeVars, updateVars, abortVars, guiVars, workerVars>>

OnIsoTpDataReceived(answer) ==
  /\ m_IsoTpBuffer' = answer
  /\ m_IsoTpBufLen' = "data"

Says(service) ==
  CASE service = "session" -> {"positive", "rejected"}
    [] service = "read"    -> {"positive", "rejected", "refused", "negative"}
    [] service = "write"   -> {"positive", "rejected", "negative"}

\* It says "pending" (NRC 78), "rejected" (10), "refused" (22) or "negative" (another).
\* Only a faulty one answers between a look at an answer and the clearing of its length.
EcuAnswers ==
  /\ requests # <<>>
  /\ ecu = "faulty" \/ worker \notin {"clearing", "wclearing"}
  /\ \E says \in Says(Head(requests).service) :
       OnIsoTpDataReceived(Answer(Head(requests), says))
  /\ requests' = Tail(requests)
  /\ responsePending' = FALSE
  /\ ByEcu /\ UNCHANGED ecu

EcuNeedsTime ==
  /\ requests # <<>>
  /\ ~responsePending
  /\ Head(requests).service # "session"
  /\ OnIsoTpDataReceived(Answer(Head(requests), "pending"))
  /\ responsePending' = TRUE
  /\ ByEcu /\ UNCHANGED <<requests, ecu>>

\* A request, or its answer, is lost.
EcuForgets ==
  /\ ecu = "faulty"
  /\ requests # <<>>
  /\ requests' = Tail(requests)
  /\ responsePending' = FALSE
  /\ ByEcu /\ UNCHANGED <<bufferVars, ecu>>

EcuRecovers ==
  /\ ecu = "faulty"
  /\ ecu' = "recovered"
  /\ ByEcu /\ UNCHANGED <<bufferVars, requests, responsePending>>

Ecu == EcuAnswers \/ EcuNeedsTime \/ EcuForgets \/ EcuRecovers

\* A wait times out only when no answer is due; a pause outlasts every answer but
\* the one that was announced as pending.
Unanswered == requests = <<>> \/ ecu = "faulty"
PauseOver  == requests = <<>> \/ responsePending \/ ecu = "faulty"

-----------------------------------------------------------------------------
(* The worker: SendUdsFrameAndWaitForResponse and WaitForResponse.         *)

\* Where the worker goes, and for which DID.
Goto(place, did) == worker' = place /\ curr_did' = did

\* Length 0: what the buffer holds is not looked at any more.
ClearAnswer == m_IsoTpBuffer' = NoAnswer /\ m_IsoTpBufLen' = "0"

\* A request that does not fit is ignored.
Send(service, did) ==
  /\ requests' = IF Len(requests) < MaxRequests
                 THEN Append(requests, Request(service, did)) ELSE requests
  /\ ClearAnswer
  /\ UNCHANGED <<responsePending, ecu>>

NoSend == UNCHANGED <<bufferVars, ecuVars>>

GotResponse == m_IsoTpBufLen = "data"
NoResponse  == m_IsoTpBufLen = "aborted" \/ (m_IsoTpBufLen = "0" /\ Unanswered)

Received(service, says) ==
  m_IsoTpBuffer.to.service = service /\ m_IsoTpBuffer.says = says
NegativeIs(says) == m_IsoTpBuffer.says = says

\* What a step of the reading, and one of the writing, leaves alone; one that only waits
\* or looks leaves everything alone.
ByReading == UNCHANGED <<writeVars, abortVars, guiVars, m_Semaphore>>
ByWriting == UNCHANGED <<readVars, updateVars, guiVars, m_Semaphore>>
MovesTo(place, did) ==
  Goto(place, did) /\ NoSend /\ ByReading /\ UNCHANGED <<readVars, updateVars>>

-----------------------------------------------------------------------------
(* What the end of a request does to the DID that was read.                *)

Push(did) ==
  /\ m_UpdatedDids' = m_UpdatedDids \cup {did}
  /\ unshown' = unshown \cup {did}
  /\ missed' = IF gui = "shown" THEN missed \cup {did} ELSE missed

ProcessReadDidResponse_PopsFirst ==
  /\ m_PendingDidReads' = Tail(m_PendingDidReads)
  /\ m_DidList' = IF Len(m_PendingDidReads) = 1 THEN m_DidList
                  ELSE [m_DidList EXCEPT ![m_PendingDidReads[2]] = m_IsoTpBuffer.to.did]
  /\ Push(curr_did)
  /\ UNCHANGED <<retries, refused>>

\* The answer is not compared with curr_did.
ProcessReadDidResponse ==
  /\ m_PendingDidReads' = Tail(m_PendingDidReads)
  /\ m_DidList' = [m_DidList EXCEPT ![curr_did] = m_IsoTpBuffer.to.did]
  /\ Push(curr_did)
  /\ UNCHANGED <<retries, refused>>

\* The push of line 260 is missing.
ProcessRejectedNrc_NotAnnounced ==
  /\ m_PendingDidReads' = Tail(m_PendingDidReads)
  /\ unshown' = unshown \cup {curr_did}
  /\ UNCHANGED <<m_DidList, retries, refused, m_UpdatedDids, missed>>

\* Its callers push the DID (line 260).
ProcessRejectedNrc ==
  /\ m_PendingDidReads' = Tail(m_PendingDidReads)
  /\ Push(curr_did)
  /\ UNCHANGED <<m_DidList, retries, refused>>

-----------------------------------------------------------------------------
(* The worker: HandleDidReading.                                           *)

Acquire ==
  /\ worker = "idle"
  /\ m_Semaphore
  /\ m_Semaphore' = FALSE
  /\ Goto("reading", NoDid)
  /\ retries' = 0
  /\ NoSend
  /\ UNCHANGED <<m_PendingDidReads, m_DidList, refused, writeVars, updateVars, abortVars, guiVars>>

\* The loop goes on: the first pending DID, and the session it needs.
ReadNext ==
  /\ worker = "reading"
  /\ m_PendingDidReads # <<>> /\ ~m_IsAborted
  /\ Goto("session", Head(m_PendingDidReads))
  /\ Send("session", NoDid)
  /\ ByReading /\ UNCHANGED <<readVars, updateVars>>

ReadsDone ==
  /\ worker = "reading"
  /\ m_PendingDidReads = <<>> \/ m_IsAborted
  /\ MovesTo("writing", NoDid)

\* Any answer is taken for the answer to the session request.
SessionOpened ==
  /\ worker = "session" /\ GotResponse
  /\ Goto("answer", curr_did)
  /\ Send("read", curr_did)
  /\ retries' = 0
  /\ ByReading /\ UNCHANGED <<m_PendingDidReads, m_DidList, refused, updateVars>>

GivesUp_Never == FALSE
GivesUp == retries + 1 > MAX_EXTENDED_SESSION_RETRIES

SessionFails ==
  /\ worker = "session" /\ NoResponse
  /\ IF GivesUp
     THEN /\ m_PendingDidReads' = <<>>
          /\ retries' = 0
          /\ Goto("writing", NoDid)
     ELSE /\ retries' = retries + 1
          /\ Goto("pause", curr_did)
          /\ UNCHANGED m_PendingDidReads
  /\ NoSend /\ ByReading /\ UNCHANGED <<m_DidList, refused, updateVars>>

\* The answer is looked at 50 ms later.
ReadAnswered   == worker = "answer" /\ GotResponse /\ MovesTo("settle", curr_did)
ReadUnanswered == worker = "answer" /\ NoResponse /\ MovesTo("pause", curr_did)

Settled == worker = "settle" /\ PauseOver

ReadPositive ==
  /\ Settled
  /\ Received("read", "positive")
  /\ ProcessReadDidResponse
  /\ Goto("pause", curr_did) /\ NoSend /\ ByReading

\* NRC 78 to a read: wait on, unless it was aborted.
ReadPending ==
  /\ Settled
  /\ Received("read", "pending")
  /\ IF m_IsAborted
     THEN Goto("pause", curr_did) /\ Push(curr_did)
     ELSE Goto("clearing", curr_did) /\ UNCHANGED updateVars
  /\ NoSend /\ ByReading /\ UNCHANGED readVars

\* NRC 10, and any other one but 22, NRC 78 to another service included.
ReadRejected ==
  /\ Settled
  /\ \/ NegativeIs("rejected") \/ NegativeIs("negative")
     \/ NegativeIs("pending") /\ ~Received("read", "pending")
  /\ ProcessRejectedNrc
  /\ Goto("pause", curr_did) /\ NoSend /\ ByReading

\* Line 251 leaves the loop: the DID stays pending, and no update is announced.
ReadRefused ==
  /\ Settled
  /\ NegativeIs("refused")
  /\ refused' = TRUE
  /\ unshown' = unshown \cup {curr_did}
  /\ missed' = missed \cup {curr_did}
  /\ Goto("writing", NoDid)
  /\ NoSend /\ ByReading /\ UNCHANGED <<m_PendingDidReads, m_DidList, retries, m_UpdatedDids>>

\* The answer to a session request, or to a write.
ReadIgnored ==
  /\ Settled
  /\ m_IsoTpBuffer.says = "positive" /\ ~Received("read", "positive")
  /\ MovesTo("pause", curr_did)

\* Line 200: the length is cleared before every wait, that of a new answer too.
ClearLength ==
  /\ worker = "clearing"
  /\ Goto("waiting", curr_did)
  /\ ClearAnswer
  /\ ByReading /\ UNCHANGED <<ecuVars, readVars, updateVars>>

\* The wait after NRC 78 is over: without an answer, or with one that ends it.
WaitingEnds_OnAnswerOnly == GotResponse
WaitingEnds == GotResponse \/ NoResponse

WaitingOver ==
  /\ worker = "waiting"
  /\ WaitingEnds
  /\ \/ NoResponse /\ Push(curr_did) /\ UNCHANGED readVars
     \/ GotResponse /\ Received("read", "positive") /\ ProcessReadDidResponse
     \/ GotResponse /\ NegativeIs("rejected") /\ ProcessRejectedNrc
     \/ /\ GotResponse /\ NegativeIs("refused")
        /\ refused' = TRUE
        /\ Push(curr_did)
        /\ UNCHANGED <<m_PendingDidReads, m_DidList, retries>>
  /\ Goto("pause", curr_did) /\ NoSend /\ ByReading

WaitsOn == Goto(IF m_IsAborted THEN "pause" ELSE "clearing", curr_did)

\* The break of line 212 is missing.
WaitingGoesOn_AfterValue ==
  /\ worker = "waiting" /\ GotResponse
  /\ IF Received("read", "positive") THEN ProcessReadDidResponse
                                     ELSE Push(curr_did) /\ UNCHANGED readVars
  /\ WaitsOn /\ NoSend /\ ByReading

\* Any other answer is announced as an update, and waited on, an NRC that the
\* reading rejects at once (line 255) included.
WaitingGoesOn ==
  /\ worker = "waiting" /\ GotResponse
  /\ ~Received("read", "positive") /\ ~NegativeIs("rejected") /\ ~NegativeIs("refused")
  /\ Push(curr_did)
  /\ refused' = (refused \/ NegativeIs("negative"))
  /\ WaitsOn /\ NoSend /\ ByReading /\ UNCHANGED <<m_PendingDidReads, m_DidList, retries>>

Pause == worker = "pause" /\ PauseOver /\ MovesTo("reading", NoDid)

Reading ==
  \/ ReadNext \/ ReadsDone \/ SessionOpened \/ SessionFails \/ ReadAnswered \/ ReadUnanswered
  \/ ReadPositive \/ ReadPending \/ ReadRejected \/ ReadRefused \/ ReadIgnored
  \/ ClearLength \/ WaitingOver \/ WaitingGoesOn \/ Pause

-----------------------------------------------------------------------------
(* The worker: HandleDidWriting.  Its loop goes through the keys in        *)
(* ascending order, those that WriteDid adds ahead of it included.         *)

StartWrite(did) ==
  /\ Goto("wsession", did)
  /\ Send("session", NoDid)
  /\ untried' = untried \ {did}
  /\ ByWriting /\ UNCHANGED <<m_PendingDidWrites, abortVars>>

FirstWrite ==
  /\ worker = "writing"
  /\ m_PendingDidWrites # {} /\ ~m_IsAborted
  /\ StartWrite(Min(m_PendingDidWrites))

\* Line 373, after which the worker waits for the semaphore.
Ends == m_IsAborted' = FALSE /\ Goto("idle", NoDid) /\ NoSend /\ ByWriting /\ UNCHANGED aborts

NoWrites ==
  /\ worker = "writing"
  /\ m_PendingDidWrites = {} \/ m_IsAborted
  /\ Ends /\ UNCHANGED writeVars

\* Line 300 takes the value that the key has now.
WriteSessionOpened ==
  /\ worker = "wsession" /\ GotResponse
  /\ Goto("wanswer", curr_did)
  /\ Send("write", curr_did)
  /\ untried' = untried \ {curr_did}
  /\ ByWriting /\ UNCHANGED <<m_PendingDidWrites, abortVars>>

WriteSessionFails == worker = "wsession" /\ NoResponse /\ MovesTo("wpause", curr_did)

\* NRC 78 to a write is waited on, unless it was aborted; any other answer is the last.
WriteAnswered ==
  /\ worker = "wanswer"
  /\ GotResponse \/ NoResponse
  /\ MovesTo(IF GotResponse /\ Received("write", "pending") /\ ~m_IsAborted
             THEN "wclearing" ELSE "wpause", curr_did)

WriteClearLength ==
  /\ worker = "wclearing"
  /\ Goto("wwaiting", curr_did)
  /\ ClearAnswer
  /\ ByWriting /\ UNCHANGED <<ecuVars, writeVars, abortVars>>

WriteWaited ==
  /\ worker = "wwaiting"
  /\ GotResponse \/ NoResponse
  /\ LET ends == \/ NoResponse \/ Received("write", "positive")
                 \/ NegativeIs("rejected") \/ m_IsAborted
     IN MovesTo(IF ends THEN "wpause" ELSE "wclearing", curr_did)

Ahead == {d \in m_PendingDidWrites : d > curr_did}

NextWrite ==
  /\ worker = "wpause" /\ PauseOver
  /\ Ahead # {}
  /\ StartWrite(Min(Ahead))

WritesDone_KeepsThem ==
  /\ worker = "wpause" /\ PauseOver
  /\ Ahead = {}
  /\ Ends /\ UNCHANGED writeVars

\* The keys that were added behind the loop are cleared too.
WritesDone ==
  /\ worker = "wpause" /\ PauseOver
  /\ Ahead = {}
  /\ m_PendingDidWrites' = {}
  /\ Ends /\ UNCHANGED untried

Writing ==
  \/ FirstWrite \/ NoWrites \/ WriteSessionOpened \/ WriteSessionFails \/ WriteAnswered
  \/ WriteClearLength \/ WriteWaited \/ NextWrite \/ WritesDone

WorkerThread == Acquire \/ Reading \/ Writing

-----------------------------------------------------------------------------
Gui ==
  \/ \E did \in ReadDids : AddDidToReadQueue(did)
  \/ \E did \in Dids : WriteDid(did)
  \/ NotifyDidUpdate \/ AbortDidUpdate \/ ShowUpdates \/ ClearUpdates

Next == Gui \/ Ecu \/ WorkerThread

Spec == Init /\ [][Next]_vars

\* The worker and the GUI's timer keep running, the GUI notifies what it added, an
\* ECU answers what it has not lost, and a faulty one recovers.
Fairness ==
  /\ WF_vars(WorkerThread)
  /\ WF_vars(NotifyDidUpdate)
  /\ WF_vars(EcuAnswers)
  /\ WF_vars(EcuRecovers)

FairSpec == Spec /\ Fairness

-----------------------------------------------------------------------------
(* Properties.                                                             *)

Asked   == {Request("session", NoDid)} \cup {Request(s, d) : s \in {"read", "write"}, d \in Dids}
ReadPlaces == {"session", "answer", "settle", "clearing", "waiting"}

\* Every variable has its type.
TypeOK ==
  /\ m_PendingDidReads \in Seq(Dids)
  /\ m_PendingDidWrites \subseteq Dids /\ untried \subseteq Dids
  /\ m_UpdatedDids \subseteq Dids /\ unshown \subseteq Dids /\ missed \subseteq Dids
  /\ m_IsAborted \in BOOLEAN /\ m_Semaphore \in BOOLEAN /\ notify \in BOOLEAN
  /\ refused \in BOOLEAN /\ responsePending \in BOOLEAN
  /\ m_IsoTpBuffer = NoAnswer \/ m_IsoTpBuffer.to \in Asked
  /\ m_IsoTpBufLen \in {"0", "data", "aborted"}
  /\ m_DidList \in [Dids -> Dids \cup {NoDid}]
  /\ worker \in ReadPlaces \cup {"idle", "reading", "pause", "writing", "wsession", "wanswer",
                                 "wclearing", "wwaiting", "wpause"}
  /\ curr_did \in Dids \cup {NoDid}
  /\ retries \in 0 .. MAX_EXTENDED_SESSION_RETRIES
  /\ requests \in Seq(Asked) /\ Len(requests) <= MaxRequests
  /\ ecu \in {"good", "faulty", "recovered"} /\ gui \in {"idle", "shown"}
  /\ reads \in Nat /\ writes \in Nat /\ aborts \in Nat /\ shows \in Nat

\* While the worker asks for a DID, that DID is the front of the pending reads: what
\* ProcessReadDidResponse and ProcessRejectedNrc pop is the DID they were given, and
\* they never pop an empty deque, whatever was added, aborted or answered meanwhile.
FrontIsCurrent ==
  worker \in ReadPlaces => m_PendingDidReads # <<>> /\ Head(m_PendingDidReads) = curr_did

\* With an ECU that answers each request in time, also after "response pending" and
\* also when waits are aborted, no DID gets the value of another one.
ValuesOnTime ==
  ecu = "good" => \A d \in Dids : m_DidList[d] \in {NoDid, d}

\* Whatever the ECU does, a DID never gets the value of another one.
ValueIsOfItsDid == \A d \in Dids : m_DidList[d] \in {NoDid, d}

\* An update that the GUI has not shown is still in m_UpdatedDids, unless it came
\* while On100msTimer went through the updates, before their clearing, or was NRC 22.
UpdatesLostOnlyInClear == unshown \subseteq m_UpdatedDids \cup missed

\* A DID that WriteDid was called with stays pending until the worker asks the ECU.
WritesAreTried == untried \subseteq m_PendingDidWrites

\* Once notified, the pending reads end: every DID is answered or given up, whatever
\* a faulty ECU lost, unless the user aborts, the ECU refuses with NRC 22, or it gives
\* another NRC than 10 after a pending response: the worker asks again and again then.
EveryReadEnds ==
  (m_Semaphore /\ m_PendingDidReads # <<>>) ~> (m_PendingDidReads = <<>> \/ m_IsAborted \/ refused)

\* Once notified, the pending writes end, unless the user aborts or, as above,
\* the reading that comes first does not end.
EveryWriteEnds ==
  (m_Semaphore /\ m_PendingDidWrites # {}) ~> (m_PendingDidWrites = {} \/ m_IsAborted \/ refused)

=============================================================================
