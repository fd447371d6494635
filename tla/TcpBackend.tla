----------------------------- MODULE TcpBackend -----------------------------
(***************************************************************************)
(* The TCP backend for the sensors (Server.cpp, Session.cpp).  One thread, *)
(* the worker, runs the io_service and with it every completion handler;   *)
(* the main thread starts and destroys the server; BroadcastMessage may be *)
(* called by any other thread.  m_IoMutex is taken by every handler, by    *)
(* BroadcastMessage and by StopAsync of the server, but not by             *)
(* Session::HandleWrite, whose steps are therefore separate actions.       *)
(*                                                                         *)
(* Sessions are numbered in the order StartAccept creates them.  A reply   *)
(* and the broadcasts are numbers; what they say is left out.              *)
(*                                                                         *)
(* An operator Op_Bug, before the Op it stands for, is Op with a bug: the  *)
(* properties are tested against it and nothing here uses it.              *)
(***************************************************************************)
EXTENDS Naturals, Sequences, FiniteSets, SequencesExt

CONSTANTS
  Addresses,      \* IP addresses of the clients
  NoAddress,      \* the empty sessionAddress
  MaxSessions,    \* bound: clients that connect
  MaxListeners,   \* bound: those that connect when there are broadcasts
  MaxBroadcasts   \* bound: calls of BroadcastMessage

ASSUME AddressAssumption == NoAddress \notin Addresses
ASSUME BackendBounds == MaxSessions \in Nat /\ MaxListeners \in Nat /\ MaxBroadcasts \in Nat

VARIABLES
  main,        \* the thread that owns the server: Init, then ~Server
  worker,      \* StartAsync, run by the worker thread
  stopped,     \* io_service.stop() was called
  acceptor,    \* the pointer is set
  accepting,   \* the session async_accept waits for, 0 if it does not wait
  sessions,    \* the set of that name
  toStop,      \* the sessions ~Server has not stopped yet
  session,     \* the Session objects
  writer,      \* HandleWrite: its session and the step it is at
  broadcast,   \* BroadcastMessage: the session it is at, its step, the sessions left
  broadcasts   \* bound: calls of BroadcastMessage so far

serverVars == <<main, worker, stopped, acceptor, accepting>>
broadcastVars == <<broadcast, broadcasts>>
vars == <<serverVars, sessions, toStop, session, writer, broadcastVars>>

Sessions   == 1 .. MaxSessions
NoSession  == 0
NoMessage  == 0
Reply      == MaxBroadcasts + 1
Messages   == 1 .. Reply

NewSession ==
  [open |-> FALSE, sessionAddress |-> NoAddress, reading |-> FALSE,
   pendingMessages |-> <<>>, sentData |-> NoMessage,
   writeInProgress |-> FALSE, is_close_pending |-> FALSE,
   writes |-> 0,       \* async_writes that have not completed
   timers |-> 0,       \* waits of transferTimer that will not be cancelled
   given |-> {},       \* history: messages SendAsync took
   sent |-> <<>>,      \* history: messages written, in order
   failed |-> FALSE,   \* history: a write failed
   raced |-> FALSE]    \* history: two writes were in progress at once

Idle == [step |-> "idle", of |-> NoSession]

\* No thread is inside m_IoMutex: the other handlers are single steps.
IoMutexFree == main # "stopping" /\ broadcast.step = "idle"

\* The worker is inside io_service.run() and between two handlers.
Ready == worker = "running" /\ ~stopped /\ writer = Idle

Init ==
  /\ main = "created"
  /\ worker = "absent"
  /\ stopped = FALSE
  /\ acceptor = FALSE
  /\ accepting = NoSession
  /\ sessions = {}
  /\ toStop = {}
  /\ session = [s \in Sessions |-> NewSession]
  /\ writer = Idle
  /\ broadcast = [step |-> "idle", left |-> {}, to |-> NoSession]
  /\ broadcasts = 0

-----------------------------------------------------------------------------
(* Session::SendAsync and Session::StopAsync, as functions of the session. *)

Started(ses, message) ==
  [ses EXCEPT !.sentData = message, !.writeInProgress = TRUE,
              !.writes = @ + 1, !.raced = @ \/ ses.writes > 0,
              !.given = @ \cup {message}]

\* Without the timer nothing sends what is queued while the flag is cleared.
Queued_NoTimer(ses, message) ==
  {[ses EXCEPT !.pendingMessages = Append(@, message), !.given = @ \cup {message}]}

\* expires_from_now cancels the waits that have not expired: some of the earlier
\* ones may have expired, their handlers being queued already.
Queued(ses, message) ==
  {[ses EXCEPT !.pendingMessages = Append(@, message), !.timers = n + 1,
               !.given = @ \cup {message}] : n \in 0 .. ses.timers}

SendAsync(ses, message) ==
  IF ses.writeInProgress THEN Queued(ses, message) ELSE {Started(ses, message)}

WithoutFirst_KeepsIt(ses) == ses
WithoutFirst(ses) == [ses EXCEPT !.pendingMessages = Tail(@)]

\* Closing the socket ends the pending read without an effect.
Closed(ses) == [ses EXCEPT !.open = FALSE, !.reading = FALSE]

SameAddress(s) == {c \in sessions : session[c].sessionAddress = session[s].sessionAddress}

\* Every session with the address goes, not the first one found.
StopAsync_ErasesAll(s, ses) ==
  /\ session' = [session EXCEPT ![s] = Closed(ses)]
  /\ sessions' = IF ses.open THEN sessions \ SameAddress(s) ELSE sessions

\* The set is ordered by the addresses of the objects: which session with
\* the same IP address is the first one is not determined.
StopAsync(s, ses) ==
  /\ session' = [session EXCEPT ![s] = Closed(ses)]
  /\ IF ses.open /\ SameAddress(s) # {}
     THEN \E c \in SameAddress(s) : sessions' = sessions \ {c}
     ELSE UNCHANGED sessions

-----------------------------------------------------------------------------
(* The main thread: Server::Init and Server::~Server.                      *)

StartAccept(s) == accepting' = s

\* CreateAcceptor succeeds, and the worker thread is created.
ServerInit ==
  /\ main = "created"
  /\ main' = "up"
  /\ acceptor' = TRUE
  /\ StartAccept(1)
  /\ worker' = "starting"
  /\ UNCHANGED <<stopped, sessions, toStop, session, writer, broadcastVars>>

\* open, set_option, bind or listen fails: no acceptor and no worker.
CreateAcceptorFails ==
  /\ main = "created"
  /\ main' = "up"
  /\ UNCHANGED <<worker, stopped, acceptor, accepting, sessions, toStop, session,
                 writer, broadcastVars>>

\* StopAsync of the server takes m_IoMutex and closes the acceptor.  Without an
\* acceptor it leaves the sessions alone.
BeginStop ==
  /\ main = "up"
  /\ IoMutexFree
  /\ main' = "stopping"
  /\ acceptor' = FALSE
  /\ toStop' = IF acceptor THEN sessions ELSE {}
  /\ UNCHANGED <<worker, stopped, accepting, sessions, session, writer, broadcastVars>>

StopSession(s) ==
  /\ main = "stopping"
  /\ s \in toStop
  /\ toStop' = toStop \ {s}
  /\ session' = [session EXCEPT ![s] = Closed(session[s])]
  /\ UNCHANGED <<serverVars, sessions, writer, broadcastVars>>

EndStop_NoIoStop ==
  /\ main = "stopping"
  /\ toStop = {}
  /\ sessions' = {}
  /\ main' = "joining"
  /\ UNCHANGED <<worker, stopped, acceptor, accepting, toStop, session, writer, broadcastVars>>

EndStop ==
  /\ main = "stopping"
  /\ toStop = {}
  /\ sessions' = {}
  /\ stopped' = TRUE
  /\ main' = "joining"
  /\ UNCHANGED <<worker, acceptor, accepting, toStop, session, writer, broadcastVars>>

\* The destructor of the jthread joins the worker.
Join ==
  /\ main = "joining"
  /\ worker \in {"absent", "ended"}
  /\ main' = "gone"
  /\ UNCHANGED <<worker, stopped, acceptor, accepting, sessions, toStop, session,
                 writer, broadcastVars>>

-----------------------------------------------------------------------------
(* The worker thread: Server::StartAsync.                                  *)

\* acceptor->local_endpoint() is evaluated without m_IoMutex.  If ~Server has
\* reset the acceptor the process ends here.
ReadPort ==
  /\ worker = "starting"
  /\ IF acceptor THEN worker' = "resetting" /\ UNCHANGED main
                 ELSE worker' = "ended" /\ main' = "crashed"
  /\ UNCHANGED <<stopped, acceptor, accepting, sessions, toStop, session, writer,
                 broadcastVars>>

\* io_service.reset() forgets a stop() that came before it.
ResetService ==
  /\ worker = "resetting"
  /\ stopped' = FALSE
  /\ worker' = "running"
  /\ UNCHANGED <<main, acceptor, accepting, sessions, toStop, session, writer, broadcastVars>>

NoWork ==
  /\ accepting = NoSession
  /\ \A s \in Sessions :
       ~session[s].reading /\ session[s].writes = 0 /\ session[s].timers = 0

RunReturns ==
  /\ worker = "running"
  /\ writer = Idle
  /\ stopped \/ NoWork
  /\ worker' = "ended"
  /\ UNCHANGED <<main, stopped, acceptor, accepting, sessions, toStop, session,
                 writer, broadcastVars>>

-----------------------------------------------------------------------------
(* Handlers that run as one step, under m_IoMutex.                         *)

Handler == Ready /\ IoMutexFree

ClientComes == accepting \in Sessions /\ (broadcasts > 0 => accepting <= MaxListeners)

\* StartAsync of the session reads its address, starts to read, and registers it.
HandleAccept(a) ==
  /\ Handler
  /\ acceptor
  /\ ClientComes
  /\ session' = [session EXCEPT ![accepting] =
                   [@ EXCEPT !.open = TRUE, !.sessionAddress = a, !.reading = TRUE]]
  /\ sessions' = sessions \cup {accepting}
  /\ StartAccept(accepting + 1)
  /\ UNCHANGED <<main, worker, stopped, acceptor, toStop, writer, broadcastVars>>

\* StartAsync goes on after the error, and registers the closed session.
HandleAcceptOfNobody_Registers ==
  /\ Handler
  /\ acceptor
  /\ ClientComes
  /\ sessions' = sessions \cup {accepting}
  /\ StartAccept(accepting + 1)
  /\ UNCHANGED <<main, worker, stopped, acceptor, toStop, session, writer, broadcastVars>>

\* The client is gone before remote_endpoint: the session is stopped at once, and
\* no registered session has its empty address.
HandleAcceptOfNobody ==
  /\ Handler
  /\ acceptor
  /\ ClientComes
  /\ StopAsync(accepting, [session[accepting] EXCEPT !.open = TRUE])
  /\ StartAccept(accepting + 1)
  /\ UNCHANGED <<main, worker, stopped, acceptor, toStop, writer, broadcastVars>>

\* An error, or an acceptor that is gone: nothing waits for a client any more.
HandleAcceptError ==
  /\ Handler
  /\ accepting # NoSession
  /\ accepting' = NoSession
  /\ UNCHANGED <<main, worker, stopped, acceptor, sessions, toStop, session, writer,
                 broadcastVars>>

Read(s) == [session[s] EXCEPT !.reading = FALSE]

(* TcpMessageExecutor::Process: the command the text begins with, and what it answers. *)
Requests == {"MEAS_DATA", "expw", "GET", "unknown"}
Result(is_to_close, reply) == [is_to_close |-> is_to_close, reply |-> reply]

HandleAirQualityData == Result(TRUE, NoMessage)
HandleOpenExplorer   == Result(TRUE, NoMessage)
HandleGraphs         == Result(TRUE, Reply)   \* a header, also if the file is missing

Process(request) ==
  CASE request = "MEAS_DATA" -> HandleAirQualityData
    [] request = "expw"      -> HandleOpenExplorer
    [] request = "GET"       -> HandleGraphs
    [] request = "unknown"   -> Result(TRUE, NoMessage)

Answered(reply) ==
  { result \in { Process(request) : request \in Requests } : result.reply = reply }

\* Without a reply the session is stopped at once.
HandleRead(s) ==
  /\ Handler
  /\ session[s].reading
  /\ \E result \in Answered(NoMessage) :
       IF result.is_to_close THEN StopAsync(s, Read(s))
       ELSE session' = [session EXCEPT ![s] = Read(s)] /\ UNCHANGED sessions
  /\ UNCHANGED <<serverVars, toStop, writer, broadcastVars>>

\* A graph is the reply: the session is closed when it has been sent.
HandleReadOfGraph_NotClosing(s) ==
  /\ Handler
  /\ session[s].reading
  /\ \E ses \in SendAsync(Read(s), Reply) : session' = [session EXCEPT ![s] = ses]
  /\ UNCHANGED <<serverVars, sessions, toStop, writer, broadcastVars>>

HandleReadOfGraph(s) ==
  /\ Handler
  /\ session[s].reading
  /\ \E result \in Answered(Reply) : \E ses \in SendAsync(Read(s), result.reply) :
       session' = [session EXCEPT ![s] =
                     [ses EXCEPT !.is_close_pending = @ \/ result.is_to_close]]
  /\ UNCHANGED <<serverVars, sessions, toStop, writer, broadcastVars>>

\* The session stays, and does not read again.
HandleReadError(s) ==
  /\ Handler
  /\ session[s].reading
  /\ session' = [session EXCEPT ![s] = Read(s)]
  /\ UNCHANGED <<serverVars, sessions, toStop, writer, broadcastVars>>

Expired(s) == [session[s] EXCEPT !.timers = @ - 1]

\* The front goes to SendAsync, which queues it again if a write is in progress.
HandleTransferTimer(s) ==
  /\ Handler
  /\ session[s].timers > 0
  /\ IF session[s].pendingMessages # <<>>
     THEN /\ \E ses \in SendAsync(Expired(s), Head(session[s].pendingMessages)) :
               session' = [session EXCEPT ![s] = WithoutFirst(ses)]
          /\ UNCHANGED sessions
     ELSE IF session[s].is_close_pending
     THEN StopAsync(s, Expired(s))
     ELSE session' = [session EXCEPT ![s] = Expired(s)] /\ UNCHANGED sessions
  /\ UNCHANGED <<serverVars, toStop, writer, broadcastVars>>

-----------------------------------------------------------------------------
(* Session::HandleWrite, which does not take m_IoMutex.                    *)

AtWriter(step, s) == writer = [step |-> step, of |-> s]
GotoWriter(step, s) == writer' = [step |-> step, of |-> s]

\* What is on the wire is what sentData holds: a write that started meanwhile
\* has overwritten it.
HandleWrite(s) ==
  /\ Ready
  /\ session[s].writes > 0
  /\ session' = [session EXCEPT ![s] =
                   [session[s] EXCEPT !.writes = @ - 1, !.writeInProgress = FALSE,
                                      !.sent = Append(@, session[s].sentData)]]
  /\ GotoWriter("cleared", s)
  /\ UNCHANGED <<serverVars, sessions, toStop, broadcastVars>>

HandleWriteError(s) ==
  /\ Ready
  /\ session[s].writes > 0
  /\ session' = [session EXCEPT ![s] =
                   [session[s] EXCEPT !.writes = @ - 1, !.writeInProgress = FALSE,
                                      !.pendingMessages = <<>>, !.failed = TRUE]]
  /\ UNCHANGED <<serverVars, sessions, toStop, writer, broadcastVars>>

\* Nothing is pending: the session is closed if that was asked for.
WriteWasLast(s) ==
  /\ AtWriter("cleared", s)
  /\ session[s].pendingMessages = <<>>
  /\ IF session[s].is_close_pending THEN StopAsync(s, session[s])
                                    ELSE UNCHANGED <<session, sessions>>
  /\ writer' = Idle
  /\ UNCHANGED <<serverVars, toStop, broadcastVars>>

\* SendAsync tests writeInProgress, and acts on what it saw.
WriteNext(s) ==
  /\ AtWriter("cleared", s)
  /\ session[s].pendingMessages # <<>>
  /\ GotoWriter(IF session[s].writeInProgress THEN "queue" ELSE "start", s)
  /\ UNCHANGED <<serverVars, sessions, toStop, session, broadcastVars>>

StartNext(s) ==
  /\ AtWriter("start", s)
  /\ session' = [session EXCEPT ![s] =
                   WithoutFirst(Started(@, Head(@.pendingMessages)))]
  /\ writer' = Idle
  /\ UNCHANGED <<serverVars, sessions, toStop, broadcastVars>>

QueueNext(s) ==
  /\ AtWriter("queue", s)
  /\ \E ses \in Queued(session[s], Head(session[s].pendingMessages)) :
       session' = [session EXCEPT ![s] = WithoutFirst(ses)]
  /\ writer' = Idle
  /\ UNCHANGED <<serverVars, sessions, toStop, broadcastVars>>

-----------------------------------------------------------------------------
(* Server::BroadcastMessage, on another thread, under m_IoMutex.           *)

GotoBroadcast(step, s, left) == broadcast' = [step |-> step, to |-> s, left |-> left]

BeginBroadcast ==
  /\ main = "up"
  /\ IoMutexFree
  /\ sessions # {}
  /\ broadcasts < MaxBroadcasts /\ accepting <= MaxListeners + 1
  /\ \A s \in Sessions : s > MaxListeners => session[s] = NewSession
  /\ broadcasts' = broadcasts + 1
  /\ GotoBroadcast("next", NoSession, sessions)
  /\ UNCHANGED <<serverVars, sessions, toStop, session, writer>>

\* SendAsync tests writeInProgress of the next session, and acts on what it saw.
BroadcastTo(s) ==
  /\ broadcast.step = "next"
  /\ s \in broadcast.left
  /\ GotoBroadcast(IF session[s].writeInProgress THEN "queue" ELSE "start",
                   s, broadcast.left \ {s})
  /\ UNCHANGED <<serverVars, sessions, toStop, session, writer, broadcasts>>

StartBroadcast(s) ==
  /\ broadcast.step = "start" /\ broadcast.to = s
  /\ session' = [session EXCEPT ![s] = Started(@, broadcasts)]
  /\ GotoBroadcast("next", NoSession, broadcast.left)
  /\ UNCHANGED <<serverVars, sessions, toStop, writer, broadcasts>>

QueueBroadcast(s) ==
  /\ broadcast.step = "queue" /\ broadcast.to = s
  /\ \E ses \in Queued(session[s], broadcasts) : session' = [session EXCEPT ![s] = ses]
  /\ GotoBroadcast("next", NoSession, broadcast.left)
  /\ UNCHANGED <<serverVars, sessions, toStop, writer, broadcasts>>

EndBroadcast ==
  /\ broadcast.step = "next"
  /\ broadcast.left = {}
  /\ GotoBroadcast("idle", NoSession, {})
  /\ UNCHANGED <<serverVars, sessions, toStop, session, writer, broadcasts>>

-----------------------------------------------------------------------------
Main == ServerInit \/ CreateAcceptorFails \/ BeginStop \/ EndStop \/ Join
          \/ \E s \in Sessions : StopSession(s)

StartAsync == ReadPort \/ ResetService \/ RunReturns

Accept == HandleAcceptOfNobody \/ HandleAcceptError \/ \E a \in Addresses : HandleAccept(a)

ReadDone(s)  == HandleRead(s) \/ HandleReadOfGraph(s) \/ HandleReadError(s)
WriteDone(s) == HandleWrite(s) \/ HandleWriteError(s)
WriteGoesOn(s) == WriteWasLast(s) \/ WriteNext(s) \/ StartNext(s) \/ QueueNext(s)

Broadcast == BeginBroadcast \/ EndBroadcast
               \/ \E s \in Sessions : BroadcastTo(s) \/ StartBroadcast(s) \/ QueueBroadcast(s)

Next ==
  \/ Main \/ StartAsync \/ Accept \/ Broadcast
  \/ \E s \in Sessions :
       ReadDone(s) \/ HandleTransferTimer(s) \/ WriteDone(s) \/ WriteGoesOn(s)

Spec == Init /\ [][Next]_vars

\* Threads make progress, a write completes or fails, a timer expires, and
\* closing the acceptor ends the accept.  Nobody has to connect or to send, and
\* ~Server need not be called.
Fairness ==
  /\ WF_vars(EndStop \/ Join \/ \E s \in Sessions : StopSession(s))
  /\ WF_vars(StartAsync)
  /\ WF_vars(~acceptor /\ HandleAcceptError)
  /\ WF_vars(~(broadcast.step = "idle") /\ Broadcast)
  /\ \A s \in Sessions :
       /\ WF_vars(WriteDone(s))
       /\ WF_vars(WriteGoesOn(s))
       /\ WF_vars(HandleTransferTimer(s))

FairSpec == Spec /\ Fairness

-----------------------------------------------------------------------------
SessionType ==
  [open : BOOLEAN, sessionAddress : Addresses \cup {NoAddress}, reading : BOOLEAN,
   pendingMessages : Seq(Messages), sentData : Messages \cup {NoMessage},
   writeInProgress : BOOLEAN, is_close_pending : BOOLEAN, writes : Nat, timers : Nat,
   given : SUBSET Messages, sent : Seq(Messages), failed : BOOLEAN, raced : BOOLEAN]

\* Every variable has its type; a client that was accepted has an address.
TypeOK ==
  /\ main \in {"created", "up", "stopping", "joining", "gone", "crashed"}
  /\ worker \in {"absent", "starting", "resetting", "running", "ended"}
  /\ stopped \in BOOLEAN /\ acceptor \in BOOLEAN
  /\ accepting \in 0 .. MaxSessions + 1
  /\ toStop \subseteq Sessions
  /\ session \in [Sessions -> SessionType]
  /\ sessions \subseteq {s \in Sessions : session[s].sessionAddress # NoAddress}
  /\ writer \in [step : {"idle", "cleared", "start", "queue"}, of : 0 .. MaxSessions]
  /\ broadcast \in [step : {"idle", "next", "start", "queue"}, to : 0 .. MaxSessions,
                    left : SUBSET Sessions]
  /\ broadcasts \in 0 .. MaxBroadcasts

\* Session::StopAsync erases some session with its own IP address, perhaps not
\* itself.  The mistakes balance: for every address the set has as many sessions
\* as there are open ones.
SetCountsOpenSessions ==
  main = "up" =>
    \A a \in Addresses :
      Cardinality({s \in sessions : session[s].sessionAddress = a}) =
      Cardinality({s \in Sessions : session[s].open /\ session[s].sessionAddress = a})

\* Server.hpp:61 calls sessions the "Set of active sessions": no open session that
\* was registered is missing.
ActiveSessionsAreInTheSet ==
  main = "up" =>
    \A s \in Sessions :
      session[s].open /\ session[s].sessionAddress # NoAddress => s \in sessions

\* Server.hpp:70 calls m_IoMutex the "Mutex for IO operations": while a thread goes
\* through the set under it, no other thread changes the set.
IterationIsExclusive ==
  [][broadcast.step # "idle" \/ toStop # {} => sessions' = sessions]_vars

InProgress(ses) == IF ses.writes > 0 THEN {ses.sentData} ELSE {}

\* The timer, HandleWrite and SendAsync hand messages round in pendingMessages: each
\* message is in one place, pending, in progress or sent, once, unless a write
\* failed, or two were started at once.
MessagesAreKept ==
  \A s \in Sessions :
    LET ses == session[s]
    IN  ~ses.failed /\ ~ses.raced =>
          /\ ses.given = ToSet(ses.sent) \cup ToSet(ses.pendingMessages) \cup InProgress(ses)
          /\ Cardinality(ses.given) = Len(ses.sent) + Len(ses.pendingMessages) + ses.writes

\* BroadcastMessage may find a write in progress and queue its message after
\* HandleWrite found the queue empty: the timer sends it.  While the io_service
\* runs, no message stays pending.
NothingStaysPending ==
  \A s \in Sessions :
    session[s].pendingMessages # <<>>
      ~> session[s].pendingMessages = <<>> \/ main # "up" \/ worker = "ended"

\* A session that was asked for a graph is closed, unless writing to it failed.
RepliesEndTheSession ==
  \A s \in Sessions :
    Reply \in session[s].given ~> ~session[s].open \/ session[s].failed \/ main # "up"

\* ~Server returns, whatever the worker was doing, or crashes on the acceptor it reset.
DestructorEnds == main = "stopping" ~> main \in {"gone", "crashed"}
=============================================================================
