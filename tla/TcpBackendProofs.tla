-------------------------- MODULE TcpBackendProofs --------------------------
(***************************************************************************)
(* TcpBackend, for any number of sessions, addresses and broadcasts: its   *)
(* type invariant; that the set of the server has as many sessions of an   *)
(* address as are open, although a session may erase another one; and that *)
(* each message of a session is in one place.                              *)
(***************************************************************************)
EXTENDS TcpBackend, FiniteSetTheorems, SequenceTheorems, TLAPS

\* A session that is writing has a message to write.
Sound == {ses \in SessionType : ses.writes > 0 => ses.sentData \in Messages}

SessionTypes == session \in [Sessions -> Sound]

\* What a function of a session keeps: who it is connected with.
Like(ses, old) == ses.open = old.open /\ ses.sessionAddress = old.sessionAddress

-----------------------------------------------------------------------------
(* The functions of a session.                                             *)

\* NewSession is the session that StartAccept creates.
LEMMA NewIsSession ==
  /\ NewSession \in Sound
  /\ ~NewSession.open /\ NewSession.sessionAddress = NoAddress
<1>1. <<>> \in Seq(Messages) /\ {} \in SUBSET Messages /\ 0 \in Nat
  OBVIOUS
<1> QED
  BY <1>1 DEF NewSession, Sound, SessionType, NoMessage

\* A write is started with the message.
LEMMA StartedIsSession ==
  ASSUME NEW ses \in Sound, NEW message \in Messages
  PROVE  /\ Started(ses, message) \in Sound
         /\ Like(Started(ses, message), ses)
         /\ Started(ses, message).pendingMessages = ses.pendingMessages
<1>1. (ses.raced \/ ses.writes > 0) \in BOOLEAN
  BY Zenon
<1>2. ses.writes + 1 \in Nat /\ ses.given \cup {message} \in SUBSET Messages
  BY DEF Sound, SessionType
<1> QED
  BY <1>1, <1>2 DEF Started, Sound, SessionType, Like

\* The message waits for the timer.
LEMMA QueuedIsSession ==
  ASSUME NEW ses \in Sound, NEW message \in Messages, NEW queued \in Queued(ses, message)
  PROVE  /\ queued \in Sound
         /\ Like(queued, ses)
         /\ queued.pendingMessages = Append(ses.pendingMessages, message)
         /\ queued.given = ses.given \cup {message}
         /\ queued.sent = ses.sent /\ queued.sentData = ses.sentData
         /\ queued.writes = ses.writes /\ queued.reading = ses.reading
         /\ queued.failed = ses.failed /\ queued.raced = ses.raced
<1>1. PICK n \in 0 .. ses.timers :
        queued = [ses EXCEPT !.pendingMessages = Append(@, message), !.timers = n + 1,
                             !.given = @ \cup {message}]
  BY Zenon DEF Queued
<1>2. n + 1 \in Nat /\ Append(ses.pendingMessages, message) \in Seq(Messages)
      /\ ses.given \cup {message} \in SUBSET Messages
  BY DEF Sound, SessionType
<1> QED
  BY <1>1, <1>2 DEF Sound, SessionType, Like

\* Closing, reading and the timer keep the messages.
LEMMA ClosedIsSession ==
  ASSUME NEW ses \in Sound
  PROVE  /\ Closed(ses) \in Sound
         /\ ~Closed(ses).open /\ Closed(ses).sessionAddress = ses.sessionAddress
         /\ Closed(ses).pendingMessages = ses.pendingMessages
  BY DEF Closed, Sound, SessionType

\* The first message leaves pendingMessages.
LEMMA WithoutFirstIsSession ==
  ASSUME NEW ses \in Sound, ses.pendingMessages # <<>>
  PROVE  /\ WithoutFirst(ses) \in Sound
         /\ Like(WithoutFirst(ses), ses)
         /\ Head(ses.pendingMessages) \in Messages
<1>1. Tail(ses.pendingMessages) \in Seq(Messages) /\ Head(ses.pendingMessages) \in Messages
  BY DEF Sound, SessionType
<1> QED
  BY <1>1 DEF WithoutFirst, Sound, SessionType, Like

\* SendAsync starts a write or queues the message.
LEMMA SentIsSession ==
  ASSUME NEW ses \in Sound, NEW message \in Messages, NEW new \in SendAsync(ses, message)
  PROVE  /\ new \in Sound
         /\ Like(new, ses)
         /\ ses.pendingMessages # <<>> => new.pendingMessages # <<>>
<1>1. CASE new = Started(ses, message)
  BY <1>1, StartedIsSession
<1>2. CASE new \in Queued(ses, message)
  <2>1. new \in Sound /\ Like(new, ses)
    BY <1>2, QueuedIsSession
  <2>2. new.pendingMessages = Append(ses.pendingMessages, message)
    BY <1>2, QueuedIsSession
  <2>3. ses.pendingMessages \in Seq(Messages)
    BY DEF Sound, SessionType
  <2> QED
    BY <2>1, <2>2, <2>3
<1> QED
  BY <1>1, <1>2 DEF SendAsync
-----------------------------------------------------------------------------
(* The invariant.                                                          *)

InSet(a)  == {s \in sessions : session[s].sessionAddress = a}
OpenAt(a) == {s \in Sessions : session[s].open /\ session[s].sessionAddress = a}

ServerTypes ==
  /\ main \in {"created", "up", "stopping", "joining", "gone", "crashed"}
  /\ worker \in {"absent", "starting", "resetting", "running", "ended"}
  /\ stopped \in BOOLEAN /\ acceptor \in BOOLEAN
  /\ accepting \in 0 .. MaxSessions + 1
  /\ toStop \subseteq Sessions

ThreadTypes ==
  /\ writer \in [step : {"idle", "cleared", "start", "queue"}, of : 0 .. MaxSessions]
  /\ broadcast \in [step : {"idle", "next", "start", "queue"}, to : 0 .. MaxSessions,
                    left : SUBSET Sessions]
  /\ broadcasts \in 0 .. MaxBroadcasts

SetType == sessions \subseteq {s \in Sessions : session[s].sessionAddress # NoAddress}

\* A thread that is about to take a message has one.
MessageInv ==
  /\ writer.step \in {"start", "queue"} =>
       writer.of \in Sessions /\ session[writer.of].pendingMessages # <<>>
  /\ broadcast.step # "idle" => broadcasts >= 1

\* Sessions that no client has connected to have no address: those that are not accepted yet,
\* and before the server is started all of them.
AddressInv ==
  /\ \A s \in Sessions : session[s].open => session[s].sessionAddress # NoAddress
  /\ accepting # NoSession =>
       \A s \in Sessions : s >= accepting => session[s].sessionAddress = NoAddress
  /\ main = "created" =>
       worker = "absent" /\ sessions = {} /\ \A s \in Sessions : session[s].sessionAddress = NoAddress

IInv ==
  /\ ServerTypes /\ ThreadTypes /\ SessionTypes /\ SetType
  /\ MessageInv /\ AddressInv /\ SetCountsOpenSessions

\* The type invariant in parts.
LEMMA TypesInParts ==
  ServerTypes /\ ThreadTypes /\ SessionTypes /\ SetType => TypeOK
  BY DEF TypeOK, ServerTypes, ThreadTypes, SessionTypes, SetType, Sound

\* How many sessions of an address there are, as the size of a set.
LEMMA CountsInSets ==
  SetCountsOpenSessions <=>
    (main = "up" => \A a \in Addresses : Cardinality(InSet(a)) = Cardinality(OpenAt(a)))
  BY DEF SetCountsOpenSessions, InSet, OpenAt

\* There are finitely many sessions.
LEMMA FiniteSessions ==
  /\ IsFiniteSet(Sessions)
  /\ \A T : T \subseteq Sessions => IsFiniteSet(T)
<1>1. IsFiniteSet(Sessions)
  BY FS_Interval, BackendBounds DEF Sessions
<1> QED
  BY <1>1, FS_Subset

\* A step that changes one session only.
LEMMA OneSession ==
  ASSUME SessionTypes, NEW s \in Sessions, NEW ses \in Sound,
         session' = [session EXCEPT ![s] = ses]
  PROVE  /\ SessionTypes'
         /\ session'[s] = ses
         /\ \A t \in Sessions : t # s => session'[t] = session[t]
  BY DEF SessionTypes

-----------------------------------------------------------------------------
(* What a step may do to the sessions, and keep the set and its sessions   *)
(* in balance.                                                             *)

\* No session changes its client, or is opened, and none is registered.
Quiet ==
  /\ \A s \in Sessions : Like(session'[s], session[s])
  /\ UNCHANGED sessions
  /\ main' = main \/ main' # "created"
  /\ main' = "up" => main = "up"
  /\ main' = "created" => UNCHANGED worker
  /\ accepting' # NoSession => accepting # NoSession /\ accepting' \in {accepting, accepting + 1}

\* Steps that open, close, add and erase no session keep the balance.
LEMMA QuietKeepsBalance ==
  ASSUME IInv, SessionTypes', Quiet
  PROVE  SetType' /\ AddressInv' /\ SetCountsOpenSessions'
<1> USE DEF Quiet, Like
<1>1. SetType'
  BY DEF IInv, SetType
<1>2. AddressInv'
  <2>1. ASSUME accepting' # NoSession, NEW s \in Sessions, s >= accepting'
        PROVE  session'[s].sessionAddress = NoAddress
    <3>1. accepting # NoSession /\ s >= accepting
      BY <2>1, BackendBounds DEF IInv, ServerTypes, Sessions
    <3> QED
      BY <3>1 DEF IInv, AddressInv
  <2>2. \A s \in Sessions : session'[s].open => session'[s].sessionAddress # NoAddress
    BY DEF IInv, AddressInv
  <2>3. main' = "created" =>
          worker' = "absent" /\ sessions' = {} /\ \A s \in Sessions : session'[s].sessionAddress = NoAddress
    BY DEF IInv, AddressInv
  <2> QED
    BY <2>1, <2>2, <2>3 DEF AddressInv
<1>3. \A a \in Addresses : InSet(a)' = InSet(a) /\ OpenAt(a)' = OpenAt(a)
  BY <1>1 DEF IInv, SetType, InSet, OpenAt
<1>4. SetCountsOpenSessions'
  <2>1. main' = "up" => \A a \in Addresses : Cardinality(InSet(a)) = Cardinality(OpenAt(a))
    BY CountsInSets DEF IInv
  <2>2. main' = "up" => \A a \in Addresses : Cardinality(InSet(a)') = Cardinality(OpenAt(a)')
    BY <1>3, <2>1
  <2> QED
    BY <2>2 DEF SetCountsOpenSessions, InSet, OpenAt
<1> QED
  BY <1>1, <1>2, <1>4

\* Session::StopAsync: as it closes one open session it erases one of the same address, which
\* may be another one.
LEMMA StopKeepsBalance ==
  ASSUME IInv, NEW s \in Sessions, NEW ses \in Sound, StopAsync(s, ses),
         Like(ses, session[s]), UNCHANGED <<main, worker, accepting>>
  PROVE  SessionTypes' /\ SetType' /\ AddressInv' /\ SetCountsOpenSessions'
<1> DEFINE a == session[s].sessionAddress
<1>1. Closed(ses) \in Sound /\ ~Closed(ses).open /\ Closed(ses).sessionAddress = a
  BY ClosedIsSession DEF Like
<1>2. /\ SessionTypes'
      /\ session'[s] = Closed(ses)
      /\ \A t \in Sessions : t # s => session'[t] = session[t]
  BY <1>1, OneSession DEF StopAsync, IInv
<1>3. /\ \A t \in Sessions : session'[t].sessionAddress = session[t].sessionAddress
      /\ \A t \in Sessions : session'[t].open <=> session[t].open /\ t # s
  BY <1>1, <1>2
<1>4. sessions' \subseteq sessions
  BY DEF StopAsync
<1>5. sessions \subseteq Sessions /\ SetType'
  BY <1>3, <1>4 DEF IInv, SetType
<1>6. AddressInv'
  <2>1. \A t \in Sessions : session'[t].open => session'[t].sessionAddress # NoAddress
    BY <1>3 DEF IInv, AddressInv
  <2>2. accepting' # NoSession =>
          \A t \in Sessions : t >= accepting' => session'[t].sessionAddress = NoAddress
    BY <1>3 DEF IInv, AddressInv
  <2>3. main' = "created" =>
          worker' = "absent" /\ sessions' = {} /\ \A t \in Sessions : session'[t].sessionAddress = NoAddress
    BY <1>3, <1>4 DEF IInv, AddressInv
  <2> QED
    BY <2>1, <2>2, <2>3 DEF AddressInv
<1>7. ASSUME main = "up", NEW b \in Addresses
      PROVE  Cardinality(InSet(b)') = Cardinality(OpenAt(b)')
  <2>1. Cardinality(InSet(b)) = Cardinality(OpenAt(b))
    BY <1>7, CountsInSets DEF IInv
  <2>2. IsFiniteSet(InSet(b)) /\ IsFiniteSet(OpenAt(b))
    BY <1>5, FiniteSessions DEF InSet, OpenAt
  <2>3. OpenAt(b)' = OpenAt(b) \ {s}
    BY <1>3 DEF OpenAt
  <2>4. ASSUME NEW c, sessions' = sessions \ {c} PROVE InSet(b)' = InSet(b) \ {c}
    BY <1>3, <1>5, <2>4 DEF InSet
  <2>5. UNCHANGED sessions => InSet(b)' = InSet(b)
    BY <1>3, <1>5 DEF InSet
  <2>6. CASE ~session[s].open
    <3>1. UNCHANGED sessions
      BY <2>6 DEF StopAsync, Like
    <3>2. OpenAt(b)' = OpenAt(b)
      BY <2>3, <2>6 DEF OpenAt
    <3> QED
      BY <2>1, <2>5, <3>1, <3>2
  <2>7. CASE session[s].open /\ a # b
    <3>1. OpenAt(b)' = OpenAt(b)
      BY <2>3, <2>7 DEF OpenAt
    <3>2. InSet(b)' = InSet(b)
      <4>1. CASE UNCHANGED sessions
        BY <2>5, <4>1
      <4>2. CASE \E c \in SameAddress(s) : sessions' = sessions \ {c}
        <5>1. PICK c \in SameAddress(s) : sessions' = sessions \ {c}
          BY <4>2
        <5>2. c \notin InSet(b)
          BY <2>7, <5>1 DEF SameAddress, InSet
        <5> QED
          BY <2>4, <5>1, <5>2
      <4> QED
        BY <4>1, <4>2 DEF StopAsync
    <3> QED
      BY <2>1, <3>1, <3>2
  <2>8. CASE session[s].open /\ a = b
    <3>1. s \in OpenAt(b)
      BY <2>8 DEF OpenAt
    <3>2. InSet(b) # {}
      BY <2>1, <2>2, <3>1, FS_EmptySet
    <3>3. SameAddress(s) = InSet(b)
      BY <2>8 DEF SameAddress, InSet
    <3>4. PICK c \in InSet(b) : sessions' = sessions \ {c}
      BY <2>8, <3>2, <3>3 DEF StopAsync, Like
    <3>5. InSet(b)' = InSet(b) \ {c}
      BY <2>4, <3>4
    <3>6. Cardinality(InSet(b) \ {c}) = Cardinality(InSet(b)) - 1
      BY <2>2, <3>4, FS_RemoveElement
    <3>7. Cardinality(OpenAt(b) \ {s}) = Cardinality(OpenAt(b)) - 1
      BY <2>2, <3>1, FS_RemoveElement
    <3> QED
      BY <2>1, <2>3, <3>5, <3>6, <3>7
  <2> QED
    BY <2>6, <2>7, <2>8
<1>8. SetCountsOpenSessions'
  BY <1>7 DEF SetCountsOpenSessions, InSet, OpenAt
<1> QED
  BY <1>2, <1>5, <1>6, <1>8

-----------------------------------------------------------------------------
(* The other parts of the invariant.                                       *)

\* The handlers run while HandleWrite is at none of its steps; the other threads take
\* no message away.
LEMMA MessagesStay ==
  ASSUME MessageInv, UNCHANGED <<writer, broadcastVars>>,
         \/ writer = Idle
         \/ \A s \in Sessions : session[s].pendingMessages # <<>> => session'[s].pendingMessages # <<>>
  PROVE  MessageInv'
  BY DEF MessageInv, Idle, broadcastVars

\* A handler replaces one session, and its client stays.
LEMMA HandlerIsQuiet ==
  ASSUME IInv, NEW s \in Sessions, NEW ses \in Sound, Like(ses, session[s]),
         session' = [session EXCEPT ![s] = ses],
         UNCHANGED <<serverVars, sessions, toStop>>
  PROVE  ServerTypes' /\ SessionTypes' /\ SetType' /\ AddressInv' /\ SetCountsOpenSessions'
<1>1. SessionTypes' /\ session'[s] = ses /\ \A t \in Sessions : t # s => session'[t] = session[t]
  BY OneSession DEF IInv
<1>2. Quiet
  BY <1>1 DEF Quiet, Like, serverVars
<1> QED
  BY <1>1, <1>2, QuietKeepsBalance DEF IInv, ServerTypes, serverVars

\* Steps that leave the sessions alone.
LEMMA SessionsStay ==
  ASSUME IInv, UNCHANGED <<session, sessions, writer, broadcastVars>>,
         main' = main \/ (main' # "created" /\ main' # "up"),
         main' = "created" => UNCHANGED worker,
         accepting' \in {accepting, NoSession}, ServerTypes'
  PROVE  IInv'
<1>1. SessionTypes' /\ ThreadTypes'
  BY DEF IInv, SessionTypes, ThreadTypes, broadcastVars
<1>2. Quiet
  BY DEF Quiet, Like
<1>3. MessageInv'
  BY MessagesStay DEF IInv
<1> QED
  BY <1>1, <1>2, <1>3, QuietKeepsBalance DEF IInv

\* A server that is created has no session.
LEMMA InitKeepsBalance ==
  ASSUME IInv, main = "created", main' = "up", UNCHANGED <<session, sessions>>,
         accepting' = accepting \/ accepting' = 1
  PROVE  SetType' /\ AddressInv' /\ SetCountsOpenSessions'
<1>1. SetType'
  BY DEF IInv, SetType
<1>2. AddressInv'
  BY DEF IInv, AddressInv
<1>3. \A a \in Addresses : InSet(a)' = {} /\ OpenAt(a)' = {}
  BY AddressAssumption DEF IInv, AddressInv, InSet, OpenAt
<1>4. SetCountsOpenSessions'
  BY <1>3 DEF SetCountsOpenSessions, InSet, OpenAt
<1> QED
  BY <1>1, <1>2, <1>4

-----------------------------------------------------------------------------
(* One lemma for each group of actions.                                    *)

\* The initial state satisfies the invariant.
LEMMA InitIsInv == Init => IInv
<1> SUFFICES ASSUME Init PROVE IInv
  OBVIOUS
<1>1. ServerTypes /\ ThreadTypes
  <2>1. 0 \in 0 .. MaxSessions + 1 /\ 0 \in 0 .. MaxSessions /\ 0 \in 0 .. MaxBroadcasts
    BY BackendBounds
  <2>2. ServerTypes
    BY <2>1 DEF Init, ServerTypes, NoSession
  <2>3. writer \in [step : {"idle", "cleared", "start", "queue"}, of : 0 .. MaxSessions]
    BY <2>1 DEF Init, Idle, NoSession
  <2>4. broadcast \in [step : {"idle", "next", "start", "queue"}, to : 0 .. MaxSessions,
                       left : SUBSET Sessions]
    BY <2>1 DEF Init, NoSession
  <2> QED
    BY <2>1, <2>2, <2>3, <2>4 DEF Init, ThreadTypes
<1>2. SessionTypes
  BY NewIsSession DEF Init, SessionTypes
<1>3. \A s \in Sessions : ~session[s].open /\ session[s].sessionAddress = NoAddress
  BY NewIsSession DEF Init
<1>4. SetType /\ MessageInv /\ AddressInv
  BY <1>3 DEF Init, SetType, MessageInv, AddressInv, Idle, NoSession
<1>5. SetCountsOpenSessions
  BY DEF Init, SetCountsOpenSessions
<1> QED
  BY <1>1, <1>2, <1>4, <1>5 DEF IInv

\* The main thread keeps it.
LEMMA MainKeepsInv ==
  ASSUME IInv, Main
  PROVE  IInv'
<1>1. CASE ServerInit \/ CreateAcceptorFails
  <2>1. /\ main = "created" /\ main' = "up"
        /\ UNCHANGED <<session, sessions, writer, broadcastVars>>
        /\ accepting' = accepting \/ accepting' = 1
    BY <1>1 DEF ServerInit, CreateAcceptorFails, StartAccept
  <2>2. ServerTypes'
    <3>1. 1 \in 0 .. MaxSessions + 1
      BY BackendBounds
    <3> QED
      BY <1>1, <3>1 DEF ServerInit, CreateAcceptorFails, StartAccept, IInv, ServerTypes
  <2>3. SessionTypes' /\ ThreadTypes'
    BY <2>1 DEF IInv, SessionTypes, ThreadTypes, broadcastVars
  <2>4. MessageInv'
    BY <2>1, MessagesStay DEF IInv
  <2>5. SetType' /\ AddressInv' /\ SetCountsOpenSessions'
    BY <2>1, InitKeepsBalance
  <2> QED
    BY <2>2, <2>3, <2>4, <2>5 DEF IInv
<1>2. CASE BeginStop
  <2>1. ServerTypes'
    BY <1>2 DEF BeginStop, IInv, ServerTypes, SetType
  <2> QED
    BY <1>2, <2>1, SessionsStay DEF BeginStop
<1>3. CASE Join
  <2>1. ServerTypes'
    BY <1>3 DEF Join, IInv, ServerTypes
  <2> QED
    BY <1>3, <2>1, SessionsStay DEF Join
<1>4. CASE EndStop
  <2>1. ServerTypes' /\ ThreadTypes' /\ SessionTypes'
    BY <1>4 DEF EndStop, IInv, ServerTypes, ThreadTypes, SessionTypes, broadcastVars
  <2>2. MessageInv'
    BY <1>4, MessagesStay DEF EndStop, IInv
  <2>3. SetType' /\ AddressInv' /\ SetCountsOpenSessions'
    BY <1>4 DEF EndStop, IInv, SetType, AddressInv, SetCountsOpenSessions
  <2> QED
    BY <2>1, <2>2, <2>3 DEF IInv
<1>5. ASSUME NEW s \in Sessions, StopSession(s) PROVE IInv'
  <2>1. session[s] \in Sound
    BY DEF IInv, SessionTypes
  <2>2. /\ SessionTypes'
        /\ session'[s] = Closed(session[s])
        /\ \A t \in Sessions : t # s => session'[t] = session[t]
    BY <1>5, <2>1, ClosedIsSession, OneSession DEF StopSession, IInv
  <2>3. \A t \in Sessions : /\ session'[t].open => session[t].open
                            /\ session'[t].sessionAddress = session[t].sessionAddress
                            /\ session'[t].pendingMessages = session[t].pendingMessages
    BY <2>1, <2>2, ClosedIsSession
  <2>4. ServerTypes' /\ ThreadTypes'
    BY <1>5 DEF StopSession, IInv, ServerTypes, ThreadTypes, serverVars, broadcastVars
  <2>5. MessageInv'
    BY <1>5, <2>3, MessagesStay DEF StopSession, IInv
  <2>6. SetType' /\ AddressInv' /\ SetCountsOpenSessions'
    BY <1>5, <2>3 DEF StopSession, IInv, SetType, AddressInv, SetCountsOpenSessions, serverVars
  <2> QED
    BY <2>2, <2>4, <2>5, <2>6 DEF IInv
<1> QED
  BY <1>1, <1>2, <1>3, <1>4, <1>5 DEF Main

\* StartAsync keeps it.
LEMMA StartAsyncKeepsInv ==
  ASSUME IInv, StartAsync
  PROVE  IInv'
<1>1. main # "created"
  BY DEF IInv, AddressInv, StartAsync, ReadPort, ResetService, RunReturns
<1>2. ServerTypes'
  BY DEF IInv, ServerTypes, StartAsync, ReadPort, ResetService, RunReturns
<1>3. /\ UNCHANGED <<session, sessions, writer, broadcastVars>> /\ accepting' = accepting
      /\ main' = main \/ main' = "crashed"
  BY DEF StartAsync, ReadPort, ResetService, RunReturns
<1>4. /\ main' = main \/ (main' # "created" /\ main' # "up")
      /\ main' = "created" => UNCHANGED worker
      /\ accepting' \in {accepting, NoSession}
  BY <1>1, <1>3
<1> QED
  BY <1>2, <1>3, <1>4, SessionsStay

\* HandleAccept keeps it: the session is in the set as soon as it is open.
LEMMA HandleAcceptKeepsInv ==
  ASSUME IInv, NEW a \in Addresses, HandleAccept(a)
  PROVE  IInv'
<1> DEFINE s == accepting
<1> DEFINE new == [session[s] EXCEPT !.open = TRUE, !.sessionAddress = a, !.reading = TRUE]
<1>1. s \in Sessions /\ s + 1 \in 0 .. MaxSessions + 1 /\ s # NoSession
  BY BackendBounds DEF HandleAccept, ClientComes, Sessions, NoSession
<1>2. ~session[s].open /\ session[s].sessionAddress = NoAddress
  BY <1>1, BackendBounds DEF IInv, AddressInv, Sessions
<1>3. new \in Sound /\ new.open /\ new.sessionAddress = a
      /\ new.pendingMessages = session[s].pendingMessages
  BY <1>1 DEF IInv, SessionTypes, Sound, SessionType
<1>4. /\ SessionTypes'
      /\ session'[s] = new
      /\ \A t \in Sessions : t # s => session'[t] = session[t]
  <2> HIDE DEF new
  <2>1. session' = [session EXCEPT ![s] = new]
    BY DEF HandleAccept, new
  <2> QED
    BY <1>1, <1>3, <2>1, OneSession DEF IInv
<1> HIDE DEF new
<1>5. ServerTypes' /\ ThreadTypes'
  BY <1>1 DEF HandleAccept, StartAccept, IInv, ServerTypes, ThreadTypes, broadcastVars
<1>6. MessageInv'
  BY <1>3, <1>4, MessagesStay DEF HandleAccept, IInv
<1>7. s \notin sessions /\ sessions' = sessions \cup {s}
  BY <1>2 DEF HandleAccept, IInv, SetType
<1>8. SetType'
  BY <1>1, <1>3, <1>4, <1>7, AddressAssumption DEF IInv, SetType
<1>9. AddressInv'
  <2>1. \A t \in Sessions : session'[t].open => session'[t].sessionAddress # NoAddress
    BY <1>3, <1>4, AddressAssumption DEF IInv, AddressInv
  <2>2. ASSUME NEW t \in Sessions, t >= accepting' PROVE session'[t].sessionAddress = NoAddress
    <3>1. t # s /\ t >= accepting
      BY <1>1, <2>2, BackendBounds DEF HandleAccept, StartAccept, Sessions
    <3> QED
      BY <1>1, <1>4, <3>1 DEF IInv, AddressInv
  <2>3. main' # "created"
    BY DEF HandleAccept, Handler, Ready, IInv, AddressInv
  <2> QED
    BY <2>1, <2>2, <2>3 DEF AddressInv
<1>10. ASSUME main = "up", NEW b \in Addresses
       PROVE  Cardinality(InSet(b)') = Cardinality(OpenAt(b)')
  <2>1. Cardinality(InSet(b)) = Cardinality(OpenAt(b))
    BY <1>10, CountsInSets DEF IInv
  <2>2. IsFiniteSet(InSet(b)) /\ IsFiniteSet(OpenAt(b))
    BY FiniteSessions DEF InSet, OpenAt, IInv, SetType
  <2>3. CASE b = a
    <3>1. InSet(b)' = InSet(b) \cup {s} /\ s \notin InSet(b)
      BY <1>1, <1>3, <1>4, <1>7, <2>3 DEF InSet, IInv, SetType
    <3>2. OpenAt(b)' = OpenAt(b) \cup {s} /\ s \notin OpenAt(b)
      BY <1>1, <1>2, <1>3, <1>4, <2>3 DEF OpenAt
    <3>3. Cardinality(InSet(b) \cup {s}) = Cardinality(InSet(b)) + 1
      BY <2>2, <3>1, FS_AddElement
    <3>4. Cardinality(OpenAt(b) \cup {s}) = Cardinality(OpenAt(b)) + 1
      BY <2>2, <3>2, FS_AddElement
    <3> QED
      BY <2>1, <3>1, <3>2, <3>3, <3>4
  <2>4. CASE b # a
    <3>1. InSet(b)' = InSet(b)
      BY <1>1, <1>2, <1>3, <1>4, <1>7, <2>4 DEF InSet, IInv, SetType
    <3>2. OpenAt(b)' = OpenAt(b)
      BY <1>1, <1>2, <1>3, <1>4, <2>4 DEF OpenAt
    <3> QED
      BY <2>1, <3>1, <3>2
  <2> QED
    BY <2>3, <2>4
<1>11. SetCountsOpenSessions'
  BY <1>10 DEF HandleAccept, SetCountsOpenSessions, InSet, OpenAt
<1> QED
  BY <1>4, <1>5, <1>6, <1>8, <1>9, <1>11 DEF IInv

\* A client that is gone already: its session has no address, and no session of the set has.
LEMMA NobodyKeepsInv ==
  ASSUME IInv, HandleAcceptOfNobody
  PROVE  IInv'
<1> DEFINE s == accepting
<1> DEFINE opened == [session[s] EXCEPT !.open = TRUE]
<1>1. s \in Sessions /\ s + 1 \in 0 .. MaxSessions + 1 /\ s # NoSession
  BY BackendBounds DEF HandleAcceptOfNobody, ClientComes, Sessions, NoSession
<1>2. ~session[s].open /\ session[s].sessionAddress = NoAddress
  BY <1>1, BackendBounds DEF IInv, AddressInv, Sessions
<1>3. opened \in Sound /\ opened.sessionAddress = NoAddress
      /\ opened.pendingMessages = session[s].pendingMessages
  BY <1>1, <1>2 DEF IInv, SessionTypes, Sound, SessionType
<1>4. StopAsync(s, opened)
  BY DEF HandleAcceptOfNobody
<1> HIDE DEF opened
<1>5. SameAddress(s) = {} /\ UNCHANGED sessions
  BY <1>2, <1>4 DEF SameAddress, StopAsync, IInv, SetType
<1>6. /\ SessionTypes'
      /\ session'[s] = Closed(opened)
      /\ \A t \in Sessions : t # s => session'[t] = session[t]
  BY <1>1, <1>3, <1>4, ClosedIsSession, OneSession DEF StopAsync, IInv
<1>7. Like(session'[s], session[s]) /\ session'[s].pendingMessages = session[s].pendingMessages
  <2>1. Closed(opened).open = FALSE /\ session[s].open = FALSE
    <3>1. Closed(opened).open \in BOOLEAN /\ session[s].open \in BOOLEAN
      BY <1>1, <1>3, ClosedIsSession DEF IInv, SessionTypes, Sound, SessionType
    <3>2. ~Closed(opened).open
      BY <1>3, ClosedIsSession
    <3> QED
      BY <1>2, <3>1, <3>2
  <2> QED
    BY <1>2, <1>3, <1>6, <2>1, ClosedIsSession DEF Like
<1>8. ServerTypes' /\ ThreadTypes'
  BY <1>1 DEF HandleAcceptOfNobody, StartAccept, IInv, ServerTypes, ThreadTypes, broadcastVars
<1>9. MessageInv'
  BY <1>6, <1>7, MessagesStay DEF HandleAcceptOfNobody, IInv
<1>10. Quiet
  BY <1>1, <1>5, <1>6, <1>7 DEF Quiet, Like, HandleAcceptOfNobody, StartAccept
<1> QED
  BY <1>6, <1>8, <1>9, <1>10, QuietKeepsBalance DEF IInv

\* Every outcome of an accept keeps it.
LEMMA AcceptKeepsInv ==
  ASSUME IInv, Accept
  PROVE  IInv'
<1>1. CASE HandleAcceptError
  <2>1. ServerTypes'
    BY <1>1, BackendBounds DEF HandleAcceptError, IInv, ServerTypes, NoSession
  <2> QED
    BY <1>1, <2>1, SessionsStay DEF HandleAcceptError
<1> QED
  BY <1>1, HandleAcceptKeepsInv, NobodyKeepsInv DEF Accept

\* The handler of a session replaces it by one that keeps its client.
LEMMA HandlerKeepsInv ==
  ASSUME IInv, NEW s \in Sessions, NEW ses \in Sound, Like(ses, session[s]),
         session' = [session EXCEPT ![s] = ses],
         UNCHANGED <<serverVars, sessions, toStop>>, ThreadTypes', MessageInv'
  PROVE  IInv'
  BY HandlerIsQuiet DEF IInv

\* Session::StopAsync, by the worker.
LEMMA StopKeepsInv ==
  ASSUME IInv, NEW s \in Sessions, NEW ses \in Sound, Like(ses, session[s]),
         StopAsync(s, ses), UNCHANGED <<serverVars, toStop>>, ThreadTypes', MessageInv'
  PROVE  IInv'
<1>1. UNCHANGED <<main, worker, accepting>> /\ ServerTypes'
  BY DEF serverVars, IInv, ServerTypes
<1> QED
  BY <1>1, StopKeepsBalance DEF IInv

\* Handlers that are one step.
LEMMA ReadKeepsInv ==
  ASSUME IInv, NEW s \in Sessions, ReadDone(s)
  PROVE  IInv'
<1>1. /\ writer = Idle
      /\ UNCHANGED <<writer, broadcastVars>> /\ UNCHANGED <<serverVars, toStop>>
  BY DEF ReadDone, HandleRead, HandleReadOfGraph, HandleReadError, Handler, Ready
<1>2. ThreadTypes' /\ MessageInv'
  BY <1>1, MessagesStay DEF IInv, ThreadTypes, broadcastVars
<1>3. Read(s) \in Sound /\ Like(Read(s), session[s])
  BY DEF IInv, SessionTypes, Sound, SessionType, Read, Like
<1>4. CASE HandleRead(s)
  <2>1. CASE StopAsync(s, Read(s))
    BY <1>1, <1>2, <1>3, <2>1, StopKeepsInv
  <2>2. CASE session' = [session EXCEPT ![s] = Read(s)] /\ UNCHANGED sessions
    BY <1>1, <1>2, <1>3, <2>2, HandlerKeepsInv
  <2> QED
    BY <1>4, <2>1, <2>2 DEF HandleRead
<1>5. CASE HandleReadOfGraph(s)
  <2>1. PICK result \in Answered(Reply) : \E ses \in SendAsync(Read(s), result.reply) :
          session' = [session EXCEPT ![s] = [ses EXCEPT !.is_close_pending = @ \/ result.is_to_close]]
    BY <1>5 DEF HandleReadOfGraph
  <2>2. PICK ses \in SendAsync(Read(s), result.reply) :
          session' = [session EXCEPT ![s] = [ses EXCEPT !.is_close_pending = @ \/ result.is_to_close]]
    BY <2>1
  <2>3. result.reply = Reply /\ Reply \in Messages
    BY BackendBounds DEF Answered, Reply, Messages
  <2>4. ses \in Sound /\ Like(ses, session[s])
    BY <1>3, <2>2, <2>3, SentIsSession DEF Like
  <2> DEFINE closing == ses.is_close_pending \/ result.is_to_close
  <2>5. closing \in BOOLEAN
    BY Zenon
  <2>6. session' = [session EXCEPT ![s] = [ses EXCEPT !.is_close_pending = closing]]
    BY <2>2
  <2> HIDE DEF closing
  <2>7. [ses EXCEPT !.is_close_pending = closing] \in Sound
        /\ Like([ses EXCEPT !.is_close_pending = closing], session[s])
    BY <2>4, <2>5 DEF Sound, SessionType, Like
  <2>8. UNCHANGED sessions
    BY <1>5 DEF HandleReadOfGraph
  <2> QED
    BY <1>1, <1>2, <2>6, <2>7, <2>8, HandlerKeepsInv
<1>6. CASE HandleReadError(s)
  <2>1. session' = [session EXCEPT ![s] = Read(s)] /\ UNCHANGED sessions
    BY <1>6 DEF HandleReadError
  <2> QED
    BY <1>1, <1>2, <1>3, <2>1, HandlerKeepsInv
<1> QED
  BY <1>4, <1>5, <1>6 DEF ReadDone

\* The timer of a session keeps it.
LEMMA TimerKeepsInv ==
  ASSUME IInv, NEW s \in Sessions, HandleTransferTimer(s)
  PROVE  IInv'
<1>1. /\ writer = Idle
      /\ UNCHANGED <<writer, broadcastVars>> /\ UNCHANGED <<serverVars, toStop>>
  BY DEF HandleTransferTimer, Handler, Ready
<1>2. ThreadTypes' /\ MessageInv'
  BY <1>1, MessagesStay DEF IInv, ThreadTypes, broadcastVars
<1>3. /\ Expired(s) \in Sound /\ Like(Expired(s), session[s])
      /\ Expired(s).pendingMessages = session[s].pendingMessages
  <2>1. session[s] \in Sound /\ session[s].timers - 1 \in Nat
    BY DEF HandleTransferTimer, IInv, SessionTypes, Sound, SessionType
  <2> QED
    BY <2>1 DEF Sound, SessionType, Expired, Like
<1>4. CASE session[s].pendingMessages # <<>>
  <2>1. PICK ses \in SendAsync(Expired(s), Head(session[s].pendingMessages)) :
          session' = [session EXCEPT ![s] = WithoutFirst(ses)]
    BY <1>4 DEF HandleTransferTimer
  <2>2. Head(session[s].pendingMessages) \in Messages
    BY <1>3, <1>4, WithoutFirstIsSession
  <2>3. ses \in Sound /\ Like(ses, session[s]) /\ ses.pendingMessages # <<>>
    BY <1>3, <1>4, <2>1, <2>2, SentIsSession DEF Like
  <2>4. WithoutFirst(ses) \in Sound /\ Like(WithoutFirst(ses), session[s])
    BY <2>3, WithoutFirstIsSession DEF Like
  <2>5. UNCHANGED sessions
    BY <1>4 DEF HandleTransferTimer
  <2> QED
    BY <1>1, <1>2, <2>1, <2>4, <2>5, HandlerKeepsInv
<1>5. CASE session[s].pendingMessages = <<>>
  <2>1. CASE StopAsync(s, Expired(s))
    BY <1>1, <1>2, <1>3, <2>1, StopKeepsInv
  <2>2. CASE session' = [session EXCEPT ![s] = Expired(s)] /\ UNCHANGED sessions
    BY <1>1, <1>2, <1>3, <2>2, HandlerKeepsInv
  <2> QED
    BY <1>5, <2>1, <2>2 DEF HandleTransferTimer
<1> QED
  BY <1>4, <1>5

-----------------------------------------------------------------------------
(* Session::HandleWrite and BroadcastMessage, whose steps interleave.      *)

\* The steps a thread goes to are of their type.
LEMMA GotoIsTyped ==
  ASSUME NEW s \in Sessions
  PROVE  /\ \A step \in {"idle", "cleared", "start", "queue"} :
              [step |-> step, of |-> s] \in
                [step : {"idle", "cleared", "start", "queue"}, of : 0 .. MaxSessions]
         /\ Idle \in [step : {"idle", "cleared", "start", "queue"}, of : 0 .. MaxSessions]
<1>1. s \in 0 .. MaxSessions /\ NoSession \in 0 .. MaxSessions
  BY BackendBounds DEF Sessions, NoSession
<1> QED
  BY <1>1 DEF Idle

\* HandleWrite is at a step that needs no message.
LEMMA WriterMoves ==
  ASSUME IInv, UNCHANGED broadcastVars, NEW s \in Sessions,
         writer' = Idle \/ writer' = [step |-> "cleared", of |-> s]
  PROVE  ThreadTypes' /\ MessageInv'
<1>1. ThreadTypes'
  BY GotoIsTyped DEF IInv, ThreadTypes, broadcastVars
<1>2. MessageInv'
  BY DEF IInv, MessageInv, broadcastVars, Idle
<1> QED
  BY <1>1, <1>2

\* The completion of a write keeps it.
LEMMA WriteKeepsInv ==
  ASSUME IInv, NEW s \in Sessions, WriteDone(s)
  PROVE  IInv'
<1>1. session[s] \in Sound /\ session[s].writes > 0
  BY DEF WriteDone, HandleWrite, HandleWriteError, IInv, SessionTypes
<1>2. session[s].writes - 1 \in Nat /\ session[s].sentData \in Messages
  BY <1>1 DEF Sound, SessionType
<1>3. UNCHANGED <<serverVars, sessions, toStop>> /\ UNCHANGED broadcastVars
  BY DEF WriteDone, HandleWrite, HandleWriteError
<1>4. CASE HandleWrite(s)
  <2> DEFINE ses == [session[s] EXCEPT !.writes = @ - 1, !.writeInProgress = FALSE,
                                       !.sent = Append(@, session[s].sentData)]
  <2>1. Append(session[s].sent, session[s].sentData) \in Seq(Messages)
    BY <1>1, <1>2 DEF Sound, SessionType
  <2>2. ses \in Sound /\ Like(ses, session[s])
    BY <1>1, <1>2, <2>1 DEF Sound, SessionType, Like
  <2>3. session' = [session EXCEPT ![s] = ses] /\ writer' = [step |-> "cleared", of |-> s]
    BY <1>4 DEF HandleWrite, GotoWriter
  <2> HIDE DEF ses
  <2> QED
    BY <1>3, <2>2, <2>3, WriterMoves, HandlerKeepsInv
<1>5. CASE HandleWriteError(s)
  <2> DEFINE ses == [session[s] EXCEPT !.writes = @ - 1, !.writeInProgress = FALSE,
                                       !.pendingMessages = <<>>, !.failed = TRUE]
  <2>1. <<>> \in Seq(Messages)
    OBVIOUS
  <2>2. ses \in Sound /\ Like(ses, session[s])
    BY <1>1, <1>2, <2>1 DEF Sound, SessionType, Like
  <2>3. session' = [session EXCEPT ![s] = ses] /\ writer' = Idle
    BY <1>5 DEF HandleWriteError, Ready
  <2> HIDE DEF ses
  <2> QED
    BY <1>3, <2>2, <2>3, WriterMoves, HandlerKeepsInv
<1> QED
  BY <1>4, <1>5 DEF WriteDone

\* A write under way keeps it.
LEMMA WriteGoesOnKeepsInv ==
  ASSUME IInv, NEW s \in Sessions, WriteGoesOn(s)
  PROVE  IInv'
<1>1. session[s] \in Sound
  BY DEF IInv, SessionTypes
<1>2. UNCHANGED <<serverVars, toStop>> /\ UNCHANGED broadcastVars
  BY DEF WriteGoesOn, WriteWasLast, WriteNext, StartNext, QueueNext
<1>3. CASE WriteWasLast(s)
  <2>1. ThreadTypes' /\ MessageInv'
    BY <1>2, <1>3, WriterMoves DEF WriteWasLast
  <2>2. CASE StopAsync(s, session[s])
    BY <1>1, <1>2, <2>1, <2>2, StopKeepsInv DEF Like
  <2>3. CASE UNCHANGED <<session, sessions>>
    <3>1. session' = [session EXCEPT ![s] = session[s]]
      BY <2>3 DEF IInv, SessionTypes
    <3> QED
      BY <1>1, <1>2, <2>1, <2>3, <3>1, HandlerKeepsInv DEF Like
  <2> QED
    BY <1>3, <2>2, <2>3 DEF WriteWasLast
<1>4. CASE WriteNext(s)
  <2>1. /\ session[s].pendingMessages # <<>>
        /\ \E step \in {"start", "queue"} : writer' = [step |-> step, of |-> s]
        /\ UNCHANGED <<session, sessions>>
    BY <1>4 DEF WriteNext, GotoWriter
  <2>2. ThreadTypes'
    BY <1>2, <2>1, GotoIsTyped DEF IInv, ThreadTypes, broadcastVars
  <2>3. MessageInv'
    BY <1>2, <2>1 DEF IInv, MessageInv, broadcastVars
  <2>4. session' = [session EXCEPT ![s] = session[s]]
    BY <2>1 DEF IInv, SessionTypes
  <2> QED
    BY <1>1, <1>2, <2>1, <2>2, <2>3, <2>4, HandlerKeepsInv DEF Like
<1>5. CASE StartNext(s) \/ QueueNext(s)
  <2>1. session[s].pendingMessages # <<>> /\ writer' = Idle /\ UNCHANGED sessions
    BY <1>5 DEF StartNext, QueueNext, AtWriter, IInv, MessageInv
  <2>2. Head(session[s].pendingMessages) \in Messages
    BY <1>1, <2>1, WithoutFirstIsSession
  <2>3. PICK ses \in Sound :
          /\ Like(ses, session[s]) /\ ses.pendingMessages # <<>>
          /\ session' = [session EXCEPT ![s] = WithoutFirst(ses)]
    <3>1. CASE StartNext(s)
      BY <1>1, <2>1, <2>2, <3>1, StartedIsSession DEF StartNext
    <3>2. CASE QueueNext(s)
      <4>1. PICK ses \in Queued(session[s], Head(session[s].pendingMessages)) :
              session' = [session EXCEPT ![s] = WithoutFirst(ses)]
        BY <3>2 DEF QueueNext
      <4>2. /\ ses \in Sound /\ Like(ses, session[s])
            /\ ses.pendingMessages =
                 Append(session[s].pendingMessages, Head(session[s].pendingMessages))
        BY <1>1, <2>2, <4>1, QueuedIsSession
      <4>3. session[s].pendingMessages \in Seq(Messages)
        BY <1>1 DEF Sound, SessionType
      <4>4. ses.pendingMessages # <<>>
        BY <2>2, <4>2, <4>3
      <4> QED
        BY <4>1, <4>2, <4>4
    <3> QED
      BY <1>5, <3>1, <3>2
  <2>4. WithoutFirst(ses) \in Sound /\ Like(WithoutFirst(ses), session[s])
    BY <2>3, WithoutFirstIsSession DEF Like
  <2> QED
    BY <1>2, <2>1, <2>3, <2>4, WriterMoves, HandlerKeepsInv
<1> QED
  BY <1>3, <1>4, <1>5 DEF WriteGoesOn

\* A broadcast keeps it.
LEMMA BroadcastKeepsInv ==
  ASSUME IInv, Broadcast
  PROVE  IInv'
<1>1. NoSession \in 0 .. MaxSessions /\ (\A s \in Sessions : s \in 0 .. MaxSessions)
  BY BackendBounds DEF Sessions, NoSession
<1>2. UNCHANGED <<serverVars, sessions, toStop, writer>>
  BY DEF Broadcast, BeginBroadcast, EndBroadcast, BroadcastTo, StartBroadcast, QueueBroadcast
<1>3. ASSUME UNCHANGED session, ThreadTypes', MessageInv' PROVE IInv'
  <2>1. SessionTypes' /\ ServerTypes'
    BY <1>2, <1>3 DEF IInv, SessionTypes, ServerTypes, serverVars
  <2>2. Quiet
    BY <1>2, <1>3 DEF Quiet, Like, serverVars
  <2> QED
    BY <1>3, <2>1, <2>2, QuietKeepsBalance DEF IInv
<1>4. CASE BeginBroadcast
  <2>1. sessions \subseteq Sessions /\ broadcasts + 1 \in 0 .. MaxBroadcasts /\ broadcasts + 1 >= 1
    BY <1>4, BackendBounds DEF BeginBroadcast, IInv, SetType, ThreadTypes
  <2>2. ThreadTypes' /\ MessageInv'
    BY <1>1, <1>4, <2>1 DEF BeginBroadcast, GotoBroadcast, IInv, ThreadTypes, MessageInv
  <2> QED
    BY <1>3, <1>4, <2>2 DEF BeginBroadcast
<1>5. CASE EndBroadcast
  <2>1. ThreadTypes' /\ MessageInv'
    BY <1>1, <1>5 DEF EndBroadcast, GotoBroadcast, IInv, ThreadTypes, MessageInv
  <2> QED
    BY <1>3, <1>5, <2>1 DEF EndBroadcast
<1>6. ASSUME NEW s \in Sessions, BroadcastTo(s) PROVE IInv'
  <2>1. broadcast.left \ {s} \in SUBSET Sessions /\ broadcast.step = "next" /\ broadcasts >= 1
    BY <1>6 DEF BroadcastTo, IInv, ThreadTypes, MessageInv
  <2>2. ThreadTypes' /\ MessageInv'
    BY <1>1, <1>6, <2>1 DEF BroadcastTo, GotoBroadcast, IInv, ThreadTypes, MessageInv
  <2> QED
    BY <1>3, <1>6, <2>2 DEF BroadcastTo
<1>7. ASSUME NEW s \in Sessions, StartBroadcast(s) \/ QueueBroadcast(s) PROVE IInv'
  <2>1. /\ broadcast.step # "idle" /\ UNCHANGED broadcasts
        /\ broadcast' = [step |-> "next", to |-> NoSession, left |-> broadcast.left]
    BY <1>7 DEF StartBroadcast, QueueBroadcast, GotoBroadcast
  <2>2. broadcasts \in Messages /\ broadcasts >= 1
    BY <2>1, BackendBounds DEF IInv, ThreadTypes, MessageInv, Messages, Reply
  <2>3. session[s] \in Sound /\ session[s].pendingMessages \in Seq(Messages)
    BY DEF IInv, SessionTypes, Sound, SessionType
  <2>4. PICK ses \in Sound :
          /\ Like(ses, session[s])
          /\ session[s].pendingMessages # <<>> => ses.pendingMessages # <<>>
          /\ session' = [session EXCEPT ![s] = ses]
    <3>1. CASE StartBroadcast(s)
      BY <2>2, <2>3, <3>1, StartedIsSession DEF StartBroadcast
    <3>2. CASE QueueBroadcast(s)
      <4>1. PICK ses \in Queued(session[s], broadcasts) : session' = [session EXCEPT ![s] = ses]
        BY <3>2 DEF QueueBroadcast
      <4>2. /\ ses \in Sound /\ Like(ses, session[s])
            /\ ses.pendingMessages = Append(session[s].pendingMessages, broadcasts)
        BY <2>2, <2>3, <4>1, QueuedIsSession
      <4>3. ses.pendingMessages # <<>>
        BY <2>2, <2>3, <4>2
      <4> QED
        BY <4>1, <4>2, <4>3
    <3> QED
      BY <1>7, <3>1, <3>2
  <2>5. ThreadTypes'
    BY <1>1, <1>2, <2>1 DEF IInv, ThreadTypes
  <2>6. \A t \in Sessions : session[t].pendingMessages # <<>> => session'[t].pendingMessages # <<>>
    BY <2>4, OneSession DEF IInv
  <2>7. MessageInv'
    BY <1>2, <2>1, <2>2, <2>6 DEF IInv, MessageInv
  <2> QED
    BY <1>2, <2>4, <2>5, <2>7, HandlerKeepsInv
<1> QED
  BY <1>4, <1>5, <1>6, <1>7 DEF Broadcast

-----------------------------------------------------------------------------
\* The invariant is inductive.
LEMMA NextKeepsInv == IInv /\ [Next]_vars => IInv'
<1> SUFFICES ASSUME IInv, [Next]_vars PROVE IInv'
  OBVIOUS
<1>1. CASE UNCHANGED vars
  <2>1. /\ UNCHANGED <<session, sessions, writer, broadcastVars>>
        /\ main' = main /\ worker' = worker /\ accepting' = accepting
    BY <1>1 DEF vars, serverVars
  <2>2. ServerTypes'
    BY <1>1 DEF vars, serverVars, IInv, ServerTypes
  <2> QED
    BY <2>1, <2>2, SessionsStay
<1>2. CASE Next
  BY <1>2, MainKeepsInv, StartAsyncKeepsInv, AcceptKeepsInv, BroadcastKeepsInv, ReadKeepsInv,
     TimerKeepsInv, WriteKeepsInv, WriteGoesOnKeepsInv DEF Next
<1> QED
  BY <1>1, <1>2

\* The invariant holds in every reachable state.
LEMMA InvHolds == Spec => []IInv
  BY InitIsInv, NextKeepsInv, PTL DEF Spec

\* Every variable has its type, and every session of the set was accepted from a client.
THEOREM TypeCorrect == Spec => []TypeOK
<1>1. IInv => TypeOK
  BY TypesInParts DEF IInv
<1> QED
  BY <1>1, InvHolds, PTL

\* Session::StopAsync may erase another session than the one it closes (Session.cpp compares
\* addresses, not sessions): however many clients come from however many addresses, while the
\* server is up the set has as many sessions of an address as are open.
THEOREM SetIsBalanced == Spec => []SetCountsOpenSessions
<1>1. IInv => SetCountsOpenSessions
  BY DEF IInv
<1> QED
  BY <1>1, InvHolds, PTL
-----------------------------------------------------------------------------
(* Messages are kept: what the functions of a session do to them.          *)

\* A session has each message it was given in one place, once.
InOnePlace(ses) ==
  /\ ses.writes \in {0, 1}
  /\ ses.given = ToSet(ses.sent) \cup ToSet(ses.pendingMessages) \cup InProgress(ses)
  /\ Cardinality(ses.given) = Len(ses.sent) + Len(ses.pendingMessages) + ses.writes

KeptSes(ses) ==
  /\ ToSet(ses.pendingMessages) \subseteq ses.given
  /\ ~ses.failed /\ ~ses.raced => InOnePlace(ses)

SameMessages(ses, old) ==
  /\ ses.pendingMessages = old.pendingMessages /\ ses.sent = old.sent
  /\ ses.sentData = old.sentData /\ ses.writes = old.writes
  /\ ses.given = old.given /\ ses.failed = old.failed /\ ses.raced = old.raced

\* The messages of a queue: what Append and Tail do to them.
LEMMA MessagesOfQueue ==
  ASSUME NEW q \in Seq(Messages), NEW message \in Messages
  PROVE  /\ ToSet(Append(q, message)) = ToSet(q) \cup {message}
         /\ Len(Append(q, message)) = Len(q) + 1
         /\ q # <<>> => /\ ToSet(q) = {Head(q)} \cup ToSet(Tail(q))
                        /\ Len(Tail(q)) = Len(q) - 1
                        /\ Append(q, message) # <<>>
                        /\ Head(Append(q, message)) = Head(q)
                        /\ Tail(Append(q, message)) = Append(Tail(q), message)
<1>1. ToSet(Append(q, message)) = ToSet(q) \cup {message}
      /\ Len(Append(q, message)) = Len(q) + 1
  <2>1. /\ Len(Append(q, message)) = Len(q) + 1 /\ Append(q, message) \in Seq(Messages)
        /\ \A i \in 1 .. Len(q) : Append(q, message)[i] = q[i]
        /\ Append(q, message)[Len(q) + 1] = message
    BY AppendProperties
  <2> DEFINE longer == Append(q, message)
  <2>2. DOMAIN q = 1 .. Len(q) /\ DOMAIN longer = 1 .. Len(q) + 1 /\ Len(q) \in Nat
    BY <2>1, LenProperties
  <2> HIDE DEF longer
  <2>3. DOMAIN longer = DOMAIN q \cup {Len(q) + 1}
    BY <2>2
  <2> QED
    BY <2>1, <2>2, <2>3 DEF ToSet, longer
<1>2. ASSUME q # <<>>
      PROVE  ToSet(q) = {Head(q)} \cup ToSet(Tail(q)) /\ Len(Tail(q)) = Len(q) - 1
  <2>1. /\ Head(q) = q[1] /\ Tail(q) \in Seq(Messages) /\ Len(Tail(q)) = Len(q) - 1
        /\ \A i \in 1 .. Len(Tail(q)) : Tail(q)[i] = q[i + 1]
    BY <1>2, HeadTailProperties
  <2> DEFINE rest == Tail(q)
  <2>2. /\ DOMAIN q = 1 .. Len(q) /\ DOMAIN rest = 1 .. Len(q) - 1 /\ Len(q) \in Nat \ {0}
    BY <1>2, <2>1, LenProperties, EmptySeq
  <2> HIDE DEF rest
  <2>3. \A i \in DOMAIN q : i = 1 \/ (i - 1 \in DOMAIN rest /\ rest[i - 1] = q[i])
    BY <2>1, <2>2 DEF rest
  <2>4. \A i \in DOMAIN rest : i + 1 \in DOMAIN q /\ rest[i] = q[i + 1]
    BY <2>1, <2>2 DEF rest
  <2>5. ToSet(q) \subseteq {q[1]} \cup ToSet(rest)
    BY <2>2, <2>3 DEF ToSet
  <2>6. {q[1]} \cup ToSet(rest) \subseteq ToSet(q)
    BY <2>2, <2>4 DEF ToSet
  <2> QED
    BY <2>1, <2>5, <2>6 DEF rest
<1>3. ASSUME q # <<>>
      PROVE  /\ Append(q, message) # <<>> /\ Head(Append(q, message)) = Head(q)
             /\ Tail(Append(q, message)) = Append(Tail(q), message)
  BY <1>3
<1> QED
  BY <1>1, <1>2, <1>3

\* What was given is a finite set.
LEMMA GivenIsFinite ==
  ASSUME NEW given \in SUBSET Messages, NEW message \in Messages
  PROVE  /\ IsFiniteSet(given)
         /\ message \notin given => Cardinality(given \cup {message}) = Cardinality(given) + 1
         /\ Cardinality(given) \in Nat
<1>1. IsFiniteSet(Messages)
  BY FS_Interval, BackendBounds DEF Messages, Reply
<1> QED
  BY <1>1, FS_Subset, FS_AddElement, FS_CardinalityType

\* A session that is changed elsewhere keeps its messages.
LEMMA SameMessagesKept ==
  ASSUME NEW ses, NEW old, KeptSes(old), SameMessages(ses, old)
  PROVE  KeptSes(ses)
  BY DEF KeptSes, InOnePlace, SameMessages, InProgress

\* SendAsync takes a message the session was not given before.
LEMMA SendKeepsMessages ==
  ASSUME NEW ses \in Sound, KeptSes(ses), NEW message \in Messages, message \notin ses.given,
         NEW new, new = Started(ses, message) \/ new \in Queued(ses, message)
  PROVE  /\ KeptSes(new) /\ new.given = ses.given \cup {message}
         /\ new.reading = ses.reading
<1>1. /\ ses.pendingMessages \in Seq(Messages) /\ ses.sent \in Seq(Messages)
      /\ Len(ses.pendingMessages) \in Nat /\ Len(ses.sent) \in Nat
      /\ ses.writes \in Nat /\ ses.given \in SUBSET Messages
  BY DEF Sound, SessionType
<1>2. /\ Cardinality(ses.given \cup {message}) = Cardinality(ses.given) + 1
      /\ Cardinality(ses.given) \in Nat
  BY <1>1, GivenIsFinite
<1>3. CASE new = Started(ses, message)
  <2>1. /\ new.pendingMessages = ses.pendingMessages /\ new.sent = ses.sent
        /\ new.writes = ses.writes + 1 /\ new.sentData = message
        /\ new.given = ses.given \cup {message} /\ new.failed = ses.failed
        /\ new.raced = (ses.raced \/ ses.writes > 0) /\ new.reading = ses.reading
    BY <1>3 DEF Started, Sound, SessionType
  <2>2. ASSUME ~new.failed, ~new.raced
        PROVE  InOnePlace(new)
    <3>1. ~(ses.writes > 0) /\ InOnePlace(ses)
      BY <2>1, <2>2, Zenon DEF KeptSes
    <3>2. ses.writes = 0 /\ new.writes = 1 /\ InProgress(ses) = {} /\ InProgress(new) = {message}
      BY <1>1, <2>1, <3>1 DEF InProgress
    <3>3. /\ ses.given = ToSet(ses.sent) \cup ToSet(ses.pendingMessages)
          /\ Cardinality(ses.given) = Len(ses.sent) + Len(ses.pendingMessages)
      BY <1>1, <3>1, <3>2 DEF InOnePlace
    <3> QED
      BY <1>1, <1>2, <2>1, <3>2, <3>3 DEF InOnePlace
  <2> QED
    BY <2>1, <2>2 DEF KeptSes
<1>4. CASE new \in Queued(ses, message)
  <2>1. /\ new.pendingMessages = Append(ses.pendingMessages, message) /\ new.sent = ses.sent
        /\ new.writes = ses.writes /\ new.sentData = ses.sentData
        /\ new.given = ses.given \cup {message} /\ new.failed = ses.failed
        /\ new.raced = ses.raced /\ new.reading = ses.reading
    BY <1>4, QueuedIsSession
  <2>2. /\ ToSet(new.pendingMessages) = ToSet(ses.pendingMessages) \cup {message}
        /\ Len(new.pendingMessages) = Len(ses.pendingMessages) + 1
    BY <1>1, <2>1, MessagesOfQueue
  <2>3. InProgress(new) = InProgress(ses)
    BY <2>1 DEF InProgress
  <2>4. ASSUME ~new.failed, ~new.raced
        PROVE  InOnePlace(new)
    <3>1. InOnePlace(ses)
      BY <2>1, <2>4, Zenon DEF KeptSes
    <3>2. new.given = ToSet(new.sent) \cup ToSet(new.pendingMessages) \cup InProgress(new)
      BY <2>1, <2>2, <2>3, <3>1 DEF InOnePlace
    <3>3. Cardinality(new.given) = Len(new.sent) + Len(new.pendingMessages) + new.writes
      <4>1. Cardinality(new.given) = Cardinality(ses.given) + 1
        BY <1>2, <2>1, Zenon
      <4>2. Cardinality(ses.given) = Len(ses.sent) + Len(ses.pendingMessages) + ses.writes
        BY <3>1, Zenon DEF InOnePlace
      <4>3. /\ Len(new.sent) = Len(ses.sent) /\ new.writes = ses.writes
            /\ Len(new.pendingMessages) = Len(ses.pendingMessages) + 1
            /\ Len(ses.sent) \in Nat /\ Len(ses.pendingMessages) \in Nat /\ ses.writes \in Nat
        BY <1>1, <2>1, <2>2, Zenon
      <4> DEFINE before == Cardinality(ses.given)
      <4> DEFINE after  == Cardinality(new.given)
      <4> DEFINE sent == Len(ses.sent)
      <4> DEFINE pending == Len(ses.pendingMessages)
      <4>4. after = before + 1 /\ before = sent + pending + ses.writes
            /\ sent \in Nat /\ pending \in Nat /\ ses.writes \in Nat
        BY <4>1, <4>2, <4>3
      <4> SUFFICES after = sent + (pending + 1) + ses.writes
        BY <4>3, Zenon
      <4> HIDE DEF before, after, sent, pending
      <4> QED
        BY <4>4
    <3> QED
      BY <2>1, <3>1, <3>2, <3>3 DEF InOnePlace
  <2> QED
    BY <2>1, <2>2, <2>4 DEF KeptSes
<1> QED
  BY <1>3, <1>4

\* The first of the pending messages is sent, or queued again.
LEMMA MovingKeepsMessages ==
  ASSUME NEW ses \in Sound, KeptSes(ses), ses.pendingMessages # <<>>,
         NEW new, \/ new = Started(ses, Head(ses.pendingMessages))
                  \/ new \in Queued(ses, Head(ses.pendingMessages))
  PROVE  /\ KeptSes(WithoutFirst(new)) /\ WithoutFirst(new).given = ses.given
         /\ WithoutFirst(new).reading = ses.reading
<1> DEFINE message == Head(ses.pendingMessages)
<1> DEFINE rest == Tail(ses.pendingMessages)
<1> DEFINE moved == WithoutFirst(new)
<1>1. /\ ses.pendingMessages \in Seq(Messages) /\ ses.sent \in Seq(Messages)
      /\ Len(ses.sent) \in Nat /\ Len(ses.pendingMessages) \in Nat
      /\ ses.writes \in Nat /\ ses.given \in SUBSET Messages
      /\ message \in Messages /\ rest \in Seq(Messages) /\ Len(rest) \in Nat
  BY DEF Sound, SessionType
<1>2. /\ ToSet(ses.pendingMessages) = {message} \cup ToSet(rest)
      /\ Len(rest) = Len(ses.pendingMessages) - 1
      /\ Tail(Append(ses.pendingMessages, message)) = Append(rest, message)
      /\ ToSet(Append(rest, message)) = ToSet(rest) \cup {message}
      /\ Len(Append(rest, message)) = Len(rest) + 1
  BY <1>1, MessagesOfQueue
<1>3. message \in ses.given
  BY <1>2 DEF KeptSes
<1> HIDE DEF message, rest
<1>4. CASE new = Started(ses, message)
  <2>1. /\ moved.pendingMessages = rest /\ moved.sent = ses.sent
        /\ moved.writes = ses.writes + 1 /\ moved.sentData = message
        /\ moved.given = ses.given \cup {message} /\ moved.failed = ses.failed
        /\ moved.raced = (ses.raced \/ ses.writes > 0) /\ moved.reading = ses.reading
    BY <1>4 DEF Started, WithoutFirst, Sound, SessionType, rest
  <2>2. moved.given = ses.given /\ ToSet(moved.pendingMessages) \subseteq moved.given
    BY <1>2, <1>3, <2>1 DEF KeptSes
  <2> HIDE DEF moved
  <2>3. ASSUME ~moved.failed, ~moved.raced
        PROVE  InOnePlace(moved)
    <3>1. ~(ses.writes > 0) /\ InOnePlace(ses)
      BY <2>1, <2>3, Zenon DEF KeptSes
    <3>2. ses.writes = 0 /\ moved.writes = 1 /\ InProgress(ses) = {} /\ InProgress(moved) = {message}
      BY <1>1, <2>1, <3>1 DEF InProgress
    <3>3. /\ ses.given = ToSet(ses.sent) \cup ToSet(ses.pendingMessages)
          /\ Cardinality(ses.given) = Len(ses.sent) + Len(ses.pendingMessages)
      BY <1>1, <3>1, <3>2 DEF InOnePlace
    <3> QED
      <4>1. moved.given = ToSet(moved.sent) \cup ToSet(moved.pendingMessages) \cup InProgress(moved)
        BY <1>2, <2>1, <2>2, <3>2, <3>3
      <4>2. Cardinality(moved.given) = Len(moved.sent) + Len(moved.pendingMessages) + moved.writes
        <5>1. Cardinality(moved.given) = Cardinality(ses.given)
          BY <2>2, Zenon
        <5>2. /\ Len(moved.sent) = Len(ses.sent) /\ moved.writes = 1
              /\ Len(moved.pendingMessages) = Len(ses.pendingMessages) - 1
              /\ Len(ses.sent) \in Nat /\ Len(ses.pendingMessages) \in Nat
          BY <1>1, <1>2, <2>1, <3>2, Zenon
        <5> QED
          BY <3>3, <5>1, <5>2
      <4> QED
        BY <3>2, <4>1, <4>2 DEF InOnePlace
  <2> QED
    BY <2>1, <2>2, <2>3 DEF KeptSes, moved
<1>5. CASE new \in Queued(ses, message)
  <2>1. /\ moved.pendingMessages = Append(rest, message) /\ moved.sent = ses.sent
        /\ moved.writes = ses.writes /\ moved.sentData = ses.sentData
        /\ moved.given = ses.given \cup {message} /\ moved.failed = ses.failed
        /\ moved.raced = ses.raced /\ moved.reading = ses.reading
    <3>1. /\ new \in Sound /\ new.pendingMessages = Append(ses.pendingMessages, message)
          /\ new.given = ses.given \cup {message} /\ new.sent = ses.sent
          /\ new.sentData = ses.sentData /\ new.writes = ses.writes
          /\ new.reading = ses.reading /\ new.failed = ses.failed /\ new.raced = ses.raced
      BY <1>1, <1>5, QueuedIsSession
    <3> QED
      BY <1>2, <3>1 DEF WithoutFirst, Sound, SessionType
  <2> HIDE DEF moved
  <2>2. /\ ToSet(moved.pendingMessages) = ToSet(ses.pendingMessages)
        /\ Len(moved.pendingMessages) = Len(ses.pendingMessages)
        /\ moved.given = ses.given
    BY <1>1, <1>2, <1>3, <2>1
  <2>3. InProgress(moved) = InProgress(ses)
    BY <2>1 DEF InProgress
  <2>4. ASSUME ~moved.failed, ~moved.raced PROVE InOnePlace(moved)
    <3>1. InOnePlace(ses)
      BY <2>1, <2>4, Zenon DEF KeptSes
    <3> QED
      BY <2>1, <2>2, <2>3, <3>1 DEF InOnePlace
  <2> QED
    BY <2>1, <2>2, <2>4 DEF KeptSes, moved
<1> QED
  BY <1>4, <1>5 DEF message

\* A write that completes has sent its message.
LEMMA SentKeepsMessages ==
  ASSUME NEW ses \in Sound, KeptSes(ses), ses.writes > 0, NEW new,
         new = [ses EXCEPT !.writes = @ - 1, !.writeInProgress = FALSE,
                           !.sent = Append(@, ses.sentData)]
  PROVE  KeptSes(new) /\ new.given = ses.given /\ new.reading = ses.reading
<1>1. /\ ses.pendingMessages \in Seq(Messages) /\ ses.sent \in Seq(Messages)
      /\ Len(ses.sent) \in Nat /\ Len(ses.pendingMessages) \in Nat
      /\ ses.writes \in Nat /\ ses.sentData \in Messages
  BY DEF Sound, SessionType
<1>2. /\ ToSet(Append(ses.sent, ses.sentData)) = ToSet(ses.sent) \cup {ses.sentData}
      /\ Len(Append(ses.sent, ses.sentData)) = Len(ses.sent) + 1
  BY <1>1, MessagesOfQueue
<1>3. /\ new.pendingMessages = ses.pendingMessages /\ new.sent = Append(ses.sent, ses.sentData)
      /\ new.writes = ses.writes - 1 /\ new.given = ses.given /\ new.failed = ses.failed
      /\ new.raced = ses.raced /\ new.reading = ses.reading
  BY DEF Sound, SessionType
<1>4. ASSUME ~new.failed, ~new.raced
      PROVE  InOnePlace(new)
  <2>1. InOnePlace(ses)
    BY <1>3, <1>4, Zenon DEF KeptSes
  <2>2. ses.writes = 1 /\ new.writes = 0
    BY <1>1, <1>3, <2>1 DEF InOnePlace
  <2>3. InProgress(ses) = {ses.sentData} /\ InProgress(new) = {}
    BY <2>2 DEF InProgress
  <2> QED
    <3>1. new.given = ToSet(new.sent) \cup ToSet(new.pendingMessages) \cup InProgress(new)
      BY <1>2, <1>3, <2>1, <2>3 DEF InOnePlace
    <3>2. Cardinality(new.given) = Len(new.sent) + Len(new.pendingMessages) + new.writes
      <4>1. Cardinality(new.given) = Len(ses.sent) + Len(ses.pendingMessages) + ses.writes
        BY <1>3, <2>1, Zenon DEF InOnePlace
      <4>2. /\ Len(new.sent) = Len(ses.sent) + 1
            /\ Len(new.pendingMessages) = Len(ses.pendingMessages)
            /\ Len(ses.sent) \in Nat /\ Len(ses.pendingMessages) \in Nat
        BY <1>1, <1>2, <1>3, Zenon
      <4>3. \A a, b \in Nat : a + b + 1 = (a + 1) + b + 0
        OBVIOUS
      <4> QED
        BY <2>2, <4>1, <4>2, <4>3, Zenon
    <3> QED
      BY <2>2, <3>1, <3>2 DEF InOnePlace
<1> QED
  BY <1>3, <1>4 DEF KeptSes

-----------------------------------------------------------------------------
(* Messages are kept: what the steps do to them.                           *)

MessagesInv == \A s \in Sessions : KeptSes(session[s])

\* What was given is a reply or one of the broadcasts so far, and what is going to be given is new.
FreshInv ==
  /\ \A s \in Sessions :
       /\ session[s].given \subseteq 1 .. broadcasts \cup {Reply}
       /\ session[s].reading => Reply \notin session[s].given
       /\ main = "created" \/ (accepting # NoSession /\ s >= accepting) =>
            ~session[s].reading /\ Reply \notin session[s].given
       /\ broadcast.step # "idle" /\ s \in broadcast.left => broadcasts \notin session[s].given
       /\ broadcast.step \in {"start", "queue"} /\ s = broadcast.to =>
            s \notin broadcast.left /\ broadcasts \notin session[s].given

KInv == IInv /\ MessagesInv /\ FreshInv

\* No session is given a message, and none reads that did not.
GivesNothing ==
  /\ \A s \in Sessions : /\ session'[s].given = session[s].given
                         /\ session'[s].reading = session[s].reading \/ session'[s].reading = FALSE
  /\ main' = "created" => main = "created"
  /\ \/ accepting' \in {accepting, NoSession}
     \/ main = "created"
     \/ accepting # NoSession /\ accepting' = accepting + 1

\* Steps that give no session a message.
LEMMA NothingGivenKeepsFresh ==
  ASSUME IInv, FreshInv, GivesNothing, UNCHANGED broadcastVars
  PROVE  FreshInv'
<1> SUFFICES ASSUME NEW s \in Sessions
             PROVE  /\ session'[s].given \subseteq 1 .. broadcasts \cup {Reply}
                    /\ session'[s].reading => Reply \notin session'[s].given
                    /\ main' = "created" \/ (accepting' # NoSession /\ s >= accepting') =>
                         ~session'[s].reading /\ Reply \notin session'[s].given
                    /\ broadcast.step # "idle" /\ s \in broadcast.left =>
                         broadcasts \notin session'[s].given
                    /\ broadcast.step \in {"start", "queue"} /\ s = broadcast.to =>
                         s \notin broadcast.left /\ broadcasts \notin session'[s].given
  BY DEF FreshInv, broadcastVars
<1>1. /\ session'[s].given = session[s].given
      /\ session'[s].reading = session[s].reading \/ session'[s].reading = FALSE
  BY DEF GivesNothing
<1>2. main' = "created" \/ (accepting' # NoSession /\ s >= accepting') =>
        main = "created" \/ (accepting # NoSession /\ s >= accepting)
  BY BackendBounds DEF GivesNothing, IInv, ServerTypes, Sessions, NoSession
<1>3. main' = "created" \/ (accepting' # NoSession /\ s >= accepting') =>
        ~session'[s].reading /\ Reply \notin session'[s].given
  BY <1>1, <1>2, Zenon DEF FreshInv
<1>4. session'[s].reading => Reply \notin session'[s].given
  BY <1>1, Zenon DEF FreshInv
<1>5. /\ session'[s].given \subseteq 1 .. broadcasts \cup {Reply}
      /\ broadcast.step # "idle" /\ s \in broadcast.left =>
           broadcasts \notin session'[s].given
      /\ broadcast.step \in {"start", "queue"} /\ s = broadcast.to =>
           s \notin broadcast.left /\ broadcasts \notin session'[s].given
  BY <1>1, Zenon DEF FreshInv
<1> QED
  BY <1>3, <1>4, <1>5

\* A step that changes one session, and what becomes of it.
LEMMA OneSessionKept ==
  ASSUME IInv, MessagesInv, NEW s \in Sessions, NEW ses, KeptSes(ses),
         session' = [session EXCEPT ![s] = ses]
  PROVE  MessagesInv'
  BY DEF IInv, SessionTypes, MessagesInv

\* A step that changes one session and gives it nothing.
LEMMA OneSessionMoves ==
  ASSUME KInv, NEW s \in Sessions, NEW ses, KeptSes(ses),
         session' = [session EXCEPT ![s] = ses],
         ses.given = session[s].given,
         ses.reading = session[s].reading \/ ses.reading = FALSE,
         main' = "created" => main = "created",
         \/ accepting' \in {accepting, NoSession}
         \/ main = "created"
         \/ accepting # NoSession /\ accepting' = accepting + 1,
         UNCHANGED broadcastVars
  PROVE  MessagesInv' /\ FreshInv'
<1>1. session'[s] = ses /\ \A t \in Sessions : t # s => session'[t] = session[t]
  BY DEF KInv, IInv, SessionTypes
<1>2. GivesNothing
  BY <1>1 DEF GivesNothing
<1> QED
  BY <1>2, OneSessionKept, NothingGivenKeepsFresh DEF KInv

\* Steps that leave the sessions and the broadcast alone.
LEMMA SessionsStayKept ==
  ASSUME KInv, UNCHANGED <<session, broadcastVars>>,
         main' = "created" => main = "created",
         accepting' \in {accepting, NoSession} \/ main = "created"
  PROVE  MessagesInv' /\ FreshInv'
<1>1. GivesNothing /\ MessagesInv'
  BY DEF GivesNothing, KInv, MessagesInv
<1> QED
  BY <1>1, NothingGivenKeepsFresh DEF KInv

\* Session::StopAsync.
LEMMA StopMoves ==
  ASSUME KInv, NEW s \in Sessions, NEW ses \in Sound, SameMessages(ses, session[s]),
         StopAsync(s, ses), main' = "created" => main = "created",
         \/ accepting' = accepting
         \/ accepting # NoSession /\ accepting' = accepting + 1,
         UNCHANGED broadcastVars
  PROVE  MessagesInv' /\ FreshInv'
<1>1. /\ SameMessages(Closed(ses), session[s])
      /\ Closed(ses).reading = FALSE /\ Closed(ses).given = session[s].given
  BY DEF Closed, SameMessages, Sound, SessionType
<1>2. KeptSes(Closed(ses))
  BY <1>1, SameMessagesKept DEF KInv, MessagesInv
<1>3. session' = [session EXCEPT ![s] = Closed(ses)]
  BY DEF StopAsync
<1> QED
  BY <1>1, <1>2, <1>3, OneSessionMoves

\* The main thread and the start of the worker.
LEMMA MainKeepsMessages ==
  ASSUME KInv, Main \/ StartAsync
  PROVE  MessagesInv' /\ FreshInv'
<1>1. ASSUME NEW s \in Sessions, StopSession(s) PROVE MessagesInv' /\ FreshInv'
  <2>1. session[s] \in Sound
    BY DEF KInv, IInv, SessionTypes
  <2>2. /\ SameMessages(Closed(session[s]), session[s])
        /\ Closed(session[s]).reading = FALSE
        /\ Closed(session[s]).given = session[s].given
    BY <2>1 DEF Closed, SameMessages, Sound, SessionType
  <2>3. KeptSes(Closed(session[s]))
    BY <2>2, SameMessagesKept DEF KInv, MessagesInv
  <2>4. /\ session' = [session EXCEPT ![s] = Closed(session[s])]
        /\ UNCHANGED broadcastVars /\ main' = main /\ accepting' = accepting
    BY <1>1 DEF StopSession, serverVars
  <2> QED
    BY <2>2, <2>3, <2>4, OneSessionMoves
<1>2. CASE \/ ServerInit \/ CreateAcceptorFails \/ BeginStop \/ EndStop \/ Join
           \/ StartAsync
  <2>1. /\ UNCHANGED <<session, broadcastVars>>
        /\ main' = "created" => main = "created"
        /\ accepting' \in {accepting, NoSession} \/ main = "created"
    BY <1>2 DEF ServerInit, CreateAcceptorFails, BeginStop, EndStop, Join, StartAsync,
                ReadPort, ResetService, RunReturns
  <2> QED
    BY <2>1, SessionsStayKept
<1> QED
  BY <1>1, <1>2 DEF Main

\* An accept: the new session was not given anything but broadcasts.
LEMMA AcceptKeepsMessages ==
  ASSUME KInv, Accept
  PROVE  MessagesInv' /\ FreshInv'
<1>1. CASE HandleAcceptError
  BY <1>1, SessionsStayKept DEF HandleAcceptError
<1>2. CASE HandleAcceptOfNobody
  <2>1. accepting \in Sessions /\ accepting # NoSession
    BY <1>2 DEF HandleAcceptOfNobody, ClientComes, Sessions, NoSession
  <2> DEFINE opened == [session[accepting] EXCEPT !.open = TRUE]
  <2>2. session[accepting] \in Sound
    BY <2>1 DEF KInv, IInv, SessionTypes
  <2>3. opened \in Sound /\ SameMessages(opened, session[accepting])
    BY <2>2 DEF Sound, SessionType, SameMessages
  <2>4. /\ StopAsync(accepting, opened) /\ main' = main /\ UNCHANGED broadcastVars
        /\ accepting' = accepting + 1
    BY <1>2 DEF HandleAcceptOfNobody, StartAccept
  <2> QED
    BY <2>1, <2>3, <2>4, StopMoves
<1>3. ASSUME NEW a \in Addresses, HandleAccept(a) PROVE MessagesInv' /\ FreshInv'
  <2> DEFINE s == accepting
  <2> DEFINE new == [session[s] EXCEPT !.open = TRUE, !.sessionAddress = a, !.reading = TRUE]
  <2>1. s \in Sessions /\ s # NoSession /\ accepting' = s + 1
    BY <1>3 DEF HandleAccept, ClientComes, StartAccept, Sessions, NoSession
  <2>2. session[s] \in Sound
    BY <2>1 DEF KInv, IInv, SessionTypes
  <2>3. SameMessages(new, session[s]) /\ new.given = session[s].given
    BY <2>2 DEF Sound, SessionType, SameMessages
  <2>4. KeptSes(new)
    BY <2>1, <2>3, SameMessagesKept DEF KInv, MessagesInv
  <2>5. /\ session' = [session EXCEPT ![s] = new] /\ UNCHANGED broadcastVars /\ main' = main
        /\ main # "created" /\ broadcast.step = "idle"
    BY <1>3 DEF HandleAccept, Handler, Ready, IoMutexFree, KInv, IInv, AddressInv
  <2> HIDE DEF new
  <2>6. MessagesInv'
    BY <2>1, <2>4, <2>5, OneSessionKept DEF KInv
  <2>7. session'[s] = new /\ \A t \in Sessions : t # s => session'[t] = session[t]
    BY <2>1, <2>5 DEF KInv, IInv, SessionTypes
  <2>8. FreshInv'
    <3> SUFFICES ASSUME NEW t \in Sessions
                 PROVE  /\ session'[t].given \subseteq 1 .. broadcasts \cup {Reply}
                        /\ session'[t].reading => Reply \notin session'[t].given
                        /\ t >= accepting' => ~session'[t].reading /\ Reply \notin session'[t].given
      BY <2>5, Zenon DEF FreshInv, broadcastVars
    <3>1. session'[t].given = session[t].given
      BY <2>3, <2>7
    <3>2. t >= accepting' => t # s /\ t >= s
      BY <2>1 DEF Sessions
    <3>3. Reply \notin session[s].given
      BY <2>1, s >= s DEF KInv, FreshInv, Sessions
    <3>4. t >= accepting' => ~session'[t].reading /\ Reply \notin session'[t].given
      BY <2>1, <2>7, <3>2, Zenon DEF KInv, FreshInv
    <3>5. session'[t].reading => Reply \notin session'[t].given
      BY <2>7, <3>1, <3>3, Zenon DEF KInv, FreshInv
    <3> QED
      BY <3>1, <3>4, <3>5, Zenon DEF KInv, FreshInv
  <2> QED
    BY <2>6, <2>8
<1> QED
  BY <1>1, <1>2, <1>3 DEF Accept

\* A session that read a request gets its one reply.
LEMMA ReadKeepsMessages ==
  ASSUME KInv, NEW s \in Sessions, ReadDone(s)
  PROVE  MessagesInv' /\ FreshInv'
<1>1. /\ UNCHANGED broadcastVars /\ main' = main /\ accepting' = accepting
      /\ broadcast.step = "idle" /\ session[s].reading
  BY DEF ReadDone, HandleRead, HandleReadOfGraph, HandleReadError, Handler, IoMutexFree, serverVars
<1>2. session[s] \in Sound
  BY DEF KInv, IInv, SessionTypes
<1>3. /\ Read(s) \in Sound /\ SameMessages(Read(s), session[s])
      /\ Read(s).given = session[s].given /\ Read(s).reading = FALSE
  BY <1>2 DEF Read, Sound, SessionType, SameMessages
<1>4. KeptSes(Read(s))
  BY <1>3, SameMessagesKept DEF KInv, MessagesInv
<1>5. CASE session' = [session EXCEPT ![s] = Read(s)]
  BY <1>1, <1>3, <1>4, <1>5, OneSessionMoves
<1>6. CASE StopAsync(s, Read(s))
  BY <1>1, <1>3, <1>6, StopMoves
<1>7. CASE HandleReadOfGraph(s)
  <2>1. PICK result \in Answered(Reply) : \E ses \in SendAsync(Read(s), result.reply) :
          session' = [session EXCEPT ![s] = [ses EXCEPT !.is_close_pending = @ \/ result.is_to_close]]
    BY <1>7 DEF HandleReadOfGraph
  <2>2. PICK ses \in SendAsync(Read(s), result.reply) :
          session' = [session EXCEPT ![s] = [ses EXCEPT !.is_close_pending = @ \/ result.is_to_close]]
    BY <2>1
  <2>3. result.reply = Reply /\ Reply \in Messages
    BY BackendBounds DEF Answered, Reply, Messages
  <2>4. Reply \notin Read(s).given
    BY <1>1, <1>3 DEF KInv, FreshInv
  <2>5. ses = Started(Read(s), Reply) \/ ses \in Queued(Read(s), Reply)
    BY <2>2, <2>3, Zenon DEF SendAsync
  <2>6. /\ KeptSes(ses) /\ ses.given = session[s].given \cup {Reply} /\ ses.reading = FALSE
        /\ ses \in Sound
    BY <1>3, <1>4, <2>2, <2>3, <2>4, <2>5, SendKeepsMessages, SentIsSession
  <2> DEFINE new == [ses EXCEPT !.is_close_pending = @ \/ result.is_to_close]
  <2>7. SameMessages(new, ses) /\ new.given = ses.given /\ new.reading = ses.reading
    BY <2>6 DEF Sound, SessionType, SameMessages
  <2>8. KeptSes(new)
    BY <2>6, <2>7, SameMessagesKept
  <2>9. session' = [session EXCEPT ![s] = new]
    BY <2>2
  <2> HIDE DEF new
  <2>10. session'[s] = new /\ \A t \in Sessions : t # s => session'[t] = session[t]
    BY <2>9 DEF KInv, IInv, SessionTypes
  <2>11. MessagesInv'
    BY <2>8, <2>9, OneSessionKept DEF KInv
  <2>12. FreshInv'
    <3> SUFFICES ASSUME NEW t \in Sessions
                 PROVE  /\ session'[t].given \subseteq 1 .. broadcasts \cup {Reply}
                        /\ session'[t].reading => Reply \notin session'[t].given
                        /\ main = "created" \/ (accepting # NoSession /\ t >= accepting) =>
                             ~session'[t].reading /\ Reply \notin session'[t].given
      BY <1>1, Zenon DEF FreshInv, broadcastVars
    <3>1. CASE t = s
      <4>1. ~(main = "created" \/ (accepting # NoSession /\ s >= accepting))
        BY <1>1, Zenon DEF KInv, FreshInv
      <4>2. session'[t].given = session[s].given \cup {Reply} /\ session'[t].reading = FALSE
        BY <2>6, <2>7, <2>10, <3>1
      <4>3. session[s].given \subseteq 1 .. broadcasts \cup {Reply}
        BY DEF KInv, FreshInv
      <4> QED
        BY <3>1, <4>1, <4>2, <4>3, Zenon
    <3>2. CASE t # s
      BY <2>10, <3>2, Zenon DEF KInv, FreshInv
    <3> QED
      BY <3>1, <3>2
  <2> QED
    BY <2>11, <2>12
<1> QED
  BY <1>5, <1>6, <1>7 DEF ReadDone, HandleRead, HandleReadError

\* The timer moves the first of the pending messages.
LEMMA TimerKeepsMessages ==
  ASSUME KInv, NEW s \in Sessions, HandleTransferTimer(s)
  PROVE  MessagesInv' /\ FreshInv'
<1>1. /\ UNCHANGED broadcastVars /\ main' = main /\ accepting' = accepting
      /\ session[s].timers > 0
  BY DEF HandleTransferTimer, serverVars
<1>2. session[s] \in Sound /\ session[s].timers - 1 \in Nat
  BY <1>1 DEF KInv, IInv, SessionTypes, Sound, SessionType
<1>3. /\ Expired(s) \in Sound /\ SameMessages(Expired(s), session[s])
      /\ Expired(s).given = session[s].given /\ Expired(s).reading = session[s].reading
      /\ Expired(s).pendingMessages = session[s].pendingMessages
  BY <1>2 DEF Expired, Sound, SessionType, SameMessages
<1>4. KeptSes(Expired(s))
  BY <1>3, SameMessagesKept DEF KInv, MessagesInv
<1>5. CASE session' = [session EXCEPT ![s] = Expired(s)]
  BY <1>1, <1>3, <1>4, <1>5, OneSessionMoves
<1>6. CASE StopAsync(s, Expired(s))
  BY <1>1, <1>3, <1>6, StopMoves
<1>7. CASE session[s].pendingMessages # <<>>
  <2>1. PICK ses \in SendAsync(Expired(s), Head(session[s].pendingMessages)) :
          session' = [session EXCEPT ![s] = WithoutFirst(ses)]
    BY <1>7 DEF HandleTransferTimer
  <2>2. \/ ses = Started(Expired(s), Head(Expired(s).pendingMessages))
        \/ ses \in Queued(Expired(s), Head(Expired(s).pendingMessages))
    BY <1>3, <2>1, Zenon DEF SendAsync
  <2>3. /\ KeptSes(WithoutFirst(ses)) /\ WithoutFirst(ses).given = session[s].given
        /\ WithoutFirst(ses).reading = session[s].reading
    BY <1>3, <1>4, <1>7, <2>2, MovingKeepsMessages
  <2> QED
    BY <1>1, <2>1, <2>3, OneSessionMoves
<1> QED
  BY <1>5, <1>6, <1>7 DEF HandleTransferTimer

\* A write completes or fails, and HandleWrite goes on with the first of the pending messages.
LEMMA WriteKeepsMessages ==
  ASSUME KInv, NEW s \in Sessions, WriteDone(s) \/ WriteGoesOn(s)
  PROVE  MessagesInv' /\ FreshInv'
<1>1. UNCHANGED broadcastVars /\ main' = main /\ accepting' = accepting
  BY DEF WriteDone, HandleWrite, HandleWriteError, WriteGoesOn, WriteWasLast, WriteNext,
         StartNext, QueueNext, serverVars
<1>2. session[s] \in Sound /\ KeptSes(session[s])
  BY DEF KInv, IInv, SessionTypes, MessagesInv
<1>3. CASE HandleWrite(s)
  <2>1. PICK new :
          /\ new = [session[s] EXCEPT !.writes = @ - 1, !.writeInProgress = FALSE,
                                      !.sent = Append(@, session[s].sentData)]
          /\ session[s].writes > 0
          /\ session' = [session EXCEPT ![s] = new]
    BY <1>3 DEF HandleWrite
  <2>2. KeptSes(new) /\ new.given = session[s].given /\ new.reading = session[s].reading
    BY <1>2, <2>1, SentKeepsMessages
  <2> QED
    BY <1>1, <2>1, <2>2, OneSessionMoves
<1>4. CASE HandleWriteError(s)
  <2> DEFINE new == [session[s] EXCEPT !.writes = @ - 1, !.writeInProgress = FALSE,
                                       !.pendingMessages = <<>>, !.failed = TRUE]
  <2>1. session' = [session EXCEPT ![s] = new]
    BY <1>4 DEF HandleWriteError
  <2>2. /\ new.pendingMessages = <<>> /\ new.failed = TRUE
        /\ new.given = session[s].given /\ new.reading = session[s].reading
    BY <1>2 DEF Sound, SessionType
  <2> HIDE DEF new
  <2>3. ToSet(new.pendingMessages) = {}
    BY <2>2 DEF ToSet
  <2>4. KeptSes(new)
    BY <2>2, <2>3, Zenon DEF KeptSes
  <2> QED
    BY <1>1, <2>1, <2>2, <2>4, OneSessionMoves
<1>5. CASE WriteWasLast(s)
  <2>1. CASE StopAsync(s, session[s])
    BY <1>1, <1>2, <2>1, StopMoves DEF SameMessages
  <2>2. CASE UNCHANGED session
    BY <1>1, <2>2, SessionsStayKept
  <2> QED
    BY <1>5, <2>1, <2>2 DEF WriteWasLast
<1>6. CASE WriteNext(s)
  BY <1>1, <1>6, SessionsStayKept DEF WriteNext
<1>7. CASE StartNext(s) \/ QueueNext(s)
  <2>1. session[s].pendingMessages # <<>>
    BY <1>7 DEF StartNext, QueueNext, AtWriter, KInv, IInv, MessageInv
  <2>2. PICK new : /\ \/ new = Started(session[s], Head(session[s].pendingMessages))
                      \/ new \in Queued(session[s], Head(session[s].pendingMessages))
                   /\ session' = [session EXCEPT ![s] = WithoutFirst(new)]
    BY <1>7 DEF StartNext, QueueNext
  <2>3. /\ KeptSes(WithoutFirst(new)) /\ WithoutFirst(new).given = session[s].given
        /\ WithoutFirst(new).reading = session[s].reading
    BY <1>2, <2>1, <2>2, MovingKeepsMessages
  <2> QED
    BY <1>1, <2>2, <2>3, OneSessionMoves
<1> QED
  BY <1>3, <1>4, <1>5, <1>6, <1>7 DEF WriteDone, WriteGoesOn

\* A broadcast has a number of its own, and goes to each session once.
LEMMA BroadcastKeepsMessages ==
  ASSUME KInv, Broadcast
  PROVE  MessagesInv' /\ FreshInv'
<1>1. main' = main /\ accepting' = accepting
  BY DEF Broadcast, BeginBroadcast, EndBroadcast, BroadcastTo, StartBroadcast, QueueBroadcast,
         serverVars
<1>2. broadcasts \in Nat /\ broadcasts <= MaxBroadcasts
  BY BackendBounds DEF KInv, IInv, ThreadTypes
<1>3. CASE BeginBroadcast
  <2>1. /\ UNCHANGED session /\ broadcasts' = broadcasts + 1 /\ broadcasts < MaxBroadcasts
        /\ broadcast'.step = "next"
    BY <1>3 DEF BeginBroadcast, GotoBroadcast
  <2>2. MessagesInv'
    BY <2>1 DEF KInv, MessagesInv
  <2>3. \A s \in Sessions : /\ session[s].given \subseteq 1 .. broadcasts' \cup {Reply}
                            /\ broadcasts' \notin session[s].given
    <3>1. /\ 1 .. broadcasts \subseteq 1 .. broadcasts + 1
          /\ broadcasts + 1 \notin 1 .. broadcasts /\ broadcasts + 1 # Reply
      BY <1>2, <2>1, BackendBounds DEF Reply
    <3> QED
      BY <2>1, <3>1, Zenon DEF KInv, FreshInv
  <2>4. FreshInv'
    BY <1>1, <2>1, <2>3, Zenon DEF KInv, FreshInv
  <2> QED
    BY <2>2, <2>4
<1>4. CASE EndBroadcast
  <2>1. UNCHANGED session /\ broadcasts' = broadcasts /\ broadcast'.step = "idle"
    BY <1>4 DEF EndBroadcast, GotoBroadcast
  <2>2. MessagesInv'
    BY <2>1 DEF KInv, MessagesInv
  <2>3. FreshInv'
    BY <1>1, <2>1, Zenon DEF KInv, FreshInv
  <2> QED
    BY <2>2, <2>3
<1>5. ASSUME NEW s \in Sessions, BroadcastTo(s) PROVE MessagesInv' /\ FreshInv'
  <2>1. /\ UNCHANGED session /\ broadcasts' = broadcasts /\ s \in broadcast.left
        /\ broadcast.step = "next" /\ broadcast'.to = s /\ broadcast'.left = broadcast.left \ {s}
    BY <1>5 DEF BroadcastTo, GotoBroadcast
  <2>2. MessagesInv'
    BY <2>1 DEF KInv, MessagesInv
  <2>3. \A t \in Sessions : t \in broadcast.left => broadcasts \notin session[t].given
    BY <2>1 DEF KInv, FreshInv
  <2>4. FreshInv'
    <3> SUFFICES ASSUME NEW t \in Sessions
                 PROVE  /\ t \in broadcast'.left => broadcasts \notin session[t].given
                        /\ t = broadcast'.to => t \notin broadcast'.left
                                                  /\ broadcasts \notin session[t].given
      BY <1>1, <2>1, Zenon DEF KInv, FreshInv
    <3> QED
      BY <2>1, <2>3
  <2> QED
    BY <2>2, <2>4
<1>6. ASSUME NEW s \in Sessions, StartBroadcast(s) \/ QueueBroadcast(s)
      PROVE  MessagesInv' /\ FreshInv'
  <2>1. /\ broadcast.step \in {"start", "queue"} /\ broadcast.to = s /\ broadcasts' = broadcasts
        /\ broadcast'.step = "next" /\ broadcast'.left = broadcast.left
    BY <1>6 DEF StartBroadcast, QueueBroadcast, GotoBroadcast
  <2>2. broadcasts \in 1 .. MaxBroadcasts /\ broadcasts \in Messages /\ broadcasts # Reply
    BY <1>2, <2>1, BackendBounds DEF KInv, IInv, MessageInv, Messages, Reply
  <2>3. session[s] \in Sound /\ KeptSes(session[s])
    BY DEF KInv, IInv, SessionTypes, MessagesInv
  <2>4. broadcasts \notin session[s].given /\ s \notin broadcast.left
    BY <2>1 DEF KInv, FreshInv
  <2>5. PICK ses : /\ \/ ses = Started(session[s], broadcasts)
                      \/ ses \in Queued(session[s], broadcasts)
                   /\ session' = [session EXCEPT ![s] = ses]
    BY <1>6 DEF StartBroadcast, QueueBroadcast
  <2>6. /\ KeptSes(ses) /\ ses.given = session[s].given \cup {broadcasts}
        /\ ses.reading = session[s].reading
    BY <2>2, <2>3, <2>4, <2>5, SendKeepsMessages
  <2>7. session'[s] = ses /\ \A t \in Sessions : t # s => session'[t] = session[t]
    BY <2>5 DEF KInv, IInv, SessionTypes
  <2>8. MessagesInv'
    BY <2>5, <2>6, OneSessionKept DEF KInv
  <2>9. FreshInv'
    <3> SUFFICES ASSUME NEW t \in Sessions
                 PROVE  /\ session'[t].given \subseteq 1 .. broadcasts \cup {Reply}
                        /\ session'[t].reading => Reply \notin session'[t].given
                        /\ main = "created" \/ (accepting # NoSession /\ t >= accepting) =>
                             ~session'[t].reading /\ Reply \notin session'[t].given
                        /\ t \in broadcast.left => broadcasts \notin session'[t].given
      BY <1>1, <2>1, Zenon DEF FreshInv
    <3>1. CASE t = s
      <4>1. /\ session'[s].given = session[s].given \cup {broadcasts}
            /\ session'[s].reading = session[s].reading
        BY <2>6, <2>7
      <4>2. session'[s].given \subseteq 1 .. broadcasts \cup {Reply}
        <5>1. session[s].given \subseteq 1 .. broadcasts \cup {Reply}
          BY DEF KInv, FreshInv
        <5>2. broadcasts \in 1 .. broadcasts
          BY <2>2, BackendBounds
        <5> QED
          BY <4>1, <5>1, <5>2, Zenon
      <4>3. Reply \in session'[s].given => Reply \in session[s].given
        BY <2>2, <4>1
      <4> QED
        BY <2>4, <3>1, <4>1, <4>2, <4>3, Zenon DEF KInv, FreshInv
    <3>2. CASE t # s
      <4>1. session'[t] = session[t]
        BY <2>7, <3>2
      <4> QED
        BY <2>1, <4>1, Zenon DEF KInv, FreshInv
    <3> QED
      BY <3>1, <3>2
  <2> QED
    BY <2>8, <2>9
<1> QED
  BY <1>3, <1>4, <1>5, <1>6 DEF Broadcast

\* No session was given a message yet.
LEMMA InitKeepsMessages == Init => MessagesInv /\ FreshInv
<1> SUFFICES ASSUME Init PROVE MessagesInv /\ FreshInv
  OBVIOUS
<1>1. /\ NewSession.pendingMessages = <<>> /\ NewSession.sent = <<>> /\ NewSession.given = {}
      /\ NewSession.writes = 0 /\ NewSession.reading = FALSE
  BY DEF NewSession
<1>2. ToSet(<<>>) = {} /\ Cardinality({}) = 0 /\ Len(<<>>) = 0
  BY FS_EmptySet DEF ToSet
<1>3. InProgress(NewSession) = {}
  BY <1>1 DEF InProgress
<1>4. KeptSes(NewSession)
  BY <1>1, <1>2, <1>3 DEF KeptSes, InOnePlace
<1>5. \A s \in Sessions : session[s] = NewSession
  BY DEF Init
<1>6. broadcast.step = "idle"
  BY DEF Init
<1> QED
  BY <1>1, <1>4, <1>5, <1>6, Zenon DEF MessagesInv, FreshInv

\* The invariant is inductive.
LEMMA NextKeepsMessages == KInv /\ [Next]_vars => KInv'
<1> SUFFICES ASSUME KInv, [Next]_vars PROVE KInv'
  OBVIOUS
<1>1. IInv'
  BY NextKeepsInv DEF KInv
<1>2. CASE UNCHANGED vars
  <2>1. UNCHANGED <<session, broadcastVars>> /\ main' = main /\ accepting' = accepting
    BY <1>2 DEF vars, serverVars
  <2> QED
    BY <1>1, <2>1, SessionsStayKept DEF KInv
<1>3. CASE Next
  <2>1. MessagesInv' /\ FreshInv'
    BY <1>3, MainKeepsMessages, AcceptKeepsMessages, BroadcastKeepsMessages, ReadKeepsMessages,
       TimerKeepsMessages, WriteKeepsMessages DEF Next
  <2> QED
    BY <1>1, <2>1 DEF KInv
<1> QED
  BY <1>2, <1>3

\* HandleWrite runs without m_IoMutex, so that it, the timer and BroadcastMessage hand the
\* messages of a session round between steps of each other.  For any number of clients and
\* broadcasts each message is pending, in progress or sent, in one place and once, unless a
\* write failed or two were in progress at once.
THEOREM MessagesStayInOnePlace == Spec => []MessagesAreKept
<1>1. KInv => MessagesAreKept
  BY DEF KInv, MessagesInv, KeptSes, InOnePlace, MessagesAreKept
<1>2. Init => KInv
  BY InitIsInv, InitKeepsMessages DEF KInv
<1> QED
  BY <1>1, <1>2, NextKeepsMessages, PTL DEF Spec
=============================================================================
