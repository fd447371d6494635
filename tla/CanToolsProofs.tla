--------------------------- MODULE CanToolsProofs ---------------------------
(***************************************************************************)
(* The tools around the CAN bus, for any values of their constants.  They  *)
(* share no state; each section has the invariant and the theorem of one.  *)
(***************************************************************************)
EXTENDS CanUdsRaw, CanScript, CanGrid, CanLogPanel, IsoTpPoll, DidGrid,
        SequenceFacts, FiniteSetTheorems, TLAPS

-----------------------------------------------------------------------------
(* CanUdsRaw: whatever the array is filled with, and whenever the threads  *)
(* read it, a line is at most one line late.                               *)

Task == [turn : Nat, click : Nat, holds : Nat]
Sent == [turn : Nat, holds : Nat, data : Nat]

\* The thread of the turn before is done wherever a turn begins; while the future is assigned
\* that thread and the one of this turn may be there.  What they may find in the array:
TaskInv(t) ==
  /\ t.turn = turns \/ (gui = "assign" /\ t.turn + 1 = turns)
  /\ byte_array \in {t.holds, Stack} \/ (t.turn + 1 = turns /\ byte_array = turns)

UdsInv ==
  /\ turns \in Nat /\ byte_array \in Nat /\ clicks \in Nat
  /\ IF gui = "assign" THEN turns = m_isotp_future + 1 ELSE turns = m_isotp_future
  /\ m_isotp_future \in Nat
  /\ tasks \subseteq Task /\ \A t \in tasks : TaskInv(t)
  /\ sent \in Seq(Sent) /\ \A i \in 1 .. Len(sent) : sent[i].turn <= turns
  /\ LinesAreAtMostOneLate

\* What is sent last comes after all that was sent before.
LEMMA SentGrows ==
  ASSUME NEW q \in Seq(Sent), NEW e \in Sent
  PROVE  /\ Append(q, e) \in Seq(Sent)
         /\ Len(Append(q, e)) = Len(q) + 1 /\ Len(q) \in Nat
         /\ \A i \in 1 .. Len(q) : Append(q, e)[i] = q[i] /\ q[i] \in Sent
         /\ Append(q, e)[Len(q) + 1] = e
<1>1. Len(q) \in Nat /\ \A i \in 1 .. Len(q) : q[i] \in Sent
  BY LenProperties, ElementOfSeq
<1> QED
  BY <1>1, AppendProperties

\* Every record names its turn.
LEMMA SentAreRecords ==
  ASSUME NEW q \in Seq(Sent), NEW i \in 1 .. Len(q)
  PROVE  q[i].turn \in Nat
<1>1. q[i] \in Sent
  BY ElementOfSeq
<1> QED
  BY <1>1 DEF Sent

\* The steps of the user, the bus and the GUI thread that touch neither the array nor a thread.
LEMMA OthersKeepTheArray ==
  ASSUME UdsInv,
         \/ ShowDialog \/ TypeId \/ Cancel \/ Send \/ SkipLine \/ OnAnswer
         \/ EndTurn \/ ReadAnswers \/ ClearAnswers
  PROVE  UdsInv'
<1>1. UNCHANGED sendVars /\ clicks' \in Nat /\ (gui' = "assign" <=> gui = "assign")
  BY DEF UdsInv, ShowDialog, TypeId, Cancel, Send, SkipLine, OnAnswer, EndTurn, ReadAnswers, ClearAnswers
<1> QED
  BY <1>1 DEF UdsInv, TaskInv, LinesAreAtMostOneLate, sendVars

\* A turn fills the array, or leaves it, and starts a thread.
LEMMA TurnMeetsOneThread ==
  ASSUME UdsInv, StartSending
  PROVE  UdsInv'
<1>0. PICK held, new : /\ held = byte_array'
                       /\ new = [turn |-> turns + 1, click |-> clicks, holds |-> held]
                       /\ tasks' = tasks \cup {new}
  BY DEF StartSending
<1>1. /\ gui = "line" /\ gui' = "assign" /\ turns' = turns + 1
      /\ UNCHANGED <<m_isotp_future, sent, clicks>>
  BY DEF StartSending
<1>2. byte_array' = turns + 1 \/ byte_array' \in {byte_array, Stack}
  BY DEF StartSending
<1>3. turns \in Nat /\ byte_array' \in Nat /\ new \in Task
  BY <1>0, <1>2 DEF UdsInv, Stack, Task
<1>4. new.turn = turns' /\ new.holds = byte_array'
  BY <1>0, <1>1
<1>5. ASSUME NEW t \in tasks PROVE TaskInv(t)'
  <2>1. t.turn = turns /\ byte_array \in {t.holds, Stack}
    BY <1>1, <1>3 DEF UdsInv, TaskInv
  <2>2. t.turn + 1 = turns' /\ (byte_array' \in {t.holds, Stack} \/ byte_array' = turns')
    BY <1>1, <1>2, <2>1
  <2> QED
    BY <1>1, <2>2 DEF TaskInv
<1>6. TaskInv(new)'
  BY <1>4 DEF TaskInv
<1>7. \A t \in tasks' : TaskInv(t)'
  BY <1>0, <1>5, <1>6
<1>8. \A i \in 1 .. Len(sent) : sent[i].turn <= turns'
  <2> SUFFICES ASSUME NEW i \in 1 .. Len(sent) PROVE sent[i].turn <= turns'
    OBVIOUS
  <2>1. sent[i].turn \in Nat /\ sent[i].turn <= turns
    BY SentAreRecords DEF UdsInv
  <2> QED
    BY <1>1, <1>3, <2>1
<1>9. LinesAreAtMostOneLate'
  BY <1>1 DEF UdsInv, LinesAreAtMostOneLate
<1> QED
  BY <1>0, <1>1, <1>3, <1>7, <1>8, <1>9 DEF UdsInv

\* The assignment waits for the thread of the turn before: only that of this turn is left.
LEMMA AssignmentLeavesOne ==
  ASSUME UdsInv, AssignFuture
  PROVE  UdsInv'
<1>1. /\ gui = "assign" /\ gui' = "sleep" /\ m_isotp_future' = turns
      /\ \A t \in tasks : t.turn # m_isotp_future
      /\ UNCHANGED <<byte_array, turns, tasks, sent, clicks>>
  BY DEF AssignFuture
<1>2. ASSUME NEW t \in tasks PROVE TaskInv(t)'
  <2>1. t.turn \in Nat /\ m_isotp_future \in Nat /\ turns = m_isotp_future + 1
    BY <1>1 DEF UdsInv, Task
  <2>2. t.turn = turns
    BY <1>1, <2>1 DEF UdsInv, TaskInv
  <2>3. byte_array \in {t.holds, Stack}
    BY <2>1, <2>2 DEF UdsInv, TaskInv
  <2> QED
    BY <1>1, <2>2, <2>3 DEF TaskInv
<1>3. LinesAreAtMostOneLate'
  BY <1>1 DEF UdsInv, LinesAreAtMostOneLate
<1> QED
  BY <1>1, <1>2, <1>3 DEF UdsInv

\* A thread reads the array.
LEMMA ReadingIsOneLate ==
  ASSUME UdsInv, SendIsoTpFrameGlobal
  PROVE  UdsInv'
<1>1. PICK t \in tasks : \E data \in Reads(t) :
        /\ sent' = Append(sent, [turn |-> t.turn, holds |-> t.holds, data |-> data])
        /\ tasks' = tasks \ {t}
  BY DEF SendIsoTpFrameGlobal
<1>2. PICK data \in Reads(t) :
        /\ sent' = Append(sent, [turn |-> t.turn, holds |-> t.holds, data |-> data])
        /\ tasks' = tasks \ {t}
  BY <1>1
<1>3. UNCHANGED <<gui, byte_array, turns, m_isotp_future, clicks>>
  BY DEF SendIsoTpFrameGlobal
<1> DEFINE e == [turn |-> t.turn, holds |-> t.holds, data |-> data]
           n == Len(sent)
<1>4. /\ t.turn \in Nat /\ t.holds \in Nat /\ turns \in Nat /\ byte_array \in Nat
      /\ TaskInv(t)
  BY DEF UdsInv, Task
<1>5. data \in {byte_array, Stack}
  BY <1>2 DEF Reads
<1>6. /\ e \in Sent /\ e.turn = t.turn /\ e.turn <= turns /\ turns <= e.turn + 1
      /\ e.data \in {e.holds, e.turn + 1, Stack}
  <2>1. t.turn <= turns /\ turns <= t.turn + 1
    BY <1>4 DEF TaskInv
  <2>2. data \in Nat /\ data \in {t.holds, t.turn + 1, Stack}
    BY <1>4, <1>5 DEF TaskInv, Stack
  <2> QED
    BY <1>4, <2>1, <2>2 DEF Sent
<1> HIDE DEF e
<1>7. sent' = Append(sent, e) /\ sent \in Seq(Sent)
  BY <1>2 DEF e, UdsInv
<1>8. /\ sent' \in Seq(Sent) /\ Len(sent') = n + 1 /\ n \in Nat
      /\ \A i \in 1 .. n : sent'[i] = sent[i] /\ sent[i].turn \in Nat /\ sent[i].turn <= turns
      /\ sent'[n + 1] = e
  BY <1>6, <1>7, SentGrows DEF UdsInv, Sent
<1> HIDE DEF n
<1>9. ASSUME NEW i \in 1 .. n + 1
      PROVE  /\ sent'[i].turn <= turns
             /\ sent'[i].data \in {sent'[i].holds, sent'[i].turn + 1, Stack}
             /\ \A j \in i .. n + 1 : sent'[i].turn <= sent'[j].turn + 1
  <2>1. CASE i = n + 1
    <3>1. \A j \in i .. n + 1 : j = n + 1
      BY <1>8, <2>1
    <3>2. e.turn \in Nat /\ e.turn <= e.turn + 1
      BY <1>4, <1>6
    <3> QED
      BY <1>6, <1>8, <2>1, <3>1, <3>2
  <2>2. CASE i # n + 1
    <3>1. i \in 1 .. n
      BY <1>8, <2>2
    <3>2. /\ sent[i].data \in {sent[i].holds, sent[i].turn + 1, Stack}
          /\ \A j \in i .. n : sent[i].turn <= sent[j].turn + 1
      BY <3>1 DEF UdsInv, LinesAreAtMostOneLate, n
    <3>3. ASSUME NEW j \in i .. n + 1 PROVE sent'[i].turn <= sent'[j].turn + 1
      <4>1. CASE j = n + 1
        BY <1>4, <1>6, <1>8, <3>1, <4>1
      <4>2. CASE j # n + 1
        <5>1. j \in i .. n /\ j \in 1 .. n
          BY <1>8, <3>1, <4>2
        <5> QED
          BY <1>8, <3>1, <3>2, <5>1
      <4> QED
        BY <4>1, <4>2
    <3> QED
      BY <1>8, <3>1, <3>2, <3>3
  <2> QED
    BY <2>1, <2>2
<1>10. LinesAreAtMostOneLate' /\ \A i \in 1 .. Len(sent') : sent'[i].turn <= turns'
  BY <1>3, <1>8, <1>9 DEF LinesAreAtMostOneLate
<1>11. tasks' \subseteq Task /\ \A u \in tasks' : TaskInv(u)'
  BY <1>2, <1>3 DEF UdsInv, TaskInv
<1> QED
  BY <1>3, <1>8, <1>10, <1>11 DEF UdsInv

\* For any inputs, clicks and delays: what is sent for a line is what the array held when its
\* thread was started, the line of the very next turn, or bytes of nobody, and a line
\* overtakes at most the one before it.
THEOREM LinesAreSentInTime == UdsSpec => []LinesAreAtMostOneLate
<1>1. UdsInit => UdsInv
  BY DEF UdsInit, UdsInv, LinesAreAtMostOneLate, Stack
<1>2. UdsInv /\ [UdsNext]_udsVars => UdsInv'
  <2>1. UdsInv /\ UNCHANGED udsVars => UdsInv'
    BY DEF UdsInv, TaskInv, LinesAreAtMostOneLate, udsVars, sendVars
  <2> QED
    BY <2>1, OthersKeepTheArray, TurnMeetsOneThread, AssignmentLeavesOne, ReadingIsOneLate
       DEF UdsNext, HandleFrameSending
<1>3. UdsInv => LinesAreAtMostOneLate
  BY DEF UdsInv
<1> QED
  BY <1>1, <1>2, <1>3, PTL DEF UdsSpec

-----------------------------------------------------------------------------
(* CanScript: a wait that succeeds has received its frame itself.          *)

\* What WaitForFrame holds while it waits.  It need not hold before: a frame may still be
\* marked as received from the time between the start of the wait and ClearReceived.
WaitInv ==
  /\ m_WaitingFrameReceived \in BOOLEAN
  /\ place = "wait" /\ m_WaitingFrameReceived => <<m_WaitingFrame, m_WaitingFrameData>> \in frames.seen

\* The steps that do not touch what is waited for, and begin no waiting.
LEMMA WaitStays ==
  ASSUME WaitInv, UNCHANGED <<bus, m_WaitingFrame>>, place' = "wait" => place = "wait"
  PROVE  WaitInv'
  BY DEF WaitInv, bus

\* The receive thread marks the frame as received together with its value.
LEMMA FrameIsSeen == WaitInv /\ OnFrameOnBus => WaitInv'
<1> SUFFICES ASSUME WaitInv, OnFrameOnBus PROVE WaitInv'
  OBVIOUS
<1>1. PICK f \in FrameIds, v \in Values :
        /\ frames' = [seen |-> frames.seen \cup {<<f, v>>}, count |-> frames.count + 1]
        /\ m_WaitingFrameReceived' = (m_WaitingFrameReceived \/ f = m_WaitingFrame)
        /\ m_WaitingFrameData' = IF f = m_WaitingFrame THEN v ELSE m_WaitingFrameData
  BY DEF OnFrameOnBus
<1>2. UNCHANGED <<place, m_WaitingFrame>>
  BY DEF OnFrameOnBus
<1>3. frames'.seen = frames.seen \cup {<<f, v>>}
  BY <1>1
<1>4. m_WaitingFrameReceived' \in BOOLEAN
  BY <1>1, Zenon DEF WaitInv
<1>5. CASE f = m_WaitingFrame
  BY <1>1, <1>2, <1>3, <1>4, <1>5 DEF WaitInv
<1>6. CASE f # m_WaitingFrame
  <2>1. m_WaitingFrameReceived' = m_WaitingFrameReceived
    BY <1>1, <1>6, Zenon DEF WaitInv
  <2>2. m_WaitingFrameData' = m_WaitingFrameData
    BY <1>1, <1>6
  <2> QED
    BY <1>2, <1>3, <1>4, <2>1, <2>2 DEF WaitInv
<1> QED
  BY <1>5, <1>6

\* The script thread begins to wait with nothing received, and leaves the wait at its end.
LEMMA ScriptKeepsWait == WaitInv /\ ScriptThread => WaitInv'
<1> SUFFICES ASSUME WaitInv, ScriptThread PROVE WaitInv'
  OBVIOUS
<1>1. CASE SetField \/ SendFrame \/ Sleep \/ EndScript
  <2>1. UNCHANGED <<bus, m_WaitingFrame>> /\ place' # "wait"
    BY <1>1 DEF SetField, SendFrame, Sleep, EndScript, Done
  <2> QED
    BY <2>1, WaitStays
<1>2. CASE BeginWait
  BY <1>2 DEF BeginWait, WaitInv
<1>3. CASE ClearReceived
  BY <1>3 DEF ClearReceived, WaitInv
<1>4. CASE EndWait
  BY <1>4 DEF EndWait, Done, WaitInv
<1> QED
  BY <1>1, <1>2, <1>3, <1>4 DEF ScriptThread

\* The GUI thread starts, aborts and shows; it does not wait.
LEMMA GuiKeepsWait ==
  WaitInv /\ (Run \/ AbortRunningScript \/ ClearOutput \/ OnLogTimer) => WaitInv'
<1> SUFFICES ASSUME WaitInv, Run \/ AbortRunningScript \/ ClearOutput \/ OnLogTimer
             PROVE  WaitInv'
  OBVIOUS
<1>1. UNCHANGED <<bus, m_WaitingFrame>> /\ (place' = "wait" => place = "wait")
  BY DEF Run, AbortRunningScript, ClearOutput, OnLogTimer
<1> QED
  BY <1>1, WaitStays

\* A wait that ends with OK, or with invalid data, reports a frame that was on the bus after it
\* began, for any script, however often it waits, and whatever is aborted meanwhile.
THEOREM WaitsReportTheirOwnFrame == ScriptSpec => ResultsAreOfThisWait
<1>1. ScriptInit => WaitInv
  BY DEF ScriptInit, WaitInv
<1>2. WaitInv /\ [ScriptNext]_scriptVars => WaitInv'
  <2>1. WaitInv /\ UNCHANGED scriptVars => WaitInv'
    BY WaitStays DEF scriptVars, bus
  <2> QED
    BY <2>1, FrameIsSeen, ScriptKeepsWait, GuiKeepsWait DEF ScriptNext
<1>3. WaitInv /\ EndWait /\ WaitResult \in {"ok", "invalid data"}
        => <<m_WaitingFrame, m_WaitingFrameData>> \in frames.seen
  BY DEF WaitInv, EndWait, WaitResult
<1>4. WaitInv /\ [ScriptNext]_scriptVars
        => [EndWait /\ WaitResult \in {"ok", "invalid data"} =>
              <<m_WaitingFrame, m_WaitingFrameData>> \in frames.seen]_scriptVars
  BY <1>3
<1> QED
  BY <1>1, <1>2, <1>4, PTL DEF ScriptSpec, ResultsAreOfThisWait
-----------------------------------------------------------------------------
(* CanGrid: rows are of their entries, whatever was removed and whichever  *)
(* addresses were used again.                                              *)

Known == {f \in RxFrames : m_rxData[f] # NoAddress}

\* A row has the address of an entry that exists, and shows its frame or nothing yet.
RxRowInv ==
  \A r \in 1 .. Len(rxRows) :
    \E f \in Known : m_rxData[f] = rx_grid_to_entry[r] /\ rxRows[r] \in {f, "none"}

RxInv ==
  /\ m_rxData \in [RxFrames -> Addresses \cup {NoAddress}]
  /\ IsFiniteSet(Known)
  /\ \A f, g \in Known : m_rxData[f] = m_rxData[g] => f = g
  /\ rxRows \in Seq(RxFrames \cup {"none"})
  /\ rx_grid_to_entry \in Seq(Addresses) /\ Len(rx_grid_to_entry) = Len(rxRows)
  /\ IsInjective(rx_grid_to_entry)
  /\ RxRowInv

\* The rows of the map that the table still has are those of the favourites.
TxInv ==
  /\ tx_count \in [1 .. Len(TxEntries) -> Nat]
  /\ txRows \in Seq([entry : Nat, count : Nat])
  /\ \A r \in 1 .. Len(txRows) :
       grid_to_entry[r] = txRows[r].entry /\ level <= FavouriteLevel[txRows[r].entry]

GridInv == RxInv /\ TxInv

\* The favourites are entries of the level.
LEMMA FavouritesAreOfTheLevel ==
  ASSUME NEW l
  PROVE  /\ Favourites(l) \in Seq(Nat)
         /\ \A r \in 1 .. Len(Favourites(l)) : l <= FavouriteLevel[Favourites(l)[r]]
<1> DEFINE all == [k \in 1 .. Len(TxEntries) |-> k]
           fit == {k \in 1 .. Len(TxEntries) : l <= FavouriteLevel[k]}
<1>1. Len(TxEntries) \in Nat
  BY TxEntriesAssumption, LenProperties
<1>2. all \in Seq(Nat) /\ Len(all) = Len(TxEntries) /\ \A k \in fit : all[k] = k
  BY <1>1
<1>3. Favourites(l) = ElementsAt(all, fit)
  BY DEF Favourites
<1>4. \A k \in fit : l <= FavouriteLevel[k]
  OBVIOUS
<1> HIDE DEF all, fit
<1>5. Favourites(l) \in Seq(Nat)
  BY <1>2, <1>3, ElementsAtPlaces
<1>6. PICK at : Picks(at, Favourites(l), all, fit, Len(all))
  BY <1>2, <1>3, ElementsAtPlaces
<1>7. ASSUME NEW r \in 1 .. Len(Favourites(l)) PROVE l <= FavouriteLevel[Favourites(l)[r]]
  <2>1. at[r] \in fit /\ Favourites(l)[r] = all[at[r]]
    BY <1>6, <1>7 DEF Picks
  <2> QED
    BY <1>2, <1>4, <2>1
<1> QED
  BY <1>5, <1>7

\* The transmit table is made anew, and the map with it.
LEMMA FreshTable ==
  ASSUME NEW l, NEW old, NEW fresh, fresh = FreshRows(l), NEW map, map = NewMap(old, l)
  PROVE  /\ fresh \in Seq([entry : Nat, count : Nat])
         /\ \A r \in 1 .. Len(fresh) :
              map[r] = fresh[r].entry /\ l <= FavouriteLevel[fresh[r].entry]
<1> DEFINE fav == Favourites(l)
<1>1. fav \in Seq(Nat) /\ Len(fav) \in Nat /\ \A r \in 1 .. Len(fav) : fav[r] \in Nat
  BY FavouritesAreOfTheLevel, LenProperties, ElementOfSeq
<1>2. \A r \in 1 .. Len(fav) : l <= FavouriteLevel[fav[r]]
  BY FavouritesAreOfTheLevel
<1>3. fresh = [r \in 1 .. Len(fav) |-> [entry |-> fav[r], count |-> 0]]
  BY DEF FreshRows
<1>4. map = [r \in DOMAIN old \cup 1 .. Len(fav) |-> IF r <= Len(fav) THEN fav[r] ELSE old[r]]
  BY DEF NewMap
<1> HIDE DEF fav
<1>5. fresh \in Seq([entry : Nat, count : Nat]) /\ Len(fresh) = Len(fav)
  BY <1>1, <1>3
<1>6. ASSUME NEW r \in 1 .. Len(fresh) PROVE map[r] = fresh[r].entry /\ l <= FavouriteLevel[fresh[r].entry]
  <2>1. r \in 1 .. Len(fav) /\ r <= Len(fav)
    BY <1>1, <1>5
  <2>2. fresh[r].entry = fav[r] /\ map[r] = fav[r]
    BY <1>3, <1>4, <2>1
  <2> QED
    BY <1>2, <2>1, <2>2
<1> QED
  BY <1>5, <1>6

\* The empty tables.
LEMMA NoRowsYet == GridInit => GridInv
<1> SUFFICES ASSUME GridInit PROVE GridInv
  OBVIOUS
<1>1. m_rxData = [f \in RxFrames |-> NoAddress] /\ rxRows = <<>> /\ rx_grid_to_entry = <<>>
  BY DEF GridInit
<1>2. Known = {} /\ IsFiniteSet({})
  BY <1>1, FS_EmptySet DEF Known
<1>3. Len(<<>>) = 0 /\ 1 .. 0 = {} /\ DOMAIN <<>> = {} /\ \A S : <<>> \in Seq(S)
  OBVIOUS
<1>4. IsInjective(rx_grid_to_entry)
  BY <1>1, <1>3 DEF IsInjective
<1>5. RxRowInv
  BY <1>1, <1>3 DEF RxRowInv
<1>6. RxInv
  BY <1>1, <1>2, <1>3, <1>4, <1>5 DEF RxInv
<1>7. TxInv
  <2>1. /\ txRows \in Seq([entry : Nat, count : Nat])
        /\ \A r \in 1 .. Len(txRows) :
             grid_to_entry[r] = txRows[r].entry /\ level <= FavouriteLevel[txRows[r].entry]
    BY FreshTable DEF GridInit
  <2> QED
    BY <2>1 DEF TxInv, GridInit
<1> QED
  BY <1>6, <1>7 DEF GridInv

\* A new entry has an address that no row has.
LEMMA NewEntryKeepsRows == GridInv /\ OnFrameReceived => GridInv'
<1> SUFFICES ASSUME GridInv, OnFrameReceived PROVE GridInv'
  OBVIOUS
<1>1. PICK f \in RxFrames, a \in Addresses \ InUse :
        m_rxData[f] = NoAddress /\ m_rxData' = [m_rxData EXCEPT ![f] = a]
  BY DEF OnFrameReceived
<1>2. UNCHANGED <<rxRows, rx_grid_to_entry, tx>>
  BY DEF OnFrameReceived
<1>3. /\ m_rxData \in [RxFrames -> Addresses \cup {NoAddress}] /\ IsFiniteSet(Known)
      /\ \A g, h \in Known : m_rxData[g] = m_rxData[h] => g = h
      /\ RxRowInv
  BY DEF GridInv, RxInv
<1>4. /\ m_rxData' \in [RxFrames -> Addresses \cup {NoAddress}]
      /\ m_rxData'[f] = a /\ \A g \in RxFrames \ {f} : m_rxData'[g] = m_rxData[g]
  BY <1>1, <1>3
<1>5. a # NoAddress /\ \A g \in RxFrames : m_rxData[g] # a
  BY <1>1 DEF InUse
<1>6. f \notin Known /\ Known' = Known \cup {f}
  BY <1>1, <1>4, <1>5 DEF Known
<1>7. IsFiniteSet(Known')
  BY <1>3, <1>6, FS_AddElement
<1>8. \A g, h \in Known' : m_rxData'[g] = m_rxData'[h] => g = h
  BY <1>3, <1>4, <1>5, <1>6 DEF Known
<1>9. RxRowInv'
  <2> SUFFICES ASSUME NEW r \in 1 .. Len(rxRows)
               PROVE  \E g \in Known' : /\ m_rxData'[g] = rx_grid_to_entry[r]
                                        /\ rxRows[r] \in {g, "none"}
    BY <1>2 DEF RxRowInv
  <2>1. PICK g \in Known : m_rxData[g] = rx_grid_to_entry[r] /\ rxRows[r] \in {g, "none"}
    BY <1>3 DEF RxRowInv
  <2> QED
    BY <1>4, <1>6, <2>1 DEF Known
<1>10. RxInv'
  BY <1>2, <1>4, <1>7, <1>8, <1>9 DEF GridInv, RxInv
<1>11. TxInv'
  BY <1>2 DEF GridInv, TxInv, tx
<1> QED
  BY <1>10, <1>11 DEF GridInv

\* The timer finds the entry of each row, and adds a row for each entry that has none.
LEMMA TimerKeepsRows == GridInv /\ On10MsTimer => GridInv'
<1> SUFFICES ASSUME GridInv, On10MsTimer PROVE GridInv'
  OBVIOUS
<1> DEFINE New   == {f \in RxFrames : m_rxData[f] # NoAddress /\ RowsOf(f) = {}}
           Of(r, f) == m_rxData[f] # NoAddress /\ r \in RowsOf(f)
           looked == [r \in 1 .. Len(rxRows) |->
                        IF \E f \in RxFrames : Of(r, f) THEN CHOOSE f \in RxFrames : Of(r, f)
                                                        ELSE rxRows[r]]
           blank == [r \in 1 .. Len(RowsAdded) |-> "none"]
           more  == [r \in 1 .. Len(RowsAdded) |-> m_rxData[RowsAdded[r]]]
           old   == rx_grid_to_entry
<1>1. /\ rxRows' = looked \o blank
      /\ old' = old \o more
      /\ UNCHANGED <<m_rxData, tx>>
  BY DEF On10MsTimer
<1>2. /\ m_rxData \in [RxFrames -> Addresses \cup {NoAddress}] /\ IsFiniteSet(Known)
      /\ \A g, h \in Known : m_rxData[g] = m_rxData[h] => g = h
      /\ rxRows \in Seq(RxFrames \cup {"none"}) /\ Len(rxRows) \in Nat
      /\ old \in Seq(Addresses) /\ Len(old) = Len(rxRows) /\ IsInjective(old)
      /\ RxRowInv
  BY LenProperties DEF GridInv, RxInv
<1>3. /\ RowsAdded \in Seq(New) /\ IsInjective(RowsAdded) /\ Len(RowsAdded) \in Nat
      /\ DOMAIN RowsAdded = 1 .. Len(RowsAdded)
      /\ \A r \in 1 .. Len(RowsAdded) : RowsAdded[r] \in Known /\ RowsOf(RowsAdded[r]) = {}
  <2>1. New \subseteq Known
    BY DEF Known
  <2>2. IsFiniteSet(New)
    BY <1>2, <2>1, FS_Subset
  <2>3. RowsAdded = SetToSeq(New)
    BY DEF RowsAdded
  <2>4. \A f \in New : f \in Known /\ RowsOf(f) = {}
    BY <2>1
  <2> HIDE DEF New
  <2> QED
    BY <2>2, <2>3, <2>4, SetAsSequence, LenProperties, ElementOfSeq
<1>4. \A r \in 1 .. Len(rxRows) : looked[r] \in Known /\ m_rxData[looked[r]] = old[r]
  <2> SUFFICES ASSUME NEW r \in 1 .. Len(rxRows)
               PROVE  looked[r] \in Known /\ m_rxData[looked[r]] = old[r]
    OBVIOUS
  <2>1. \A f : r \in RowsOf(f) <=> old[r] = m_rxData[f]
    BY <1>2 DEF RowsOf
  <2>2. PICK g \in Known : m_rxData[g] = old[r]
    BY <1>2 DEF RxRowInv
  <2>3. \E f \in RxFrames : Of(r, f)
    BY <2>1, <2>2 DEF Known
  <2>4. looked[r] = CHOOSE f \in RxFrames : Of(r, f)
    BY <2>3
  <2>5. looked[r] \in RxFrames /\ Of(r, looked[r])
    BY <2>3, <2>4, Zenon
  <2> QED
    BY <2>1, <2>5 DEF Known
<1>5. \A r \in 1 .. Len(RowsAdded) : more[r] = m_rxData[RowsAdded[r]] /\ more[r] \in Addresses
  BY <1>2, <1>3 DEF Known
<1>6. more \in Seq(Addresses) /\ Len(more) = Len(RowsAdded)
  BY <1>3, <1>5
<1>7. blank \in Seq(RxFrames \cup {"none"}) /\ Len(blank) = Len(RowsAdded)
      /\ \A r \in 1 .. Len(RowsAdded) : blank[r] = "none"
  BY <1>3
<1>8. looked \in Seq(RxFrames \cup {"none"}) /\ Len(looked) = Len(rxRows)
  <2>1. \A r \in 1 .. Len(rxRows) : looked[r] \in RxFrames \cup {"none"}
    BY <1>4 DEF Known
  <2>2. DOMAIN looked = 1 .. Len(rxRows)
    OBVIOUS
  <2>3. looked = [r \in 1 .. Len(rxRows) |-> looked[r]]
    OBVIOUS
  <2> HIDE DEF looked
  <2> QED
    BY <1>2, <2>1, <2>2, <2>3
<1> DEFINE Shows == RxFrames \cup {"none"}
           n == Len(rxRows)
           m == Len(RowsAdded)
<1> HIDE DEF New, Of, looked, blank, more, Shows
<1>9. /\ rxRows' \in Seq(RxFrames \cup {"none"}) /\ Len(rxRows') = n + m
      /\ \A r \in 1 .. n + m : rxRows'[r] = IF r <= n THEN looked[r] ELSE blank[r - n]
  <2>1. looked \in Seq(Shows) /\ blank \in Seq(Shows)
    BY <1>7, <1>8 DEF Shows
  <2>2. /\ looked \o blank \in Seq(Shows) /\ Len(looked \o blank) = Len(looked) + Len(blank)
        /\ \A r \in 1 .. Len(looked) + Len(blank) :
             (looked \o blank)[r] = IF r <= Len(looked) THEN looked[r] ELSE blank[r - Len(looked)]
    BY <2>1, ConcatProperties
  <2> QED
    BY <1>1, <1>7, <1>8, <2>2, Zenon DEF Shows
<1>10. /\ old' \in Seq(Addresses) /\ Len(old') = n + m /\ DOMAIN old' = 1 .. n + m
       /\ \A r \in 1 .. n + m : old'[r] = IF r <= n THEN old[r] ELSE more[r - n]
  <2>1. /\ old \o more \in Seq(Addresses) /\ Len(old \o more) = Len(old) + Len(more)
        /\ \A r \in 1 .. Len(old) + Len(more) :
             (old \o more)[r] = IF r <= Len(old) THEN old[r] ELSE more[r - Len(old)]
    <3>1. old \in Seq(Addresses) /\ more \in Seq(Addresses)
      BY <1>2, <1>6
    <3> QED
      BY <3>1, ConcatProperties
  <2>2. DOMAIN old' = 1 .. Len(old')
    BY <1>1, <2>1, LenProperties
  <2> QED
    BY <1>1, <1>2, <1>6, <2>1, <2>2, Zenon
<1>11. /\ \A r \in 1 .. n + m : (r \in 1 .. n /\ r <= n) \/ (r - n \in 1 .. m /\ ~(r <= n))
       /\ n \in Nat /\ m \in Nat
  BY <1>2, <1>3
<1> HIDE DEF n, m
<1>12. RxRowInv'
  <2> SUFFICES ASSUME NEW r \in 1 .. n + m
               PROVE  \E g \in Known : m_rxData[g] = old'[r] /\ rxRows'[r] \in {g, "none"}
    BY <1>1, <1>9 DEF RxRowInv, Known
  <2>1. CASE r \in 1 .. n /\ r <= n
    <3>1. rxRows'[r] = looked[r] /\ old'[r] = old[r]
      BY <1>9, <1>10, <2>1
    <3> QED
      BY <1>4, <2>1, <3>1 DEF n
  <2>2. CASE r - n \in 1 .. m /\ ~(r <= n)
    <3>1. rxRows'[r] = blank[r - n] /\ old'[r] = more[r - n]
      BY <1>9, <1>10, <2>2
    <3> QED
      BY <1>3, <1>5, <1>7, <2>2, <3>1 DEF m
  <2> QED
    BY <1>11, <2>1, <2>2
<1>13. IsInjective(old')
  <2>1. ASSUME NEW r \in 1 .. n, NEW p \in 1 .. m PROVE old[r] # more[p]
    <3>1. RowsOf(RowsAdded[p]) = {} /\ more[p] = m_rxData[RowsAdded[p]]
      BY <1>3, <1>5, <2>1 DEF m
    <3> QED
      BY <1>2, <2>1, <3>1 DEF RowsOf, n
  <2>2. ASSUME NEW p \in 1 .. m, NEW q \in 1 .. m, more[p] = more[q] PROVE p = q
    <3>1. RowsAdded[p] = RowsAdded[q]
      BY <1>2, <1>3, <1>5, <2>2 DEF m
    <3> QED
      BY <1>3, <2>2, <3>1 DEF m, IsInjective
  <2>3. \A r, p \in 1 .. n : old[r] = old[p] => r = p
    BY <1>2 DEF IsInjective, n
  <2> SUFFICES ASSUME NEW r \in 1 .. n + m, NEW p \in 1 .. n + m, old'[r] = old'[p] PROVE r = p
    BY <1>10 DEF IsInjective
  <2>4. /\ old'[r] = IF r <= n THEN old[r] ELSE more[r - n]
        /\ old'[p] = IF p <= n THEN old[p] ELSE more[p - n]
    BY <1>10
  <2>5. /\ (r \in 1 .. n /\ r <= n) \/ (r - n \in 1 .. m /\ ~(r <= n))
        /\ (p \in 1 .. n /\ p <= n) \/ (p - n \in 1 .. m /\ ~(p <= n))
    BY <1>11
  <2>6. r = p \/ r - n = p - n
    BY <2>1, <2>2, <2>3, <2>4, <2>5
  <2> QED
    BY <1>11, <2>6
<1>14. RxInv'
  BY <1>1, <1>2, <1>9, <1>10, <1>12, <1>13 DEF RxInv, Known
<1>15. TxInv'
  BY <1>1 DEF GridInv, TxInv, tx
<1> QED
  BY <1>14, <1>15 DEF GridInv

\* An entry is removed, and all rows with it.
LEMMA RemovalKeepsRows == GridInv /\ RemoveFrame => GridInv'
<1> SUFFICES ASSUME GridInv, RemoveFrame PROVE GridInv'
  OBVIOUS
<1>1. PICK r \in 1 .. Len(rxRows) :
        m_rxData' = [f \in RxFrames |-> IF f = rxRows[r] THEN NoAddress ELSE m_rxData[f]]
  BY DEF RemoveFrame
<1>2. rxRows' = <<>> /\ rx_grid_to_entry' = <<>> /\ UNCHANGED tx
  BY DEF RemoveFrame
<1>3. /\ m_rxData \in [RxFrames -> Addresses \cup {NoAddress}] /\ IsFiniteSet(Known)
      /\ \A g, h \in Known : m_rxData[g] = m_rxData[h] => g = h
  BY DEF GridInv, RxInv
<1>4. m_rxData' \in [RxFrames -> Addresses \cup {NoAddress}]
  BY <1>1, <1>3
<1>5. Known' \subseteq Known /\ \A f \in Known' : m_rxData'[f] = m_rxData[f]
  BY <1>1 DEF Known
<1>6. IsFiniteSet(Known') /\ \A g, h \in Known' : m_rxData'[g] = m_rxData'[h] => g = h
  BY <1>3, <1>5, FS_Subset
<1>7. Len(<<>>) = 0 /\ 1 .. 0 = {} /\ DOMAIN <<>> = {} /\ \A S : <<>> \in Seq(S)
  OBVIOUS
<1>8. IsInjective(rx_grid_to_entry') /\ RxRowInv'
  BY <1>2, <1>7 DEF IsInjective, RxRowInv
<1>9. RxInv'
  BY <1>2, <1>4, <1>6, <1>7, <1>8 DEF RxInv
<1>10. TxInv'
  BY <1>2 DEF GridInv, TxInv, tx
<1> QED
  BY <1>9, <1>10 DEF GridInv

\* A count changes in the rows that the map says are of the frame that was sent.
LEMMA CountKeepsRows == GridInv /\ UpdateTxCounter => GridInv'
<1> SUFFICES ASSUME GridInv, UpdateTxCounter PROVE GridInv'
  OBVIOUS
<1>1. PICK k \in 1 .. Len(TxEntries) :
        /\ tx_count' = [tx_count EXCEPT ![k] = @ + 1]
        /\ txRows' = [r \in 1 .. Len(txRows) |->
                        IF TxEntries[grid_to_entry[r]] = TxEntries[k]
                        THEN [txRows[r] EXCEPT !.count = tx_count'[k]] ELSE txRows[r]]
  BY DEF UpdateTxCounter
<1>2. UNCHANGED <<rx, level, grid_to_entry>>
  BY DEF UpdateTxCounter
<1>3. /\ tx_count' \in [1 .. Len(TxEntries) -> Nat] /\ tx_count'[k] \in Nat
  BY <1>1 DEF GridInv, TxInv
<1>4. Len(txRows) \in Nat /\ \A r \in 1 .. Len(txRows) : txRows[r] \in [entry : Nat, count : Nat]
  BY LenProperties, ElementOfSeq DEF GridInv, TxInv
<1>5. \A r \in 1 .. Len(txRows) :
        txRows'[r] \in [entry : Nat, count : Nat] /\ txRows'[r].entry = txRows[r].entry
  BY <1>1, <1>3, <1>4
<1>6. DOMAIN txRows' = 1 .. Len(txRows) /\ txRows' = [r \in 1 .. Len(txRows) |-> txRows'[r]]
  BY <1>1
<1>7. txRows' \in Seq([entry : Nat, count : Nat]) /\ Len(txRows') = Len(txRows)
  <2> DEFINE Rows == [entry : Nat, count : Nat]
             new  == txRows'
             n    == Len(txRows)
  <2>1. n \in Nat /\ new = [r \in 1 .. n |-> new[r]] /\ \A r \in 1 .. n : new[r] \in Rows
    BY <1>4, <1>5, <1>6
  <2> HIDE DEF Rows, new, n
  <2>2. new \in Seq(Rows) /\ Len(new) = n
    BY <2>1, FunctionIsSequence
  <2> QED
    BY <2>2 DEF Rows, new, n
<1>8. TxInv'
  BY <1>2, <1>3, <1>5, <1>7 DEF GridInv, TxInv
<1>9. RxInv'
  BY <1>2 DEF GridInv, RxInv, RxRowInv, Known, rx
<1> QED
  BY <1>8, <1>9 DEF GridInv

\* Every row of the two tables is of the entry it shows, for any frames, addresses and levels.
THEOREM RowsFindTheirEntries == GridSpec => []RowsAreOfTheirEntries
<1>1. GridInv /\ [GridNext]_gridVars => GridInv'
  <2>1. GridInv /\ RefreshTx => GridInv'
    <3> SUFFICES ASSUME GridInv, RefreshTx PROVE GridInv'
      OBVIOUS
    <3>1. UNCHANGED <<rx, tx_count>> /\ txRows' = FreshRows(level')
          /\ grid_to_entry' = NewMap(grid_to_entry, level')
      BY DEF RefreshTx
    <3>2. /\ txRows' \in Seq([entry : Nat, count : Nat])
          /\ \A r \in 1 .. Len(txRows') : /\ grid_to_entry'[r] = txRows'[r].entry
                                          /\ level' <= FavouriteLevel[txRows'[r].entry]
      BY <3>1, FreshTable
    <3>3. TxInv'
      BY <3>1, <3>2 DEF GridInv, TxInv
    <3>4. RxInv'
      BY <3>1 DEF GridInv, RxInv, RxRowInv, Known, rx
    <3> QED
      BY <3>3, <3>4 DEF GridInv
  <2>2. GridInv /\ UNCHANGED gridVars => GridInv'
    BY DEF GridInv, RxInv, RxRowInv, TxInv, Known, gridVars
  <2> QED
    BY <2>1, <2>2, NewEntryKeepsRows, TimerKeepsRows, RemovalKeepsRows, CountKeepsRows DEF GridNext
<1>2. GridInv => RowsAreOfTheirEntries
  <2> SUFFICES ASSUME GridInv PROVE RowsAreOfTheirEntries
    OBVIOUS
  <2>1. ASSUME NEW r \in 1 .. Len(rxRows)
        PROVE  /\ rx_grid_to_entry[r] \in InUse
               /\ rxRows[r] # "none" => m_rxData[rxRows[r]] = rx_grid_to_entry[r]
    BY <2>1 DEF GridInv, RxInv, RxRowInv, Known, InUse
  <2> QED
    BY <2>1 DEF GridInv, RxInv, TxInv, RowsAreOfTheirEntries
<1> QED
  BY <1>1, <1>2, NoRowsYet, PTL DEF GridSpec
-----------------------------------------------------------------------------
(* CanLogPanel: the rows follow the record, whatever is recorded while the *)
(* timer is at work, until an iterator is invalid.                         *)

Climbs(q) == \A i, j \in 1 .. Len(q) : i < j => q[i] < q[j]

RecordInv ==
  /\ recorded \in Nat
  /\ m_LogEntries \in Seq(Nat) /\ Climbs(m_LogEntries)
  /\ \A i \in 1 .. Len(m_LogEntries) : m_LogEntries[i] <= recorded

\* The rows come from the first inserted_until frames of the record; they are these frames while
\* nobody searches.
RowInv ==
  /\ rows \in Seq(Nat) /\ Climbs(rows)
  /\ \A i \in 1 .. Len(rows) : \E k \in 1 .. inserted_until : rows[i] = m_LogEntries[k]
  /\ searches = 0 => /\ ~search_pattern /\ Len(rows) = inserted_until
                     /\ \A i \in 1 .. Len(rows) : rows[i] = m_LogEntries[i]

PanelInv ==
  /\ inserted_until \in Nat /\ inserted_until <= Len(m_LogEntries)
  /\ ~is_something_inserted => inserted_until = 0
  /\ panel = "insert" => it = inserted_until
  /\ searches \in Nat

LogPanelInv == RecordInv /\ (panel # "undefined" => RowInv /\ PanelInv)

\* In the beginning nothing is recorded and nothing shown.
LEMMA NothingShownYet == LogPanelInit => LogPanelInv
<1> SUFFICES ASSUME LogPanelInit PROVE LogPanelInv
  OBVIOUS
<1>1. Len(<<>>) = 0 /\ 1 .. 0 = {} /\ <<>> \in Seq(Nat)
  OBVIOUS
<1>2. RecordInv
  BY <1>1 DEF LogPanelInit, RecordInv, Climbs
<1>3. RowInv
  BY <1>1 DEF LogPanelInit, RowInv, Climbs
<1>4. PanelInv
  BY <1>1 DEF LogPanelInit, PanelInv
<1> QED
  BY <1>2, <1>3, <1>4 DEF LogPanelInv

\* A frame is recorded behind those that were, and the rows stay what they are.
LEMMA RecordingKeepsRows == LogPanelInv /\ RecordFrame => LogPanelInv'
<1> SUFFICES ASSUME LogPanelInv, RecordFrame PROVE LogPanelInv'
  OBVIOUS
<1>1. /\ recorded' = recorded + 1
      /\ m_LogEntries' = IF is_recoding THEN Append(m_LogEntries, recorded') ELSE m_LogEntries
      /\ panel' = IF Grows /\ panel = "insert" THEN "undefined" ELSE panel
      /\ UNCHANGED <<it, grid, user>>
  BY DEF RecordFrame
<1>2. /\ recorded \in Nat /\ m_LogEntries \in Seq(Nat) /\ Climbs(m_LogEntries)
      /\ Len(m_LogEntries) \in Nat /\ \A i \in 1 .. Len(m_LogEntries) : m_LogEntries[i] \in Nat
      /\ \A i \in 1 .. Len(m_LogEntries) : m_LogEntries[i] <= recorded
  BY LenProperties, ElementOfSeq DEF LogPanelInv, RecordInv
<1>3. RecordInv' /\ Len(m_LogEntries') >= Len(m_LogEntries) /\ Len(m_LogEntries') \in Nat
      /\ \A i \in 1 .. Len(m_LogEntries) : m_LogEntries'[i] = m_LogEntries[i]
  <2>1. CASE ~is_recoding
    BY <1>1, <1>2, <2>1 DEF RecordInv, Climbs
  <2>2. CASE is_recoding
    <3> DEFINE n == Len(m_LogEntries)
               q == m_LogEntries'
    <3>1. /\ recorded' \in Nat /\ q \in Seq(Nat) /\ Len(q) = n + 1 /\ q[n + 1] = recorded'
          /\ \A i \in 1 .. n : q[i] = m_LogEntries[i]
      BY <1>1, <1>2, <2>2, AppendProperties
    <3> HIDE DEF n, q
    <3>2. n \in Nat /\ \A i \in 1 .. n + 1 : i \in 1 .. n \/ i = n + 1
      BY <1>2 DEF n
    <3>3. \A i \in 1 .. n + 1 : q[i] <= recorded' /\ (i \in 1 .. n => q[i] < recorded')
      BY <1>1, <1>2, <3>1, <3>2 DEF n
    <3>4. Climbs(q)
      <4> SUFFICES ASSUME NEW i \in 1 .. n + 1, NEW j \in 1 .. n + 1, i < j PROVE q[i] < q[j]
        BY <3>1 DEF Climbs
      <4>1. i \in 1 .. n
        BY <3>2
      <4>2. CASE j \in 1 .. n
        BY <1>2, <3>1, <4>1, <4>2 DEF Climbs, n
      <4>3. CASE j = n + 1
        BY <3>1, <3>3, <4>1, <4>3
      <4> QED
        BY <3>2, <4>2, <4>3
    <3> QED
      BY <3>1, <3>2, <3>3, <3>4 DEF RecordInv, n, q
  <2> QED
    BY <2>1, <2>2
<1>4. ASSUME panel' # "undefined" PROVE RowInv' /\ PanelInv'
  <2>1. /\ panel # "undefined" /\ panel' = panel
        /\ UNCHANGED <<it, inserted_until, is_something_inserted, rows, search_pattern, searches>>
    BY <1>1, <1>4 DEF grid, user
  <2>2. RowInv /\ PanelInv
    BY <2>1 DEF LogPanelInv
  <2>3. PanelInv'
    BY <1>2, <1>3, <2>1, <2>2 DEF PanelInv
  <2>4. \A k \in 1 .. inserted_until : k \in 1 .. Len(m_LogEntries) /\ m_LogEntries'[k] = m_LogEntries[k]
    BY <1>2, <1>3, <2>2 DEF PanelInv
  <2>5. RowInv'
    BY <2>1, <2>2, <2>4 DEF RowInv
  <2> QED
    BY <2>3, <2>5
<1> QED
  BY <1>3, <1>4 DEF LogPanelInv

\* What the iterator has before it comes behind the rows.
LEMMA InsertingKeepsRows == LogPanelInv /\ InsertRows => LogPanelInv'
<1> SUFFICES ASSUME LogPanelInv, InsertRows PROVE LogPanelInv'
  OBVIOUS
<1> DEFINE m      == m_LogEntries
           n      == inserted_until
           rest   == SubSeq(m, it + 1, Len(m))
           places == {i \in DOMAIN rest : InsertRow(rest[i])}
           new    == ElementsAt(rest, places)
<1>1. /\ panel = "insert" /\ panel' = "idle" /\ rows' = rows \o new
      /\ inserted_until' = n + Len(m) - it /\ is_something_inserted' = TRUE
      /\ UNCHANGED <<recorded, m_LogEntries, it, search_pattern, searches>>
  BY DEF InsertRows, record, user
<1>2. RecordInv /\ RowInv /\ PanelInv
  BY <1>1 DEF LogPanelInv
<1>3. /\ m \in Seq(Nat) /\ Len(m) \in Nat /\ Climbs(m) /\ \A i \in 1 .. Len(m) : m[i] \in Nat
      /\ it = n /\ n \in Nat /\ n <= Len(m) /\ inserted_until' = Len(m)
  BY <1>1, <1>2, LenProperties, ElementOfSeq DEF RecordInv, PanelInv
<1>4. /\ rest \in Seq(Nat) /\ Len(rest) = Len(m) - n /\ DOMAIN rest = 1 .. Len(rest)
      /\ \A i \in 1 .. Len(rest) : rest[i] = m[n + i] /\ n + i \in 1 .. Len(m)
  <2>1. /\ rest \in Seq(Nat)
        /\ Len(rest) = IF n + 1 <= Len(m) THEN Len(m) - (n + 1) + 1 ELSE 0
        /\ \A i \in 1 .. Len(m) - (n + 1) + 1 : rest[i] = m[(n + 1) + i - 1]
    BY <1>3, SubSeqProperties
  <2> HIDE DEF rest
  <2>2. Len(rest) = Len(m) - n
    BY <1>3, <2>1
  <2>3. \A i \in 1 .. Len(rest) : /\ i \in 1 .. Len(m) - (n + 1) + 1 /\ (n + 1) + i - 1 = n + i
                                  /\ n + i \in 1 .. Len(m)
    BY <1>3, <2>2
  <2> QED
    BY <2>1, <2>2, <2>3, LenProperties
<1>5. /\ rows \in Seq(Nat) /\ Len(rows) \in Nat /\ Climbs(rows)
      /\ \A i \in 1 .. Len(rows) : \E k \in 1 .. n : rows[i] = m[k]
  BY <1>2, LenProperties DEF RowInv
<1> HIDE DEF rest
<1>6. new \in Seq(Nat) /\ Len(new) \in Nat
  BY <1>4, ElementsAtPlaces, LenProperties
<1>7. PICK at : Picks(at, new, rest, places, Len(rest))
  BY <1>4, ElementsAtPlaces
<1>8. \A i \in 1 .. Len(new) : at[i] \in 1 .. Len(rest) /\ new[i] = m[n + at[i]]
                               /\ n + at[i] \in 1 .. Len(m)
  BY <1>4, <1>7 DEF Picks
<1>9. \A i, j \in 1 .. Len(new) : i < j => at[i] < at[j]
  BY <1>7 DEF Picks
<1>10. /\ rows' \in Seq(Nat) /\ Len(rows') = Len(rows) + Len(new)
       /\ \A i \in 1 .. Len(rows) + Len(new) :
            rows'[i] = IF i <= Len(rows) THEN rows[i] ELSE new[i - Len(rows)]
  <2> HIDE DEF new
  <2> QED
    BY <1>1, <1>5, <1>6, ConcatProperties
<1>11. \A i \in 1 .. Len(rows) + Len(new) :
         \/ i \in 1 .. Len(rows) /\ i <= Len(rows)
         \/ i - Len(rows) \in 1 .. Len(new) /\ ~(i <= Len(rows))
  BY <1>5, <1>6
<1> HIDE DEF new, places
<1>12. \A i \in 1 .. Len(rows') : \E k \in 1 .. Len(m) : rows'[i] = m[k]
  <2> SUFFICES ASSUME NEW i \in 1 .. Len(rows) + Len(new) PROVE \E k \in 1 .. Len(m) : rows'[i] = m[k]
    BY <1>10
  <2>1. CASE i \in 1 .. Len(rows) /\ i <= Len(rows)
    <3>1. \A k \in 1 .. n : k \in 1 .. Len(m)
      BY <1>3
    <3> QED
      BY <1>5, <1>10, <2>1, <3>1
  <2>2. CASE i - Len(rows) \in 1 .. Len(new) /\ ~(i <= Len(rows))
    BY <1>8, <1>10, <2>2
  <2> QED
    BY <1>11, <2>1, <2>2
<1>13. Climbs(rows')
  <2> SUFFICES ASSUME NEW i \in 1 .. Len(rows) + Len(new), NEW j \in 1 .. Len(rows) + Len(new), i < j
               PROVE  rows'[i] < rows'[j]
    BY <1>10 DEF Climbs
  <2>1. /\ rows'[i] = IF i <= Len(rows) THEN rows[i] ELSE new[i - Len(rows)]
        /\ rows'[j] = IF j <= Len(rows) THEN rows[j] ELSE new[j - Len(rows)]
    BY <1>10
  <2>2. CASE j <= Len(rows)
    <3>1. i \in 1 .. Len(rows) /\ i <= Len(rows) /\ j \in 1 .. Len(rows)
      BY <1>5, <1>6, <2>2
    <3> QED
      BY <1>5, <2>1, <2>2, <3>1 DEF Climbs
  <2>3. CASE i <= Len(rows) /\ ~(j <= Len(rows))
    <3>1. i \in 1 .. Len(rows) /\ j - Len(rows) \in 1 .. Len(new)
      BY <1>5, <1>6, <2>3
    <3>2. PICK k \in 1 .. n : rows[i] = m[k]
      BY <1>5, <3>1
    <3> DEFINE b == at[j - Len(rows)]
               h == n + b
    <3>3. b \in 1 .. Len(rest) /\ new[j - Len(rows)] = m[h] /\ h \in 1 .. Len(m)
      BY <1>8, <3>1
    <3>5. Len(rest) \in Nat
      BY <1>4, LenProperties
    <3> HIDE DEF b
    <3>6. k < h /\ k \in 1 .. Len(m)
      BY <1>3, <3>3, <3>5
    <3> HIDE DEF h
    <3>4. m[k] < m[h]
      BY <1>3, <3>3, <3>6 DEF Climbs
    <3> QED
      BY <2>1, <2>3, <3>2, <3>3, <3>4
  <2>4. CASE ~(i <= Len(rows)) /\ ~(j <= Len(rows))
    <3> DEFINE a == i - Len(rows)
               b == j - Len(rows)
    <3>1. a \in 1 .. Len(new) /\ b \in 1 .. Len(new) /\ a < b
      BY <1>5, <1>6, <2>4
    <3> HIDE DEF a, b
    <3> DEFINE g == n + at[a]
               h == n + at[b]
    <3>2. /\ new[a] = m[g] /\ new[b] = m[h] /\ g \in 1 .. Len(m) /\ h \in 1 .. Len(m)
          /\ at[a] \in 1 .. Len(rest) /\ at[b] \in 1 .. Len(rest) /\ at[a] < at[b]
      BY <1>8, <1>9, <3>1
    <3>5. Len(rest) \in Nat
      BY <1>4, LenProperties
    <3>3. g < h
      <4> DEFINE x == at[a]
                 y == at[b]
      <4>1. x \in 1 .. Len(rest) /\ y \in 1 .. Len(rest) /\ x < y
        BY <3>2
      <4> HIDE DEF x, y
      <4>2. n + x < n + y
        BY <1>3, <3>5, <4>1
      <4> QED
        BY <4>2 DEF x, y
    <3> HIDE DEF g, h
    <3>4. m[g] < m[h]
      BY <1>3, <3>2, <3>3 DEF Climbs
    <3> QED
      BY <2>1, <2>4, <3>2, <3>4 DEF a, b
  <2> QED
    BY <1>5, <1>6, <2>2, <2>3, <2>4
<1>14. ASSUME searches = 0
       PROVE  /\ ~search_pattern /\ Len(rows') = Len(m)
              /\ \A i \in 1 .. Len(rows') : rows'[i] = m[i]
  <2>1. ~search_pattern /\ Len(rows) = n /\ \A i \in 1 .. Len(rows) : rows[i] = m[i]
    BY <1>2, <1>14 DEF RowInv
  <2>2. 1 .. Len(rest) \subseteq places
    BY <1>4, <2>1 DEF places, InsertRow
  <2>3. new = rest
    BY <1>4, <2>2, AllElements DEF new
  <2>4. Len(rows') = Len(m)
    BY <1>3, <1>4, <1>10, <2>1, <2>3
  <2>5. ASSUME NEW i \in 1 .. Len(rows) + Len(new) PROVE rows'[i] = m[i]
    <3>1. CASE i \in 1 .. Len(rows) /\ i <= Len(rows)
      BY <1>10, <2>1, <3>1
    <3>2. CASE i - Len(rows) \in 1 .. Len(new) /\ ~(i <= Len(rows))
      <4>1. rows'[i] = rest[i - Len(rows)] /\ rest[i - Len(rows)] = m[n + (i - Len(rows))]
        BY <1>4, <1>10, <2>3, <3>2
      <4>2. n + (i - Len(rows)) = i
        BY <1>3, <2>1
      <4> QED
        BY <4>1, <4>2
    <3> QED
      BY <1>11, <3>1, <3>2
  <2> QED
    BY <1>10, <2>1, <2>4, <2>5
<1>15. RecordInv'
  BY <1>1, <1>2 DEF RecordInv
<1>16. RowInv'
  BY <1>1, <1>3, <1>10, <1>12, <1>13, <1>14 DEF RowInv
<1>17. PanelInv'
  BY <1>1, <1>2, <1>3 DEF PanelInv
<1> QED
  BY <1>15, <1>16, <1>17 DEF LogPanelInv

\* The other steps.
LEMMA PanelKeepsRows ==
  LogPanelInv /\ (ToggleRecording \/ Stop \/ Search \/ ShowCount \/ RememberCount \/ FindFirst)
    => LogPanelInv'
<1> SUFFICES ASSUME LogPanelInv,
                    ToggleRecording \/ Stop \/ Search \/ ShowCount \/ RememberCount \/ FindFirst
             PROVE  LogPanelInv'
  OBVIOUS
<1>1. RecordInv /\ RowInv /\ PanelInv
  BY DEF LogPanelInv, ToggleRecording, Stop, Search, ShowCount, RememberCount, FindFirst
<1>2. CASE ToggleRecording \/ ShowCount \/ RememberCount
  <2>1. /\ panel' # "insert"
        /\ UNCHANGED <<recorded, m_LogEntries, inserted_until, is_something_inserted, rows,
                       search_pattern, searches>>
    BY <1>2 DEF ToggleRecording, ShowCount, RememberCount, record, grid, user
  <2> QED
    BY <1>1, <2>1 DEF LogPanelInv, RecordInv, RowInv, PanelInv
<1>3. CASE Stop
  <2>1. Len(<<>>) = 0 /\ 1 .. 0 = {} /\ <<>> \in Seq(Nat)
    OBVIOUS
  <2>2. /\ rows' = <<>> /\ inserted_until' = 0 /\ m_LogEntries' = <<>> /\ panel' # "insert"
        /\ UNCHANGED <<recorded, search_pattern, searches>>
    BY <1>3 DEF Stop
  <2>3. RecordInv'
    BY <1>1, <2>1, <2>2 DEF RecordInv, Climbs
  <2>4. RowInv'
    BY <1>1, <2>1, <2>2 DEF RowInv, Climbs
  <2>5. PanelInv'
    BY <1>1, <2>1, <2>2 DEF PanelInv
  <2> QED
    BY <2>3, <2>4, <2>5 DEF LogPanelInv
<1>4. CASE Search
  <2>1. /\ searches' = searches + 1 /\ panel' # "insert"
        /\ UNCHANGED <<recorded, m_LogEntries, inserted_until, is_something_inserted, rows>>
    BY <1>4 DEF Search, record, grid
  <2>2. searches' # 0 /\ searches' \in Nat
    BY <1>1, <2>1 DEF PanelInv
  <2> QED
    BY <1>1, <2>1, <2>2 DEF LogPanelInv, RecordInv, RowInv, PanelInv
<1>5. CASE FindFirst
  <2>1. /\ inserted_until' = inserted_until /\ (panel' = "insert" => it' = inserted_until')
        /\ UNCHANGED <<recorded, m_LogEntries, is_something_inserted, rows, search_pattern, searches>>
    BY <1>1, <1>5 DEF FindFirst, PanelInv, record, user
  <2> QED
    BY <1>1, <2>1 DEF LogPanelInv, RecordInv, RowInv, PanelInv
<1> QED
  BY <1>2, <1>3, <1>4, <1>5

\* The rows follow the record, for any number of frames, searches and clears.
THEOREM RowsAreAPrefix == LogPanelSpec => []RowsFollowTheRecord
<1>1. LogPanelInv /\ UNCHANGED logPanelVars => LogPanelInv'
  BY DEF LogPanelInv, RecordInv, RowInv, PanelInv, logPanelVars
<1>2. LogPanelInv /\ [LogPanelNext]_logPanelVars => LogPanelInv'
  BY <1>1, RecordingKeepsRows, InsertingKeepsRows, PanelKeepsRows DEF LogPanelNext, Timer
<1>3. LogPanelInv => RowsFollowTheRecord
  <2> SUFFICES ASSUME LogPanelInv, panel # "undefined"
               PROVE  /\ inserted_until <= Len(m_LogEntries)
                      /\ (\A i, j \in DOMAIN rows : i < j => rows[i] < rows[j])
                      /\ ToSet(rows) \subseteq ToSet(SubSeq(m_LogEntries, 1, inserted_until))
                      /\ searches = 0 => rows = SubSeq(m_LogEntries, 1, inserted_until)
    BY DEF RowsFollowTheRecord
  <2> DEFINE first == SubSeq(m_LogEntries, 1, inserted_until)
  <2>1. /\ rows \in Seq(Nat) /\ DOMAIN rows = 1 .. Len(rows)
        /\ m_LogEntries \in Seq(Nat) /\ Len(m_LogEntries) \in Nat
        /\ inserted_until \in Nat /\ inserted_until <= Len(m_LogEntries)
    BY LenProperties DEF LogPanelInv, RecordInv, RowInv, PanelInv
  <2>2. /\ first \in Seq(Nat)
        /\ Len(first) = IF 1 <= inserted_until THEN inserted_until - 1 + 1 ELSE 0
        /\ \A i \in 1 .. inserted_until - 1 + 1 : first[i] = m_LogEntries[1 + i - 1]
    BY <2>1, SubSeqProperties
  <2> HIDE DEF first
  <2>3. inserted_until - 1 + 1 = inserted_until /\ \A i \in 1 .. inserted_until : 1 + i - 1 = i
    BY <2>1
  <2>4. /\ Len(first) = inserted_until /\ DOMAIN first = 1 .. inserted_until
        /\ \A i \in 1 .. inserted_until : first[i] = m_LogEntries[i]
    BY <2>1, <2>2, <2>3, LenProperties
  <2>5. ToSet(rows) \subseteq ToSet(first)
    <3>1. ASSUME NEW i \in 1 .. Len(rows) PROVE \E k \in 1 .. inserted_until : rows[i] = first[k]
      BY <2>4, <3>1 DEF LogPanelInv, RowInv
    <3>2. /\ ToSet(rows) = {rows[i] : i \in 1 .. Len(rows)}
          /\ ToSet(first) = {first[i] : i \in 1 .. inserted_until}
      BY <2>1, <2>4, Zenon DEF ToSet
    <3> QED
      BY <3>1, <3>2, Zenon
  <2>6. ASSUME searches = 0 PROVE rows = first
    <3>1. Len(rows) = Len(first) /\ \A i \in 1 .. Len(rows) : rows[i] = first[i]
      BY <2>4, <2>6 DEF LogPanelInv, RowInv
    <3> QED
      BY <2>1, <2>2, <3>1, SeqEqual
  <2> QED
    BY <2>1, <2>5, <2>6 DEF LogPanelInv, RowInv, Climbs, first
<1> QED
  BY <1>2, <1>3, NothingShownYet, PTL DEF LogPanelSpec
-----------------------------------------------------------------------------
(* IsoTpPoll: what the clock says, across its wrap.                        *)

\* A number less than one turn off is brought back by one turn.
LEMMA WrapsOnce ==
  ASSUME NEW n \in Nat \ {0}, NEW x \in (-n) .. 2 * n - 1
  PROVE  x % n = IF x < 0 THEN x + n ELSE IF x < n THEN x ELSE x - n
  OBVIOUS

\* A time that lies ahead by less than half a turn is not past, wherever the clock wraps.
LEMMA AheadIsNotPast ==
  ASSUME NEW now \in 0 .. Word - 1, NEW d \in 0 .. Word - 1, d < Word \div 2,
         NEW then, then = now + d \/ then = now + d - Word
  PROVE  ~ IsoTpTimeAfter(now, then)
<1>1. Word \in Nat \ {0} /\ Word \div 2 \in Nat
  BY IsoTpAssumption
<1>2. then - now = d \/ then - now = d - Word
  BY <1>1
<1>3. (then - now) % Word = d
  <2>1. d \in (-Word) .. 2 * Word - 1 /\ d - Word \in (-Word) .. 2 * Word - 1
    BY <1>1
  <2>2. d % Word = d
    BY <1>1, <2>1, WrapsOnce
  <2>3. (d - Word) % Word = d
    <3>1. (d - Word) % Word = IF d - Word < 0 THEN d - Word + Word ELSE d
      <4> DEFINE x == d - Word
      <4>1. x \in (-Word) .. 2 * Word - 1 /\ x < 0
        BY <1>1, <2>1
      <4> HIDE DEF x
      <4>2. x % Word = x + Word
        BY <1>1, <4>1, WrapsOnce
      <4> QED
        BY <1>1, <4>1, <4>2 DEF x
    <3> QED
      BY <1>1, <3>1
  <2> QED
    BY <1>2, <2>2, <2>3
<1> QED
  BY <1>1, <1>3 DEF IsoTpTimeAfter

\* What is left of the block is what the receiver granted; and as long as the pause it asked for
\* is not over, the timer runs ahead of the clock by what is missing of it.
PauseInv ==
  /\ ms \in 0 .. Word - 1 /\ send_timer_st \in 0 .. Word - 1 /\ gap \in 0 .. Timeout
  /\ granted = send_bs_remain
  /\ send_st_min \in SeparationTimes \cup {0}
  /\ gap < send_st_min => \/ send_timer_st = ms + (send_st_min - gap)
                          \/ send_timer_st = ms + (send_st_min - gap) - Word

\* The clock, one tick or several ahead, stays a number of its word.
LEMMA ClockAhead ==
  ASSUME NEW now \in 0 .. Word - 1, NEW t \in 0 .. Word - 1
  PROVE  /\ (now + t) % Word \in 0 .. Word - 1
         /\ (now + t) % Word = now + t \/ (now + t) % Word = now + t - Word
  BY IsoTpAssumption

\* The pauses are short enough for the clock.
LEMMA PausesAreShort ==
  \A st \in SeparationTimes \cup {0} :
    st \in Nat /\ st <= Timeout /\ st < Word \div 2 /\ st \in 0 .. Word - 1
<1>1. Word \in Nat \ {0} /\ Timeout \in Nat /\ Word \div 2 \in Nat /\ Word \div 2 <= Word
  BY IsoTpAssumption
<1>2. 0 < Word \div 2
  BY IsoTpAssumption
<1> QED
  BY <1>1, <1>2, IsoTpAssumption

\* A tick of the clock makes the pause longer.
LEMMA TickKeepsPause == PauseInv /\ Tick => PauseInv'
<1> SUFFICES ASSUME PauseInv, Tick PROVE PauseInv'
  OBVIOUS
<1>1. /\ ms' = (ms + 1) % Word /\ gap' = IF gap < Timeout THEN gap + 1 ELSE gap
      /\ UNCHANGED <<send_bs_remain, send_st_min, send_timer_st, granted>>
  BY DEF Tick, In
<1>2. Word \in Nat \ {0} /\ Timeout \in Nat /\ 1 \in 0 .. Word - 1
  BY IsoTpAssumption
<1>3. ms' \in 0 .. Word - 1 /\ (ms' = ms + 1 \/ ms' = ms + 1 - Word)
  BY <1>1, <1>2, ClockAhead DEF PauseInv
<1>4. gap' \in 0 .. Timeout /\ send_st_min \in Nat
  BY <1>1, <1>2, PausesAreShort DEF PauseInv
<1>5. ASSUME gap' < send_st_min
      PROVE  \/ send_timer_st = ms' + (send_st_min - gap')
             \/ send_timer_st = ms' + (send_st_min - gap') - Word
  <2>1. gap' = gap + 1 /\ gap < send_st_min
    BY <1>1, <1>2, <1>4, <1>5, PausesAreShort DEF PauseInv
  <2>2. \/ send_timer_st = ms + (send_st_min - gap)
        \/ send_timer_st = ms + (send_st_min - gap) - Word
    BY <2>1 DEF PauseInv
  <2>3. ms + 1 + (send_st_min - gap') = ms + (send_st_min - gap)
    BY <1>4, <2>1 DEF PauseInv
  <2>4. CASE ms' = ms + 1
    BY <1>2, <1>3, <1>4, <2>1, <2>2, <2>4 DEF PauseInv
  <2>5. CASE ms' = ms + 1 - Word
    <3>1. CASE send_timer_st = ms + (send_st_min - gap) - Word
      BY <1>2, <1>3, <1>4, <2>1, <2>5, <3>1 DEF PauseInv
    <3>2. CASE send_timer_st = ms + (send_st_min - gap)
      <4>1. ms + (send_st_min - gap) >= Word
        BY <1>2, <1>3, <1>4, <2>1, <2>5 DEF PauseInv
      <4> QED
        BY <1>2, <3>2, <4>1 DEF PauseInv
    <3> QED
      BY <2>2, <3>1, <3>2
  <2> QED
    BY <1>3, <2>4, <2>5
<1> QED
  BY <1>1, <1>3, <1>4, <1>5 DEF PauseInv

\* A first frame and what the receiver grants start a new block.
LEMMA SenderKeepsPause ==
  PauseInv /\ (SendFirstFrame \/ FlowControl \/ ReceiveFrame) => PauseInv'
<1> SUFFICES ASSUME PauseInv, SendFirstFrame \/ FlowControl \/ ReceiveFrame PROVE PauseInv'
  OBVIOUS
<1>1. CASE SendFirstFrame
  <2>1. /\ send_bs_remain' = 0 /\ granted' = 0 /\ send_st_min' = 0 /\ send_timer_st' = ms
        /\ UNCHANGED <<ms, gap>>
    BY <1>1 DEF SendFirstFrame
  <2>2. Timeout \in Nat /\ ~(gap < 0)
    BY IsoTpAssumption DEF PauseInv
  <2> QED
    BY <2>1, <2>2 DEF PauseInv
<1>2. CASE FlowControl
  <2>1. UNCHANGED <<ms, send_timer_st>>
    BY <1>2 DEF FlowControl
  <2>2. CASE UNCHANGED <<send_bs_remain, send_st_min, granted, gap>>
    BY <2>1, <2>2 DEF PauseInv
  <2>3. ASSUME NEW bs \in BlockSizes, NEW st \in SeparationTimes,
               send_bs_remain' = bs, granted' = bs, send_st_min' = st, gap' = Timeout
        PROVE  PauseInv'
    <3>1. Timeout \in Nat /\ st \in Nat /\ ~(Timeout < st)
      BY PausesAreShort, IsoTpAssumption
    <3> QED
      BY <2>1, <2>3, <3>1 DEF PauseInv
  <2> QED
    BY <1>2, <2>2, <2>3 DEF FlowControl
<1>3. CASE ReceiveFrame
  BY <1>3 DEF ReceiveFrame, sending, PauseInv
<1> QED
  BY <1>1, <1>2, <1>3

\* A poll sends only when the pause is over.
LEMMA PollKeepsPause == PauseInv /\ isotp_poll => PauseInv'
<1> SUFFICES ASSUME PauseInv, isotp_poll PROVE PauseInv'
  OBVIOUS
<1>1. UNCHANGED <<ms, send_st_min>>
  BY DEF isotp_poll
<1>2. CASE UNCHANGED <<send_bs_remain, send_timer_st, granted, gap>>
  BY <1>1, <1>2 DEF PauseInv
<1>3. CASE SendConsecutiveFrame
  <2>1. /\ send_bs_remain' = Remaining /\ send_timer_st' = (ms + send_st_min) % Word
        /\ granted' = (IF granted = Invalid THEN Invalid ELSE granted - 1) /\ gap' = 0
    BY <1>3 DEF SendConsecutiveFrame, In
  <2>2. granted' = send_bs_remain'
    BY <2>1 DEF PauseInv, Remaining
  <2>3. /\ ms \in 0 .. Word - 1 /\ send_st_min \in 0 .. Word - 1 /\ send_st_min - 0 = send_st_min
        /\ Timeout \in Nat /\ 0 \in 0 .. Timeout
    BY PausesAreShort, IsoTpAssumption DEF PauseInv
  <2>4. /\ send_timer_st' \in 0 .. Word - 1
        /\ send_timer_st' = ms + send_st_min \/ send_timer_st' = ms + send_st_min - Word
    BY <2>1, <2>3, ClockAhead
  <2> QED
    BY <1>1, <2>1, <2>2, <2>3, <2>4 DEF PauseInv
<1> QED
  BY <1>2, <1>3 DEF isotp_poll, SendFails, SendTimesOut, sending

\* For any word of the clock, time-out, block sizes and pauses: the receiver is never sent more
\* frames than it granted, nor two of a block closer than it asked for, also where the clock wraps.
THEOREM PausesAndGrantsAreKept == IsoTpSpec => SenderKeepsToFlowControl
<1>1. IsoTpInit => PauseInv
  <2> SUFFICES ASSUME IsoTpInit PROVE PauseInv
    OBVIOUS
  <2>1. Timeout \in Nat /\ Word \in Nat \ {0} /\ ~(Timeout < 0)
    BY IsoTpAssumption
  <2> QED
    BY <2>1 DEF IsoTpInit, PauseInv
<1>2. PauseInv /\ UNCHANGED isoTpVars => PauseInv'
  BY DEF PauseInv, isoTpVars, sending
<1>3. PauseInv /\ [IsoTpNext]_isoTpVars => PauseInv'
  BY <1>2, TickKeepsPause, SenderKeepsPause, PollKeepsPause DEF IsoTpNext
<1>4. PauseInv /\ [IsoTpNext]_isoTpVars =>
        [send_status = "in_progress" /\ to_send' # to_send =>
           granted > 0 /\ gap >= send_st_min]_isoTpVars
  <2> SUFFICES ASSUME PauseInv, IsoTpNext, send_status = "in_progress", to_send' # to_send
               PROVE  granted > 0 /\ gap >= send_st_min
    OBVIOUS
  <2>1. isotp_poll /\ MaySend
    BY DEF IsoTpNext, Tick, SendFirstFrame, FlowControl, ReceiveFrame, isotp_poll, sending,
           SendTimesOut
  <2>2. granted > 0
    <3>1. Invalid > 0
      BY IsoTpAssumption
    <3> QED
      BY <2>1, <3>1 DEF MaySend, PauseInv
  <2>3. ASSUME gap < send_st_min PROVE FALSE
    <3> DEFINE d == send_st_min - gap
    <3>1. /\ send_st_min # 0 /\ d \in 0 .. Word - 1 /\ d < Word \div 2
          /\ send_timer_st = ms + d \/ send_timer_st = ms + d - Word
      <4>1. /\ Word \in Nat /\ Timeout \in Nat /\ Word \div 2 \in Nat
            /\ send_st_min \in Nat /\ send_st_min < Word \div 2 /\ send_st_min \in 0 .. Word - 1
        BY PausesAreShort, IsoTpAssumption DEF PauseInv
      <4>2. gap \in Nat
        BY <4>1 DEF PauseInv
      <4> QED
        BY <2>3, <4>1, <4>2 DEF PauseInv
    <3> HIDE DEF d
    <3>2. ~IsoTpTimeAfter(ms, send_timer_st)
      BY <3>1, AheadIsNotPast DEF PauseInv
    <3> QED
      BY <2>1, <3>1, <3>2 DEF MaySend
  <2> QED
    <3>1. send_st_min \in Nat /\ gap \in Int
      BY PausesAreShort, IsoTpAssumption DEF PauseInv
    <3> QED
      BY <2>2, <2>3, <3>1
<1> QED
  BY <1>1, <1>3, <1>4, PTL DEF IsoTpSpec, SenderKeepsToFlowControl
-----------------------------------------------------------------------------
(* DidGrid: the table is the list of the DIDs.                              *)

DidCount == Len(DidIds)

\* Row r is that of the r-th DID, and did_to_row finds it.
TableIsTheList ==
  /\ table = [r \in 1 .. DidCount |-> [did |-> DidIds[r], text |-> table[r].text]]
  /\ \A r \in 1 .. DidCount : did_to_row[DidIds[r]] = r - 1

\* The text of a row is what it should be, or will be.
TextIsRight(r) ==
  table[r].text \in {value[DidIds[r]], Cleared} \/ DidIds[r] \in changed \cup ToSet(m_UpdatedDids)

DidGridInv ==
  /\ m_UpdatedDids \in Seq(AllDids) /\ changed \subseteq AllDids
  /\ value = [d \in AllDids |-> value[d]]
  /\ ~is_dids_initialized => table = <<>> /\ ~crashed
  /\ is_dids_initialized =>
       ~crashed /\ TableIsTheList /\ \A r \in 1 .. DidCount : TextIsRight(r)

\* The DIDs are listed, none of them twice.
LEMMA DidsAreListed ==
  /\ DidIds \in Seq(AllDids) /\ DidCount \in Nat /\ DOMAIN DidIds = 1 .. DidCount
  /\ AllDids = {DidIds[r] : r \in 1 .. DidCount}
  /\ \A r, q \in 1 .. DidCount : DidIds[r] = DidIds[q] => r = q
<1>1. DidIds \in Seq(AllDids)
  BY DidIdsAssumption DEF AllDids
<1>2. DidCount \in Nat /\ DOMAIN DidIds = 1 .. DidCount
  BY <1>1, LenProperties DEF DidCount
<1> QED
  BY <1>1, <1>2, DidIdsAssumption, Zenon DEF AllDids, ToSet, IsInjective

\* The rows that are added to an empty table, and the numbers they get.
LEMMA FreshDidTable ==
  /\ AddRows(<<>>, DidIds) = [r \in 1 .. DidCount |-> [did |-> DidIds[r], text |-> value[DidIds[r]]]]
  /\ Len(AddRows(<<>>, DidIds)) = DidCount
  /\ \A r \in 1 .. DidCount : RowNumbers(<<>>, DidIds)[DidIds[r]] = r - 1
<1> DEFINE X == {[did |-> DidIds[r], text |-> value[DidIds[r]]] : r \in 1 .. DidCount}
           f == [r \in 1 .. DidCount |-> [did |-> DidIds[r], text |-> value[DidIds[r]]]]
<1>1. \A r \in 1 .. DidCount : f[r] \in X
  OBVIOUS
<1>2. f = [r \in 1 .. DidCount |-> f[r]] /\ DidCount \in Nat
  BY DidsAreListed
<1>3. AddRows(<<>>, DidIds) = <<>> \o f
  BY DidsAreListed DEF AddRows
<1> HIDE DEF f, X
<1>4. f \in Seq(X) /\ Len(f) = DidCount
  BY <1>1, <1>2, FunctionIsSequence
<1>5. <<>> \o f = f
  BY <1>4, ConcatEmptySeq
<1>6. ASSUME NEW r \in 1 .. DidCount PROVE RowNumbers(<<>>, DidIds)[DidIds[r]] = r - 1
  <2> DEFINE j == CHOOSE k \in DOMAIN DidIds : DidIds[k] = DidIds[r]
  <2>1. j \in 1 .. DidCount /\ DidIds[j] = DidIds[r]
    BY DidsAreListed
  <2>2. j = r
    BY <2>1, DidsAreListed
  <2>3. DidIds[r] \in AllDids /\ DidIds[r] \in ToSet(DidIds)
    BY DidsAreListed DEF AllDids
  <2>4. RowNumbers(<<>>, DidIds)[DidIds[r]] = NumRow(<<>>, j)
    BY <2>3 DEF RowNumbers
  <2> HIDE DEF j
  <2> QED
    BY <2>2, <2>4 DEF NumRow
<1> QED
  BY <1>3, <1>4, <1>5, <1>6 DEF f

\* A set of some of the first numbers has a greatest one.
LEMMA GreatestOfSome ==
  ASSUME NEW n \in Nat, NEW S, S \subseteq 1 .. n, S # {}
  PROVE  Max(S) \in S
<1> DEFINE D == {n - k : k \in S}
<1>1. D \subseteq Nat /\ D # {}
  <2>1. \A k \in S : n - k \in Nat
    OBVIOUS
  <2>2. PICK k \in S : TRUE
    OBVIOUS
  <2>3. n - k \in D
    OBVIOUS
  <2> QED
    BY <2>1, <2>3
<1>2. PICK d \in D : \A e \in D : ~(<<e, d>> \in OpToRel(<, Nat))
  BY <1>1, NatLessThanWellFounded, WFMin, Zenon
<1>3. PICK m \in S : d = n - m
  OBVIOUS
<1>4. ASSUME NEW k \in S PROVE m >= k
  <2>1. n - k \in D /\ n - k \in Nat /\ d \in Nat
    BY <1>1
  <2>2. ~(n - k < d)
    BY <1>2, <2>1 DEF OpToRel
  <2> QED
    BY <1>3, <2>2
<1> QED
  BY <1>4 DEF Max

\* The worker changes values, and announces what it has changed.
LEMMA WorkerKeepsTable == DidGridInv /\ (ChangeValue \/ Announce) => DidGridInv'
<1> SUFFICES ASSUME DidGridInv, ChangeValue \/ Announce PROVE DidGridInv'
  OBVIOUS
<1>1. UNCHANGED <<table, did_to_row, is_dids_initialized, crashed>>
  BY DEF ChangeValue, Announce
<1>2. CASE ChangeValue
  <2>1. PICK d \in AllDids : /\ value' = [value EXCEPT ![d] = changes_made']
                             /\ changed' = changed \cup {d}
    BY <1>2 DEF ChangeValue
  <2>2. UNCHANGED m_UpdatedDids
    BY <1>2 DEF ChangeValue
  <2>3. value' = [e \in AllDids |-> value'[e]] /\ \A e \in AllDids : e # d => value'[e] = value[e]
    BY <2>1 DEF DidGridInv
  <2>4. ASSUME NEW r \in 1 .. DidCount, TextIsRight(r) PROVE TextIsRight(r)'
    <3>1. DidIds[r] \in AllDids
      BY DidsAreListed
    <3> QED
      BY <1>1, <2>1, <2>2, <2>3, <2>4, <3>1 DEF TextIsRight
  <2> QED
    BY <1>1, <2>1, <2>2, <2>3, <2>4 DEF DidGridInv, TableIsTheList
<1>3. CASE Announce
  <2>1. PICK d \in changed : /\ m_UpdatedDids' = Append(m_UpdatedDids, d)
                             /\ changed' = changed \ {d}
    BY <1>3 DEF Announce
  <2>2. UNCHANGED value
    BY <1>3 DEF Announce
  <2>3. d \in AllDids /\ m_UpdatedDids \in Seq(AllDids)
    BY DEF DidGridInv
  <2>4. m_UpdatedDids' \in Seq(AllDids) /\ ToSet(m_UpdatedDids') = ToSet(m_UpdatedDids) \cup {d}
    BY <2>1, <2>3, ElementsAfterAppend
  <2>5. changed \cup ToSet(m_UpdatedDids) = changed' \cup ToSet(m_UpdatedDids')
    BY <2>1, <2>4
  <2>6. ASSUME NEW r \in 1 .. DidCount, TextIsRight(r) PROVE TextIsRight(r)'
    BY <1>1, <2>2, <2>5, <2>6 DEF TextIsRight
  <2> QED
    BY <1>1, <2>1, <2>2, <2>4, <2>6 DEF DidGridInv, TableIsTheList
<1> QED
  BY <1>2, <1>3

\* UpdateDidList makes the table anew.
LEMMA FillingMakesTable == DidGridInv /\ UpdateDidList => DidGridInv'
<1> SUFFICES ASSUME DidGridInv, UpdateDidList PROVE DidGridInv'
  OBVIOUS
<1>1. /\ table' = AddRows(<<>>, DidIds) /\ did_to_row' = RowNumbers(<<>>, DidIds)
      /\ m_UpdatedDids' = DidIds /\ is_dids_initialized /\ ~crashed
      /\ UNCHANGED <<value, changed, is_dids_initialized, crashed>>
  BY DEF UpdateDidList
<1>2. /\ table' = [r \in 1 .. DidCount |-> [did |-> DidIds[r], text |-> value[DidIds[r]]]]
      /\ \A r \in 1 .. DidCount : did_to_row'[DidIds[r]] = r - 1
  BY <1>1, FreshDidTable
<1>3. ASSUME NEW r \in 1 .. DidCount
      PROVE  /\ table'[r] = [did |-> DidIds[r], text |-> value[DidIds[r]]]
             /\ table'[r].text = value[DidIds[r]]
  <2> DEFINE v == value[DidIds[r]]
             row == table'[r]
  <2>1. row = [did |-> DidIds[r], text |-> v]
    BY <1>2
  <2> HIDE DEF v, row
  <2>2. row.text = v
    BY <2>1
  <2> QED
    BY <2>1, <2>2 DEF v, row
<1>4. table' = [r \in 1 .. DidCount |-> [did |-> DidIds[r], text |-> table'[r].text]]
  BY <1>2, <1>3, Zenon
<1>5. TableIsTheList' /\ \A r \in 1 .. DidCount : TextIsRight(r)'
  BY <1>1, <1>2, <1>3, <1>4, Zenon DEF TableIsTheList, TextIsRight
<1> QED
  BY <1>1, <1>5, DidsAreListed DEF DidGridInv

\* Clearing empties the rows and keeps their places.
LEMMA ClearKeepsTable == DidGridInv /\ ClearDids => DidGridInv'
<1> SUFFICES ASSUME DidGridInv, ClearDids PROVE DidGridInv'
  OBVIOUS
<1>1. /\ table' = [i \in DOMAIN table |-> [table[i] EXCEPT !.text = Cleared]]
      /\ UNCHANGED <<value, changed, m_UpdatedDids, did_to_row, is_dids_initialized, crashed>>
  BY DEF ClearDids
<1>2. ASSUME table = <<>> PROVE table' = <<>>
  <2>1. DOMAIN table = {}
    BY <1>2
  <2> QED
    BY <1>1, <1>2, <2>1
<1>3. ASSUME TableIsTheList PROVE TableIsTheList' /\ \A r \in 1 .. DidCount : TextIsRight(r)'
  <2>1. DOMAIN table = 1 .. DidCount
    BY <1>3 DEF TableIsTheList
  <2>2. ASSUME NEW r \in 1 .. DidCount
        PROVE  [table[r] EXCEPT !.text = Cleared] = [did |-> DidIds[r], text |-> Cleared]
    <3> DEFINE row == table[r]
               t   == table[r].text
    <3>1. row = [did |-> DidIds[r], text |-> t]
      BY <1>3, Zenon DEF TableIsTheList
    <3> HIDE DEF row, t
    <3>2. [row EXCEPT !.text = Cleared] = [did |-> DidIds[r], text |-> Cleared]
      BY <3>1
    <3> QED
      BY <3>2 DEF row
  <2>4. table' = [r \in 1 .. DidCount |-> [did |-> DidIds[r], text |-> Cleared]]
    BY <1>1, <2>1, <2>2, Zenon
  <2> QED
    BY <1>1, <1>3, <2>4 DEF TableIsTheList, TextIsRight
<1> QED
  BY <1>1, <1>2, <1>3 DEF DidGridInv

\* What the timer writes it writes into the rows it should.
LEMMA WritingIsRight ==
  ASSUME DidGridInv, NEW tbl, NEW row_of,
         tbl = [r \in 1 .. DidCount |-> [did |-> DidIds[r], text |-> tbl[r].text]],
         \A r \in 1 .. DidCount : row_of[DidIds[r]] = r - 1
  PROVE  LET w == Written(tbl, row_of)
         IN  /\ w = [r \in 1 .. DidCount |-> [did |-> DidIds[r], text |-> w[r].text]]
             /\ \A r \in 1 .. DidCount :
                  w[r].text = IF DidIds[r] \in ToSet(m_UpdatedDids) THEN value[DidIds[r]]
                                                                    ELSE tbl[r].text
<1> DEFINE w == Written(tbl, row_of)
           into(r) == {i \in DOMAIN m_UpdatedDids : row_of[m_UpdatedDids[i]] + 1 = r}
           new(r) == IF into(r) = {} THEN tbl[r]
                     ELSE [tbl[r] EXCEPT !.text = value[m_UpdatedDids[Max(into(r))]]]
<1>1. DOMAIN tbl = 1 .. DidCount
  OBVIOUS
<1>2. w = [r \in 1 .. DidCount |-> new(r)]
  BY <1>1 DEF Written
<1>3. /\ m_UpdatedDids \in Seq(AllDids) /\ Len(m_UpdatedDids) \in Nat
      /\ DOMAIN m_UpdatedDids = 1 .. Len(m_UpdatedDids)
      /\ \A i \in 1 .. Len(m_UpdatedDids) : m_UpdatedDids[i] \in AllDids
  BY LenProperties, ElementOfSeq DEF DidGridInv
<1>4. ASSUME NEW r \in 1 .. DidCount, NEW i \in 1 .. Len(m_UpdatedDids)
      PROVE  i \in into(r) <=> m_UpdatedDids[i] = DidIds[r]
  <2>1. PICK q \in 1 .. DidCount : m_UpdatedDids[i] = DidIds[q]
    BY <1>3, DidsAreListed
  <2>2. row_of[m_UpdatedDids[i]] + 1 = q
    BY <2>1, DidsAreListed
  <2> QED
    BY <1>3, <2>1, <2>2, DidsAreListed
<1>5. ASSUME NEW r \in 1 .. DidCount
      PROVE  new(r) = [did |-> DidIds[r],
                       text |-> IF DidIds[r] \in ToSet(m_UpdatedDids) THEN value[DidIds[r]]
                                                                      ELSE tbl[r].text]
  <2> DEFINE S == into(r)
  <2>1. S \subseteq 1 .. Len(m_UpdatedDids)
    BY <1>3
  <2>2. \A i \in 1 .. Len(m_UpdatedDids) : i \in S <=> m_UpdatedDids[i] = DidIds[r]
    BY <1>4
  <2>3. new(r) = IF S = {} THEN tbl[r] ELSE [tbl[r] EXCEPT !.text = value[m_UpdatedDids[Max(S)]]]
    OBVIOUS
  <2>4. tbl[r] = [did |-> DidIds[r], text |-> tbl[r].text]
    BY Zenon
  <2>5. DidIds[r] \in ToSet(m_UpdatedDids) <=> \E i \in 1 .. Len(m_UpdatedDids) : m_UpdatedDids[i] = DidIds[r]
    BY <1>3, Zenon DEF ToSet
  <2> HIDE DEF S, into, new
  <2>6. CASE S = {}
    <3>1. DidIds[r] \notin ToSet(m_UpdatedDids)
      BY <2>2, <2>5, <2>6
    <3> QED
      BY <2>3, <2>4, <2>6, <3>1, Zenon
  <2>7. CASE S # {}
    <3>1. Max(S) \in S
      BY <1>3, <2>1, <2>7, GreatestOfSome
    <3>2. m_UpdatedDids[Max(S)] = DidIds[r] /\ DidIds[r] \in ToSet(m_UpdatedDids)
      BY <2>1, <2>2, <2>5, <3>1
    <3>3. [tbl[r] EXCEPT !.text = value[DidIds[r]]] = [did |-> DidIds[r], text |-> value[DidIds[r]]]
      BY <2>4
    <3> QED
      BY <2>3, <2>7, <3>2, <3>3, Zenon
  <2> QED
    BY <2>6, <2>7
<1> HIDE DEF w, new, into
<1>6. \A r \in 1 .. DidCount :
        w[r] = [did |-> DidIds[r],
                text |-> IF DidIds[r] \in ToSet(m_UpdatedDids) THEN value[DidIds[r]] ELSE tbl[r].text]
  BY <1>2, <1>5, Zenon
<1>7. ASSUME NEW r \in 1 .. DidCount
      PROVE  /\ w[r].text = IF DidIds[r] \in ToSet(m_UpdatedDids) THEN value[DidIds[r]] ELSE tbl[r].text
             /\ w[r] = [did |-> DidIds[r], text |-> w[r].text]
  <2> DEFINE t == IF DidIds[r] \in ToSet(m_UpdatedDids) THEN value[DidIds[r]] ELSE tbl[r].text
             x == w[r]
  <2>1. x = [did |-> DidIds[r], text |-> t]
    BY <1>6, Zenon
  <2> HIDE DEF t, x
  <2>2. x.text = t /\ x = [did |-> DidIds[r], text |-> x.text]
    BY <2>1
  <2> QED
    BY <2>2, Zenon DEF t, x
<1>8. w = [r \in 1 .. DidCount |-> [did |-> DidIds[r], text |-> w[r].text]]
  <2>1. w = [r \in 1 .. DidCount |-> w[r]]
    BY <1>2
  <2> QED
    BY <1>7, <2>1, Zenon
<1> QED
  BY <1>7, <1>8, Zenon DEF w

\* The timer adds the rows once, then writes the updated ones.
LEMMA TimerKeepsTable == DidGridInv /\ On100msTimer => DidGridInv'
<1> SUFFICES ASSUME DidGridInv, On100msTimer PROVE DidGridInv'
  OBVIOUS
<1> DEFINE added  == IF is_dids_initialized THEN <<>> ELSE DidIds
           tbl   == AddRows(table, added)
           row_of == RowNumbers(table, added)
<1>1. /\ did_to_row' = row_of /\ table' = Written(tbl, row_of)
      /\ crashed' = \E i \in DOMAIN m_UpdatedDids : row_of[m_UpdatedDids[i]] >= Len(tbl)
      /\ is_dids_initialized' /\ m_UpdatedDids' = <<>>
      /\ UNCHANGED <<value, changed>>
  BY DEF On100msTimer
<1>2. /\ m_UpdatedDids' \in Seq(AllDids) /\ changed' \subseteq AllDids
      /\ value' = [d \in AllDids |-> value'[d]]
  BY <1>1 DEF DidGridInv
<1>3. ~crashed' /\ TableIsTheList' /\ \A r \in 1 .. DidCount : TextIsRight(r)'
  <2>1. /\ tbl = [r \in 1 .. DidCount |-> [did |-> DidIds[r], text |-> tbl[r].text]]
        /\ Len(tbl) = DidCount
        /\ \A r \in 1 .. DidCount : row_of[DidIds[r]] = r - 1
        /\ \A r \in 1 .. DidCount :
             tbl[r].text \in {value[DidIds[r]], Cleared} \/ DidIds[r] \in changed \cup ToSet(m_UpdatedDids)
    <3>1. CASE ~is_dids_initialized
      <4>1. tbl = AddRows(<<>>, DidIds) /\ row_of = RowNumbers(<<>>, DidIds)
        BY <3>1 DEF DidGridInv
      <4> HIDE DEF tbl, row_of
      <4>2. tbl = [r \in 1 .. DidCount |-> [did |-> DidIds[r], text |-> value[DidIds[r]]]]
        BY <4>1, FreshDidTable
      <4> QED
        BY <4>1, <4>2, FreshDidTable
    <3>2. CASE is_dids_initialized
      <4>1. TableIsTheList /\ \A r \in 1 .. DidCount : TextIsRight(r)
        BY <1>1, <1>3, <3>2 DEF DidGridInv
      <4> DEFINE X == {table[r] : r \in 1 .. DidCount}
      <4>2. table = [r \in 1 .. DidCount |-> table[r]] /\ \A r \in 1 .. DidCount : table[r] \in X
        BY <4>1 DEF TableIsTheList
      <4>3. DidCount \in Nat
        BY DidsAreListed
      <4> HIDE DEF X
      <4>4. table \in Seq(X) /\ Len(table) = DidCount
        BY <4>2, <4>3, FunctionIsSequence
      <4>5. tbl = table
        <5>1. tbl = AddRows(table, <<>>)
          BY <3>2
        <5>2. [k \in DOMAIN <<>> |-> [did |-> <<>>[k], text |-> value[<<>>[k]]]] = <<>>
          OBVIOUS
        <5> HIDE DEF tbl
        <5>3. tbl = table \o <<>>
          BY <5>1, <5>2, Zenon DEF AddRows
        <5> QED
          BY <4>4, <5>3, ConcatEmptySeq
      <4>6. row_of = [d \in AllDids |-> did_to_row[d]]
        <5>1. added = <<>> /\ ToSet(<<>>) = {}
          BY <3>2 DEF ToSet
        <5> QED
          BY <5>1 DEF RowNumbers
      <4> HIDE DEF tbl, row_of
      <4>7. \A r \in 1 .. DidCount : row_of[DidIds[r]] = r - 1
        BY <4>1, <4>6, DidsAreListed DEF TableIsTheList
      <4> QED
        BY <4>1, <4>4, <4>5, <4>7, Zenon DEF TableIsTheList, TextIsRight
    <3> QED
      BY <3>1, <3>2
  <2> HIDE DEF tbl, row_of
  <2>2. /\ table' = [r \in 1 .. DidCount |-> [did |-> DidIds[r], text |-> table'[r].text]]
        /\ \A r \in 1 .. DidCount :
             table'[r].text = IF DidIds[r] \in ToSet(m_UpdatedDids) THEN value[DidIds[r]] ELSE tbl[r].text
    <3>1. /\ tbl = [r \in 1 .. DidCount |-> [did |-> DidIds[r], text |-> tbl[r].text]]
          /\ \A r \in 1 .. DidCount : row_of[DidIds[r]] = r - 1
      BY <2>1, Zenon
    <3>2. table' = Written(tbl, row_of)
      BY <1>1
    <3>3. LET w == Written(tbl, row_of)
          IN  /\ w = [r \in 1 .. DidCount |-> [did |-> DidIds[r], text |-> w[r].text]]
              /\ \A r \in 1 .. DidCount :
                   w[r].text = IF DidIds[r] \in ToSet(m_UpdatedDids) THEN value[DidIds[r]]
                                                                     ELSE tbl[r].text
      BY <3>1, WritingIsRight
    <3> QED
      BY <3>2, <3>3, Zenon
  <2>3. ~crashed'
    <3> SUFFICES ASSUME NEW i \in DOMAIN m_UpdatedDids PROVE ~(row_of[m_UpdatedDids[i]] >= Len(tbl))
      BY <1>1
    <3>1. m_UpdatedDids[i] \in AllDids
      BY LenProperties, ElementOfSeq DEF DidGridInv
    <3>2. PICK r \in 1 .. DidCount : m_UpdatedDids[i] = DidIds[r]
      BY <3>1, DidsAreListed
    <3>3. row_of[m_UpdatedDids[i]] = r - 1 /\ DidCount \in Nat
      BY <2>1, <3>2, DidsAreListed
    <3> QED
      BY <2>1, <3>3
  <2>4. TableIsTheList'
    BY <1>1, <2>1, <2>2 DEF TableIsTheList
  <2>5. ASSUME NEW r \in 1 .. DidCount PROVE TextIsRight(r)'
    <3>1. table'[r].text = IF DidIds[r] \in ToSet(m_UpdatedDids) THEN value[DidIds[r]] ELSE tbl[r].text
      BY <2>2
    <3>2. tbl[r].text \in {value[DidIds[r]], Cleared} \/ DidIds[r] \in changed \cup ToSet(m_UpdatedDids)
      BY <2>1
    <3> QED
      BY <1>1, <3>1, <3>2 DEF TextIsRight
  <2> QED
    BY <2>3, <2>4, <2>5
<1> QED
  BY <1>1, <1>2, <1>3 DEF DidGridInv

\* For any DIDs, changes and clears: each DID has its row, and its text is its value, cleared, or
\* still to be announced or shown.
THEOREM DidsAreInTheirRows == DidGridSpec => []RowsShowTheirDids
<1>1. DidGridInit => DidGridInv
  BY DEF DidGridInit, DidGridInv
<1>2. DidGridInv /\ UNCHANGED didGridVars => DidGridInv'
  BY DEF DidGridInv, TableIsTheList, TextIsRight, didGridVars
<1>3. DidGridInv /\ [DidGridNext]_didGridVars => DidGridInv'
  BY <1>2, WorkerKeepsTable, FillingMakesTable, ClearKeepsTable, TimerKeepsTable DEF DidGridNext
<1>4. DidGridInv => RowsShowTheirDids
  <2> SUFFICES ASSUME DidGridInv, is_dids_initialized
               PROVE  /\ ~crashed /\ Len(table) = Len(DidIds)
                      /\ \A d \in AllDids :
                           LET row == table[did_to_row[d] + 1]
                           IN  row.did = d /\ (row.text \in {value[d], Cleared}
                                                \/ d \in changed \cup ToSet(m_UpdatedDids))
    BY DEF RowsShowTheirDids
  <2>1. ~crashed /\ TableIsTheList /\ \A r \in 1 .. DidCount : TextIsRight(r)
    BY DEF DidGridInv
  <2> DEFINE X == {table[r] : r \in 1 .. DidCount}
  <2>2. table = [r \in 1 .. DidCount |-> table[r]] /\ \A r \in 1 .. DidCount : table[r] \in X
    BY <2>1 DEF TableIsTheList
  <2>3. DidCount \in Nat
    BY DidsAreListed
  <2> HIDE DEF X
  <2>4. Len(table) = DidCount
    BY <2>2, <2>3, FunctionIsSequence
  <2>5. ASSUME NEW d \in AllDids
        PROVE  LET row == table[did_to_row[d] + 1]
               IN  row.did = d /\ (row.text \in {value[d], Cleared} \/ d \in changed \cup ToSet(m_UpdatedDids))
    <3>1. PICK r \in 1 .. DidCount : d = DidIds[r]
      BY DidsAreListed
    <3>2. did_to_row[d] + 1 = r
      BY <2>1, <3>1 DEF TableIsTheList
    <3>3. table[r] = [did |-> DidIds[r], text |-> table[r].text]
      BY <2>1, Zenon DEF TableIsTheList
    <3>4. table[r].did = d
      BY <3>1, <3>3
    <3> QED
      BY <2>1, <3>1, <3>2, <3>4 DEF TextIsRight
  <2> QED
    BY <2>1, <2>4, <2>5 DEF DidCount
<1> QED
  BY <1>1, <1>3, <1>4, PTL DEF DidGridSpec
=============================================================================
