---------------------------- MODULE DesktopProofs ----------------------------
(***************************************************************************)
(* The desktop services, for any values of their constants.  They share no *)
(* state; each section has the invariant and the theorem of one.           *)
(***************************************************************************)
EXTENDS Coins, KeyInput, Lifecycle, LogFile, DirectoryBackup, AntiLock, Sha256, Screenshot,
        Settings, MapConverter, SequenceFacts, FiniteSetTheorems, TLAPS

-----------------------------------------------------------------------------
(* Coins: the web is never asked three times within a period.              *)

Places == {"none", "begin", "store", "end", "ready"}

CoinTypes ==
  /\ clock \in Nat /\ last_update \in Nat /\ last_update <= clock
  /\ crypto_price_update \in {0, Period}
  /\ m_api_future \in Places
  /\ timer \in {"idle", "update", "start", "show"}
  /\ reads \in Seq(Nat)

\* The reads up to the n-th began more than a period ago.
LongAgo(n) == \A i \in DOMAIN reads : i <= n => clock - reads[i] > Period

\* The reads that have ended.
EndedReads == IF m_api_future \in {"store", "end"} THEN Len(reads) - 1 ELSE Len(reads)

\* A read that has ended is not younger than last_update.
EndedInv == \A i \in DOMAIN reads : reads[i] <= clock /\ (i <= EndedReads => reads[i] <= last_update)

\* The timer that was told that the period is over may start a read much later: but for one
\* read, that was under way when the timer looked, those it knew of are a period old.
PaceInv ==
  /\ timer = "start" => LongAgo(IF m_api_future = "begin" THEN Len(reads) ELSE Len(reads) - 1)
  /\ m_api_future = "begin" => LongAgo(Len(reads) - 1)

CoinInv == CoinTypes /\ EndedInv /\ PaceInv /\ ReadsArePaced

-----------------------------------------------------------------------------
\* What a sequence of reads is made of, and what a new read makes of it.
LEMMA ReadsAreTimes ==
  ASSUME NEW q \in Seq(Nat)
  PROVE  Len(q) \in Nat /\ DOMAIN q = 1 .. Len(q) /\ \A i \in DOMAIN q : q[i] \in Nat
  BY LenProperties, ElementOfSeq

\* A further read leaves those before it in their places.
LEMMA ReadAppended ==
  ASSUME NEW q \in Seq(Nat), NEW t \in Nat
  PROVE  /\ Append(q, t) \in Seq(Nat)
         /\ Len(Append(q, t)) = Len(q) + 1
         /\ Append(q, t)[Len(q) + 1] = t
         /\ \A i \in 1 .. Len(q) : Append(q, t)[i] = q[i]
  BY AppendProperties

\* In the beginning nothing was read.
LEMMA NoReadYet ==
  ASSUME Period \in Nat, CoinInit
  PROVE  CoinInv
<1>1. reads \in Seq(Nat) /\ DOMAIN reads = {}
  BY DEF CoinInit
<1>2. CoinTypes
  BY <1>1 DEF CoinInit, CoinTypes, Places
<1> QED
  BY <1>1, <1>2 DEF CoinInit, CoinInv, EndedInv, PaceInv, ReadsArePaced

\* Time goes by.
LEMMA TimePasses ==
  ASSUME Period \in Nat, CoinInv, ClockTick
  PROVE  CoinInv'
<1>1. clock' = clock + 1 /\ UNCHANGED <<reads, last_update, crypto_price_update, m_api_future, timer>>
  BY DEF ClockTick, gui, async
<1>2. CoinTypes'
  BY <1>1 DEF CoinInv, CoinTypes
<1>3. clock \in Nat /\ \A i \in DOMAIN reads : reads[i] \in Nat
  BY ReadsAreTimes DEF CoinInv, CoinTypes
<1>4. EndedInv'
  BY <1>1, <1>3 DEF CoinInv, EndedInv, EndedReads
<1>5. PaceInv'
  BY <1>1, <1>3 DEF CoinInv, PaceInv, LongAgo
<1> QED
  BY <1>1, <1>2, <1>4, <1>5 DEF CoinInv, ReadsArePaced

\* Steps that touch neither the reads nor the place of the read that is under way, and do
\* not bring the timer to the start of one.
LEMMA ReadsStay ==
  ASSUME Period \in Nat, CoinInv, CoinTypes',
         UNCHANGED <<clock, reads, m_api_future>>,
         last_update' = last_update \/ last_update' = clock,
         timer' = "start" => timer = "start"
  PROVE  CoinInv'
<1>1. clock \in Nat /\ \A i \in DOMAIN reads : reads[i] \in Nat
  BY ReadsAreTimes DEF CoinInv, CoinTypes
<1>2. EndedInv'
  BY <1>1 DEF CoinInv, EndedInv, EndedReads
<1>3. PaceInv'
  BY DEF CoinInv, PaceInv, LongAgo
<1> QED
  BY <1>2, <1>3 DEF CoinInv, ReadsArePaced

\* The setting, the prices that are shown, and those that are stored.
LEMMA OthersKeepPace ==
  ASSUME Period \in Nat, CoinInv, ChangeSetting \/ ReadPrices \/ ShowPrices \/ ExtractAmount
  PROVE  CoinInv'
<1>1. CASE ChangeSetting
  <2>1. CoinTypes'
    BY <1>1 DEF CoinInv, CoinTypes, ChangeSetting, gui, async
  <2> QED
    BY <1>1, <2>1, ReadsStay DEF ChangeSetting, gui, async
<1>2. CASE ReadPrices \/ ShowPrices
  <2>1. CoinTypes'
    BY <1>2 DEF CoinInv, CoinTypes, ReadPrices, ShowPrices, async
  <2> QED
    BY <1>2, <2>1, ReadsStay DEF ReadPrices, ShowPrices, async
<1>3. CASE ExtractAmount
  <2>1. CoinTypes'
    BY <1>3 DEF CoinInv, CoinTypes, ExtractAmount, gui
  <2> QED
    BY <1>3, <2>1, ReadsStay DEF ExtractAmount, gui
<1> QED
  BY <1>1, <1>2, <1>3

\* The look of UpdatePrices: whatever has ended is older than a period when it starts a read.
LEMMA LookKeepsPace ==
  ASSUME Period \in Nat, CoinInv, UpdatePrices
  PROVE  CoinInv'
<1>1. UNCHANGED <<clock, crypto_price_update, reads, m_api_future>>
  BY DEF UpdatePrices, async
<1>2. CASE timer' # "start"
  <2>1. CoinTypes'
    BY <1>1, <1>2 DEF CoinInv, CoinTypes, UpdatePrices
  <2> QED
    BY <1>1, <1>2, <2>1, ReadsStay DEF UpdatePrices
<1>3. CASE timer' = "start"
  <2>1. UNCHANGED last_update /\ PeriodIsOver /\ crypto_price_update = Period
    BY <1>3 DEF UpdatePrices, CoinInv, CoinTypes
  <2>2. CoinTypes'
    BY <1>1, <1>3, <2>1 DEF CoinInv, CoinTypes
  <2>3. EndedInv'
    BY <1>1, <2>1 DEF CoinInv, EndedInv, EndedReads
  <2>4. ASSUME NEW i \in DOMAIN reads, i <= EndedReads PROVE clock - reads[i] > Period
    <3>1. reads[i] \in Nat /\ reads[i] <= last_update
      BY <2>4, ReadsAreTimes DEF CoinInv, CoinTypes, EndedInv
    <3>2. clock \in Nat /\ last_update \in Nat /\ clock - last_update > Period
      BY <2>1 DEF CoinInv, CoinTypes, PeriodIsOver
    <3> QED
      BY <3>1, <3>2
  <2>5. LongAgo(IF m_api_future = "begin" THEN Len(reads) ELSE Len(reads) - 1)
    <3>1. Len(reads) \in Nat /\ DOMAIN reads = 1 .. Len(reads)
      BY ReadsAreTimes DEF CoinInv, CoinTypes
    <3> QED
      BY <2>4, <3>1 DEF LongAgo, EndedReads
  <2>6. PaceInv'
    BY <1>1, <2>5 DEF CoinInv, PaceInv, LongAgo
  <2> QED
    BY <1>1, <2>2, <2>3, <2>6 DEF CoinInv, ReadsArePaced
<1> QED
  BY <1>2, <1>3

\* StartRead hands over what the look has found.
LEMMA StartKeepsPace ==
  ASSUME Period \in Nat, CoinInv, StartRead
  PROVE  CoinInv'
<1>1. /\ timer = "start" /\ timer' = "show"
      /\ m_api_future' = IF m_api_future \in {"none", "ready"} THEN "begin" ELSE m_api_future
      /\ UNCHANGED <<clock, crypto_price_update, last_update, reads>>
  BY DEF StartRead
<1>2. CoinTypes'
  BY <1>1 DEF CoinInv, CoinTypes, Places
<1>3. EndedInv'
  BY <1>1 DEF CoinInv, EndedInv, EndedReads
<1>4. LongAgo(Len(reads) - 1)
  <2>1. Len(reads) \in Nat /\ DOMAIN reads = 1 .. Len(reads)
    BY ReadsAreTimes DEF CoinInv, CoinTypes
  <2> QED
    BY <1>1, <2>1 DEF CoinInv, PaceInv, LongAgo
<1>5. PaceInv'
  BY <1>1, <1>4 DEF PaceInv, LongAgo
<1> QED
  BY <1>1, <1>2, <1>3, <1>5 DEF CoinInv, ReadsArePaced

\* A read that begins is more than a period younger than the last but one.
LEMMA BeginKeepsPace ==
  ASSUME Period \in Nat, CoinInv, BeginRead
  PROVE  CoinInv'
<1>1. m_api_future = "begin" /\ UNCHANGED <<clock, crypto_price_update, last_update, timer>>
  BY DEF BeginRead, gui
<1>2. Len(reads) \in Nat /\ DOMAIN reads = 1 .. Len(reads) /\ clock \in Nat
      /\ \A i \in DOMAIN reads : reads[i] \in Nat
  BY ReadsAreTimes DEF CoinInv, CoinTypes
<1>3. CASE m_api_future' = "ready" /\ UNCHANGED reads
  <2>1. CoinTypes'
    BY <1>1, <1>3 DEF CoinInv, CoinTypes, Places
  <2>2. EndedInv'
    BY <1>1, <1>3 DEF CoinInv, EndedInv, EndedReads
  <2>3. PaceInv'
    BY <1>1, <1>2, <1>3 DEF CoinInv, PaceInv, LongAgo
  <2> QED
    BY <1>3, <2>1, <2>2, <2>3 DEF CoinInv, ReadsArePaced
<1>4. CASE m_api_future' = "store" /\ reads' = Append(reads, clock)
  <2>1. /\ reads' \in Seq(Nat) /\ Len(reads') = Len(reads) + 1
        /\ reads'[Len(reads) + 1] = clock
        /\ \A i \in 1 .. Len(reads) : reads'[i] = reads[i]
    BY <1>2, <1>4, ReadAppended DEF CoinInv, CoinTypes
  <2>2. DOMAIN reads' = 1 .. Len(reads) + 1
    BY <2>1, ReadsAreTimes
  <2>3. CoinTypes'
    BY <1>1, <1>4, <2>1 DEF CoinInv, CoinTypes, Places
  <2>4. EndedInv'
    <3>1. EndedReads' = Len(reads) /\ EndedReads = Len(reads)
      BY <1>1, <1>2, <1>4, <2>1 DEF EndedReads
    <3> QED
      BY <1>1, <1>2, <2>1, <2>2, <3>1 DEF CoinInv, EndedInv
  <2>5. PaceInv'
    <3>1. timer = "start" => \A i \in 1 .. Len(reads) : clock - reads[i] > Period
      BY <1>1, <1>2 DEF CoinInv, PaceInv, LongAgo
    <3> QED
      BY <1>1, <1>2, <1>4, <2>1, <2>2, <3>1 DEF PaceInv, LongAgo
  <2>6. ReadsArePaced'
    <3>1. ASSUME NEW i \in 1 .. Len(reads) + 1, i + 2 \in 1 .. Len(reads) + 1
          PROVE  reads'[i + 2] - reads'[i] > Period
      <4>1. CASE i + 2 <= Len(reads)
        <5>1. i \in DOMAIN reads /\ i + 2 \in DOMAIN reads
          BY <1>2, <4>1
        <5>2. reads[i + 2] - reads[i] > Period
          BY <5>1 DEF CoinInv, ReadsArePaced
        <5> QED
          BY <1>2, <2>1, <5>1, <5>2
      <4>2. CASE i + 2 = Len(reads) + 1
        <5>1. i \in DOMAIN reads /\ i <= Len(reads) - 1
          BY <1>2, <4>2
        <5>2. clock - reads[i] > Period
          BY <1>1, <5>1 DEF CoinInv, PaceInv, LongAgo
        <5> QED
          BY <1>2, <2>1, <4>2, <5>1, <5>2
      <4> QED
        BY <1>2, <3>1, <4>1, <4>2
    <3> QED
      BY <2>2, <3>1 DEF ReadsArePaced
  <2> QED
    BY <2>3, <2>4, <2>5, <2>6 DEF CoinInv
<1> QED
  BY <1>3, <1>4 DEF BeginRead

\* A read that ends, or is about to, is no new one.
LEMMA EndKeepsPace ==
  ASSUME Period \in Nat, CoinInv, Announce \/ PriceReadFails \/ EndRead
  PROVE  CoinInv'
<1>1. UNCHANGED <<clock, crypto_price_update, reads, timer>>
  BY DEF Announce, PriceReadFails, EndRead, gui
<1>2. \/ m_api_future = "store" /\ m_api_future' = "end" /\ UNCHANGED last_update
      \/ m_api_future = "end" /\ m_api_future' = "ready" /\ last_update' = clock
  BY DEF Announce, PriceReadFails, EndRead
<1>3. CoinTypes'
  BY <1>1, <1>2 DEF CoinInv, CoinTypes, Places
<1>4. clock \in Nat /\ \A i \in DOMAIN reads : reads[i] \in Nat
  BY ReadsAreTimes DEF CoinInv, CoinTypes
<1>5. EndedInv'
  BY <1>1, <1>2, <1>4 DEF CoinInv, EndedInv, EndedReads
<1>6. PaceInv'
  BY <1>1, <1>2 DEF CoinInv, PaceInv, LongAgo
<1> QED
  BY <1>1, <1>3, <1>5, <1>6 DEF CoinInv, ReadsArePaced

-----------------------------------------------------------------------------
\* The web is never asked three times within a period, for any period: also when the end of
\* one read comes between the look at last_update and the start of another.
THEOREM NeverThreeReads ==
  ASSUME Period \in Nat
  PROVE  CoinSpec => []ReadsArePaced
<1>1. CoinInit => CoinInv
  BY NoReadYet
<1>2. CoinInv /\ [CoinNext]_coinVars => CoinInv'
  <2>1. CoinInv /\ UNCHANGED coinVars => CoinInv'
    BY DEF CoinInv, CoinTypes, EndedInv, EndedReads, PaceInv, LongAgo, ReadsArePaced, coinVars, gui, async
  <2> QED
    BY <2>1, TimePasses, OthersKeepPace, LookKeepsPace, StartKeepsPace, BeginKeepsPace, EndKeepsPace
       DEF CoinNext, UpdateCoins, ExecuteApiRead
<1>3. CoinInv => ReadsArePaced
  BY DEF CoinInv
<1> QED
  BY <1>1, <1>2, <1>3, PTL DEF CoinSpec

-----------------------------------------------------------------------------
(* KeyInput: a key is executed once or is lost, whichever of its ways it   *)
(* takes.                                                                  *)

Elements(q) == {q[i] : i \in DOMAIN q}
Distinct(q) == \A i, j \in DOMAIN q : q[i] = q[j] => i = j

\* Each key is in one place of its way at a time: in one sequence, once.
PlacesInv ==
  /\ wire \in Seq(Keys) /\ reports \in Seq(Keys)
  /\ Distinct(wire) /\ Distinct(reports)
  /\ callback = <<>> \/ \E k \in Keys : callback = <<k>>
  /\ link \subseteq Keys
  /\ Elements(wire) \cap (Elements(callback) \cup link) = {}
  /\ Elements(callback) \cap link = {}
  /\ Elements(reports) \cap (Elements(wire) \cup Elements(callback) \cup link) = {}

\* A key that was pressed is under way, lost, or executed once; no other is executed.
AccountInv ==
  /\ pressed \subseteq Keys
  /\ UnderWay \subseteq pressed /\ lost \subseteq pressed
  /\ UnderWay \cap lost = {}
  /\ executed \in [Keys -> {0, 1}]
  /\ \A k \in Keys : executed[k] = 1 <=> k \in pressed \ (UnderWay \cup lost)

KeyInv == PlacesInv /\ AccountInv

-----------------------------------------------------------------------------
(* Sequences without duplicates.                                           *)

\* The keys under way are those of the queues.
LEMMA UnderWayIsElements ==
  /\ UnderWay = Elements(wire) \cup Elements(callback) \cup link \cup Elements(reports)
  /\ UnderWay' = Elements(wire') \cup Elements(callback') \cup link' \cup Elements(reports')
  BY DEF UnderWay, Elements

\* Appending a key that is not there.
LEMMA AppendDistinct ==
  ASSUME NEW S, NEW q \in Seq(S), NEW e \in S, Distinct(q), e \notin Elements(q)
  PROVE  /\ Append(q, e) \in Seq(S)
         /\ Elements(Append(q, e)) = Elements(q) \cup {e}
         /\ Distinct(Append(q, e))
  BY DEF Elements, Distinct

\* Taking the first key away.
LEMMA TailDistinct ==
  ASSUME NEW S, NEW q \in Seq(S), q # <<>>, Distinct(q)
  PROVE  /\ Tail(q) \in Seq(S) /\ Head(q) \in S
         /\ Head(q) \in Elements(q)
         /\ Elements(Tail(q)) = Elements(q) \ {Head(q)}
         /\ Distinct(Tail(q))
<1>1. Tail(q) \in Seq(S) /\ Len(Tail(q)) = Len(q) - 1 /\ Len(q) \in Nat \ {0}
  OBVIOUS
<1>2. DOMAIN q = 1 .. Len(q) /\ DOMAIN Tail(q) = 1 .. Len(q) - 1
  BY <1>1
<1>3. \A i \in 1 .. Len(q) - 1 : Tail(q)[i] = q[i + 1]
  BY <1>1
<1>4. Head(q) = q[1] /\ 1 \in DOMAIN q /\ Head(q) \in S
  BY <1>1, <1>2
<1>5. Distinct(Tail(q))
  BY <1>1, <1>2, <1>3 DEF Distinct
<1>6. ASSUME NEW k \in Elements(Tail(q)) PROVE k \in Elements(q) /\ k # Head(q)
  BY <1>1, <1>2, <1>3, <1>4 DEF Elements, Distinct
<1>7. ASSUME NEW k \in Elements(q), k # Head(q) PROVE k \in Elements(Tail(q))
  <2>1. PICK i \in 1 .. Len(q) : k = q[i]
    BY <1>2 DEF Elements
  <2>2. i - 1 \in 1 .. Len(q) - 1 /\ q[(i - 1) + 1] = k
    BY <1>1, <1>4, <1>7, <2>1
  <2> QED
    BY <1>2, <1>3, <2>2 DEF Elements
<1> QED
  BY <1>1, <1>4, <1>5, <1>6, <1>7 DEF Elements

\* The elements of the short sequences that the steps build.
LEMMA ElementsOfFew ==
  /\ Elements(<<>>) = {}
  /\ Distinct(<<>>)
  /\ \A k : Elements(<<k>>) = {k}
  BY DEF Elements, Distinct

-----------------------------------------------------------------------------
(* What a step may do to a key.                                            *)

\* The keys move along, or nothing happens to them.
LEMMA KeysMove ==
  ASSUME AccountInv, UNCHANGED keys, UnderWay' = UnderWay
  PROVE  AccountInv'
  BY DEF AccountInv, keys

\* A key is pressed, and is under way or lost.
LEMMA KeyPressed ==
  ASSUME AccountInv, NEW k \in Keys, k \notin pressed, pressed' = pressed \cup {k},
         UNCHANGED executed,
         \/ UnderWay' = UnderWay \cup {k} /\ UNCHANGED lost
         \/ UnderWay' = UnderWay /\ Lose({k})
  PROVE  AccountInv'
  BY DEF AccountInv, Lose

\* A key that was under way is executed.
LEMMA KeyExecuted ==
  ASSUME AccountInv, NEW k \in UnderWay, Execute(k), UnderWay' = UnderWay \ {k},
         UNCHANGED <<pressed, lost>>
  PROVE  AccountInv'
<1>1. k \in Keys /\ executed[k] = 0
  BY DEF AccountInv
<1>2. executed' \in [Keys -> {0, 1}]
  BY <1>1 DEF AccountInv, Execute
<1>3. \A j \in Keys : executed'[j] = IF j = k THEN 1 ELSE executed[j]
  BY <1>1 DEF AccountInv, Execute
<1> QED
  BY <1>1, <1>2, <1>3 DEF AccountInv

\* Keys that were under way are lost.
LEMMA KeysLost ==
  ASSUME AccountInv, NEW ks \in SUBSET UnderWay, Lose(ks), UnderWay' = UnderWay \ ks,
         UNCHANGED <<pressed, executed>>
  PROVE  AccountInv'
  BY DEF AccountInv, Lose
-----------------------------------------------------------------------------
(* The steps.                                                              *)

\* A step that leaves the places of the keys alone.
LEMMA PlacesStay ==
  ASSUME PlacesInv, UNCHANGED <<data, reports>>
  PROVE  PlacesInv' /\ UnderWay' = UnderWay
  BY UnderWayIsElements DEF PlacesInv, data

\* The threads, the focus and the clock touch no key.
LEMMA OthersKeepKeys ==
  ASSUME KeyInv,
         \/ StartPort \/ SetEnabled \/ DestroyWorkerThread \/ Join \/ OpenPort
         \/ SleepAfterError \/ Focus \/ ExecuteInitSequence \/ Tick
  PROVE  KeyInv'
<1>1. UNCHANGED <<data, reports, keys>>
  <2>1. CASE StartPort \/ SetEnabled \/ DestroyWorkerThread \/ Join \/ Focus
    BY <2>1 DEF StartPort, SetEnabled, DestroyWorkerThread, Join, Focus, hidVars
  <2>2. CASE OpenPort \/ SleepAfterError
    BY <2>2 DEF OpenPort, SleepAfterError, PortSame, hidVars, data
  <2>3. CASE ExecuteInitSequence \/ Tick
    BY <2>3 DEF ExecuteInitSequence, Tick, HidSame, serialVars
  <2> QED
    BY <2>1, <2>2, <2>3
<1> QED
  BY <1>1, PlacesStay, KeysMove DEF KeyInv

\* A key of the serial keyboard goes to the open port, or is lost.
LEMMA SerialKeyPressed == KeyInv /\ PressKey => KeyInv'
<1> SUFFICES ASSUME KeyInv, PressKey PROVE KeyInv'
  OBVIOUS
<1>1. PICK k \in SerialKeys \ pressed :
        /\ pressed' = pressed \cup {k}
        /\ IF m_worker = "open" THEN wire' = Append(wire, k) /\ UNCHANGED lost
                                ELSE Lose({k}) /\ UNCHANGED wire
  BY DEF PressKey
<1>2. k \in Keys /\ k \notin pressed /\ k \notin UnderWay
  BY DEF Keys, KeyInv, AccountInv
<1>3. UNCHANGED <<callback, link, reports, executed>>
  BY DEF PressKey, PortSame, hidVars
<1>4. CASE m_worker = "open"
  <2>1. /\ wire' \in Seq(Keys) /\ Distinct(wire')
        /\ Elements(wire') = Elements(wire) \cup {k}
    <3>1. wire \in Seq(Keys) /\ Distinct(wire) /\ wire' = Append(wire, k)
      BY <1>1, <1>4 DEF KeyInv, PlacesInv
    <3>2. k \notin Elements(wire)
      BY <1>2, UnderWayIsElements
    <3> QED
      BY <1>2, <3>1, <3>2, AppendDistinct
  <2>2. UnderWay' = UnderWay \cup {k} /\ UNCHANGED lost
    BY <1>1, <1>3, <1>4, <2>1, UnderWayIsElements
  <2>3. PlacesInv'
    BY <1>2, <1>3, <2>1, UnderWayIsElements DEF KeyInv, PlacesInv
  <2> QED
    BY <1>1, <1>2, <1>3, <2>2, <2>3, KeyPressed DEF KeyInv
<1>5. CASE m_worker # "open"
  <2>1. UNCHANGED <<data, reports>> /\ Lose({k})
    BY <1>1, <1>3, <1>5 DEF data
  <2> QED
    BY <1>1, <1>2, <1>3, <2>1, PlacesStay, KeyPressed DEF KeyInv
<1> QED
  BY <1>4, <1>5

\* What the port has not passed on when it is closed is lost.
LEMMA ClosingLoses == KeyInv /\ ClosePort => KeyInv'
<1> SUFFICES ASSUME KeyInv, ClosePort PROVE KeyInv'
  OBVIOUS
<1>1. wire' = <<>> /\ Lose(Elements(wire)) /\ UNCHANGED <<callback, link, reports, pressed, executed>>
  BY DEF ClosePort, PortSame, hidVars, Elements
<1>2. UnderWay' = UnderWay \ Elements(wire) /\ Elements(wire) \subseteq UnderWay
  BY <1>1, UnderWayIsElements, ElementsOfFew DEF KeyInv, PlacesInv
<1>3. PlacesInv'
  BY <1>1, ElementsOfFew DEF KeyInv, PlacesInv
<1> QED
  BY <1>1, <1>2, <1>3, KeysLost DEF KeyInv

\* The first key of the port is executed here, or handed to Send.
LEMMA PassedOn == KeyInv /\ OnDataReceived => KeyInv'
<1> SUFFICES ASSUME KeyInv, OnDataReceived PROVE KeyInv'
  OBVIOUS
<1> DEFINE k == Head(wire)
<1>1. /\ wire # <<>> /\ callback = <<>> /\ wire' = Tail(wire)
      /\ UNCHANGED <<link, reports, pressed, lost>>
      /\ \/ callback' = <<k>> /\ UNCHANGED executed
         \/ Execute(k) /\ UNCHANGED callback
  BY DEF OnDataReceived, PortSame, hidVars
<1>2. /\ wire' \in Seq(Keys) /\ Distinct(wire')
      /\ k \in Keys /\ k \in Elements(wire)
      /\ Elements(wire') = Elements(wire) \ {k}
  BY <1>1, TailDistinct DEF KeyInv, PlacesInv
<1>3. Elements(callback) = {}
  BY <1>1, ElementsOfFew
<1> HIDE DEF k
<1>4. CASE callback' = <<k>> /\ UNCHANGED executed
  <2>1. Elements(callback') = {k}
    BY <1>4, ElementsOfFew
  <2>2. UnderWay' = UnderWay
    BY <1>1, <1>2, <1>3, <2>1, UnderWayIsElements
  <2>3. PlacesInv'
    BY <1>1, <1>2, <1>3, <1>4, <2>1 DEF KeyInv, PlacesInv
  <2> QED
    BY <1>1, <1>4, <2>2, <2>3, KeysMove DEF KeyInv, keys
<1>5. CASE Execute(k) /\ UNCHANGED callback
  <2>1. UnderWay' = UnderWay \ {k} /\ k \in UnderWay
    BY <1>1, <1>2, <1>3, <1>5, UnderWayIsElements DEF KeyInv, PlacesInv
  <2>2. PlacesInv'
    BY <1>1, <1>2, <1>3, <1>5 DEF KeyInv, PlacesInv
  <2> QED
    BY <1>1, <1>5, <2>1, <2>2, KeyExecuted DEF KeyInv
<1> QED
  BY <1>1, <1>4, <1>5

\* Send puts its key on a connection, or loses it.
LEMMA Forwarded == KeyInv /\ Send => KeyInv'
<1> SUFFICES ASSUME KeyInv, Send PROVE KeyInv'
  OBVIOUS
<1>1. PICK k \in Keys : callback = <<k>>
  BY DEF Send, KeyInv, PlacesInv
<1>2. /\ callback' = <<>> /\ UNCHANGED <<wire, reports, pressed, executed>>
      /\ \/ link' = link \cup {k} /\ UNCHANGED lost
         \/ Lose({k}) /\ UNCHANGED link
  BY <1>1 DEF Send, hidVars
<1>3. Elements(callback) = {k} /\ Elements(callback') = {}
  BY <1>1, <1>2, ElementsOfFew
<1>4. CASE link' = link \cup {k} /\ UNCHANGED lost
  <2>1. UnderWay' = UnderWay
    BY <1>2, <1>3, <1>4, UnderWayIsElements
  <2>2. PlacesInv'
    BY <1>2, <1>3, <1>4 DEF KeyInv, PlacesInv
  <2> QED
    BY <1>2, <1>4, <2>1, <2>2, KeysMove DEF KeyInv, keys
<1>5. CASE Lose({k}) /\ UNCHANGED link
  <2>1. UnderWay' = UnderWay \ {k} /\ k \in UnderWay
    BY <1>2, <1>3, <1>5, UnderWayIsElements DEF KeyInv, PlacesInv
  <2>2. PlacesInv'
    BY <1>2, <1>3, <1>5 DEF KeyInv, PlacesInv
  <2> QED
    BY <1>2, <1>5, <2>1, <2>2, KeysLost DEF KeyInv
<1> QED
  BY <1>2, <1>4, <1>5

\* A session of the receiver executes the key of its connection, or loses it.
LEMMA ReadOnce == KeyInv /\ HandleRead => KeyInv'
<1> SUFFICES ASSUME KeyInv, HandleRead PROVE KeyInv'
  OBVIOUS
<1>1. PICK k \in link : /\ link' = link \ {k}
                        /\ \/ Execute(k) /\ UNCHANGED lost
                           \/ Lose({k}) /\ UNCHANGED executed
  BY DEF HandleRead
<1>2. UNCHANGED <<wire, callback, reports, pressed>>
  BY DEF HandleRead, hidVars
<1>3. UnderWay' = UnderWay \ {k} /\ k \in UnderWay
  BY <1>1, <1>2, UnderWayIsElements DEF KeyInv, PlacesInv
<1>4. PlacesInv'
  BY <1>1, <1>2 DEF KeyInv, PlacesInv
<1> QED
  BY <1>1, <1>2, <1>3, <1>4, KeyExecuted, KeysLost DEF KeyInv

\* A G key makes a report, or is lost without a reader.
LEMMA GKeyPressed == KeyInv /\ PressGKey => KeyInv'
<1> SUFFICES ASSUME KeyInv, PressGKey PROVE KeyInv'
  OBVIOUS
<1>1. PICK k \in GKeys \ pressed :
        /\ pressed' = pressed \cup {k}
        /\ \/ reports' = Append(reports, k) /\ UNCHANGED lost
           \/ Lose({k}) /\ UNCHANGED reports
  BY DEF PressGKey
<1>2. k \in Keys /\ k \notin pressed /\ k \notin UnderWay
  BY DEF Keys, KeyInv, AccountInv
<1>3. UNCHANGED <<wire, callback, link, executed>>
  BY DEF PressGKey, HidSame, serialVars, data
<1>4. CASE reports' = Append(reports, k) /\ UNCHANGED lost
  <2>1. /\ reports' \in Seq(Keys) /\ Distinct(reports')
        /\ Elements(reports') = Elements(reports) \cup {k}
    BY <1>2, <1>4, AppendDistinct, UnderWayIsElements DEF KeyInv, PlacesInv
  <2>2. UnderWay' = UnderWay \cup {k}
    BY <1>3, <2>1, UnderWayIsElements
  <2>3. PlacesInv'
    BY <1>2, <1>3, <2>1, UnderWayIsElements DEF KeyInv, PlacesInv
  <2> QED
    BY <1>1, <1>2, <1>3, <1>4, <2>2, <2>3, KeyPressed DEF KeyInv
<1>5. CASE Lose({k}) /\ UNCHANGED reports
  <2>1. UNCHANGED <<data, reports>>
    BY <1>3, <1>5 DEF data
  <2> QED
    BY <1>1, <1>2, <1>3, <1>5, <2>1, PlacesStay, KeyPressed DEF KeyInv
<1> QED
  BY <1>1, <1>4, <1>5

\* A report is executed, or lost as a bounce or a report of no single key.
LEMMA ReportHandled == KeyInv /\ HandleKeypress => KeyInv'
<1> SUFFICES ASSUME KeyInv, HandleKeypress PROVE KeyInv'
  OBVIOUS
<1> DEFINE k == Head(reports)
<1>1. /\ reports # <<>> /\ reports' = Tail(reports)
      /\ \/ Lose({k}) /\ UNCHANGED executed
         \/ Execute(k) /\ UNCHANGED lost
  BY DEF HandleKeypress
<1>2. UNCHANGED <<wire, callback, link, pressed>>
  BY DEF HandleKeypress, HidSame, serialVars, data
<1>3. /\ reports' \in Seq(Keys) /\ Distinct(reports')
      /\ k \in Elements(reports)
      /\ Elements(reports') = Elements(reports) \ {k}
  BY <1>1, TailDistinct DEF KeyInv, PlacesInv
<1> HIDE DEF k
<1>4. UnderWay' = UnderWay \ {k} /\ k \in UnderWay
  BY <1>2, <1>3, UnderWayIsElements DEF KeyInv, PlacesInv
<1>5. PlacesInv'
  BY <1>2, <1>3 DEF KeyInv, PlacesInv
<1> QED
  BY <1>1, <1>2, <1>4, <1>5, KeyExecuted, KeysLost DEF KeyInv

\* The reports of a keyboard that is unplugged, or of a reader that is stopped, are lost.
LEMMA ReportsLost == KeyInv /\ (ReadFails \/ DestroyWorkingThread) => KeyInv'
<1> SUFFICES ASSUME KeyInv, LoseReports PROVE KeyInv'
  BY DEF ReadFails, DestroyWorkingThread
<1>1. /\ reports' = <<>> /\ Lose(Elements(reports))
      /\ UNCHANGED <<wire, callback, link, pressed, executed>>
  BY DEF LoseReports, HidSame, serialVars, data, Elements
<1>2. UnderWay' = UnderWay \ Elements(reports) /\ Elements(reports) \subseteq UnderWay
  BY <1>1, UnderWayIsElements, ElementsOfFew DEF KeyInv, PlacesInv
<1>3. PlacesInv'
  BY <1>1, ElementsOfFew DEF KeyInv, PlacesInv
<1> QED
  BY <1>1, <1>2, <1>3, KeysLost DEF KeyInv

-----------------------------------------------------------------------------
\* In the beginning no key is pressed.
LEMMA NoKeyYet == KeyInit => KeyInv
<1> SUFFICES ASSUME KeyInit PROVE KeyInv
  OBVIOUS
<1>1. UnderWay = {}
  BY UnderWayIsElements, ElementsOfFew DEF KeyInit
<1>2. PlacesInv
  BY ElementsOfFew DEF KeyInit, PlacesInv
<1>3. AccountInv
  BY <1>1 DEF KeyInit, AccountInv
<1> QED
  BY <1>2, <1>3 DEF KeyInv

\* Every key is executed at most once, on one computer, and every key that is neither lost nor
\* under way was executed: for any keys, and whatever ports, focus and connections do.
THEOREM EachKeyOnce == KeySpec => []KeysAreExecutedOnce
<1>1. KeyInv /\ [KeyNext]_keyVars => KeyInv'
  <2>1. KeyInv /\ UNCHANGED keyVars => KeyInv'
    BY PlacesStay, KeysMove DEF KeyInv, keyVars, serialVars, hidVars
  <2> QED
    BY <2>1, OthersKeepKeys, SerialKeyPressed, ClosingLoses, PassedOn, Forwarded, ReadOnce,
       GKeyPressed, ReportHandled, ReportsLost DEF KeyNext, WorkerThread
<1>2. KeyInv => KeysAreExecutedOnce
  <2> SUFFICES ASSUME KeyInv PROVE KeysAreExecutedOnce
    OBVIOUS
  <2>1. \A k \in Keys : executed[k] \in {0, 1}
    BY DEF KeyInv, AccountInv
  <2>2. {k \in Keys : executed[k] = 1} = pressed \ (UnderWay \cup lost)
    BY DEF KeyInv, AccountInv
  <2> QED
    BY <2>1, <2>2 DEF KeysAreExecutedOnce, KeyInv, AccountInv
<1> QED
  BY NoKeyYet, <1>1, <1>2, PTL DEF KeySpec
-----------------------------------------------------------------------------
(* Lifecycle: what still runs is still to be destroyed.                    *)

StillToDestroy == {DestroyOrder[i] : i \in at .. Len(DestroyOrder)}

\* A thread runs as long as its part is neither destroyed nor passed over, and only such threads
\* are in calls.
LifeInv ==
  /\ at \in Nat \ {0}
  /\ phase \in {"init", "next", "join"}
  /\ phase = "join" => at <= Len(DestroyOrder)
  /\ running \subseteq exists /\ running \subseteq Threaded
  /\ running \subseteq IF phase = "init" THEN ToSet(InitOrder) ELSE StillToDestroy
  /\ \A u \in using : u \in Uses /\ u[1] \in running /\ u[2] \in exists
  /\ \A u \in gone : u[2] \in Singletons \ {Last(DestroyOrder)}

\* The parts are listed in the orders they start and end in.
LEMMA PartsAreListed ==
  /\ DOMAIN InitOrder = 1 .. Len(InitOrder) /\ Len(InitOrder) \in Nat
  /\ DOMAIN DestroyOrder = 1 .. Len(DestroyOrder) /\ Len(DestroyOrder) \in Nat \ {0}
  /\ Last(DestroyOrder) = DestroyOrder[Len(DestroyOrder)]
  BY OrderAssumption, LenProperties, EmptySeq DEF Last

\* The steps that start, and that pass on to the destruction.
LEMMA StartingKeepsThreads == LifeInv /\ (InitPart \/ BeginDestruction) => LifeInv'
<1> SUFFICES ASSUME LifeInv, InitPart \/ BeginDestruction PROVE LifeInv'
  OBVIOUS
<1>1. CASE InitPart
  <2>1. /\ phase = "init" /\ at \in 1 .. Len(InitOrder) /\ at' = at + 1 /\ at' \in Nat \ {0}
        /\ exists' = exists \cup {InitOrder[at]}
        /\ running' = running \cup ({InitOrder[at]} \cap Threaded)
        /\ UNCHANGED <<phase, using, gone>>
    BY <1>1, PartsAreListed DEF InitPart, LifeInv
  <2>2. InitOrder[at] \in ToSet(InitOrder)
    BY <2>1, PartsAreListed DEF ToSet
  <2> QED
    BY <2>1, <2>2, Zenon DEF LifeInv
<1>2. CASE BeginDestruction
  <2>1. /\ phase = "init" /\ phase' = "next" /\ at' = 1
        /\ UNCHANGED <<exists, running, using, gone>>
    BY <1>2 DEF BeginDestruction
  <2>2. running \subseteq ToSet(DestroyOrder)
    BY <2>1, OrderAssumption DEF LifeInv
  <2>3. StillToDestroy' = ToSet(DestroyOrder)
    BY <2>1, PartsAreListed DEF StillToDestroy, ToSet
  <2> QED
    BY <2>1, <2>2, <2>3 DEF LifeInv
<1> QED
  BY <1>1, <1>2

\* What is passed over, or deleted, was the first of what was still to be destroyed.
LEMMA OneLess ==
  ASSUME at \in 1 .. Len(DestroyOrder), at' = at + 1
  PROVE  StillToDestroy \subseteq StillToDestroy' \cup {Part}
<1> SUFFICES ASSUME NEW i \in at .. Len(DestroyOrder)
             PROVE  i = at \/ i \in at' .. Len(DestroyOrder)
  BY Zenon DEF StillToDestroy, Part
<1> QED
  BY PartsAreListed

\* The steps of the destruction.
LEMMA DestroyingKeepsThreads ==
  LifeInv /\ (SkipAbsent \/ BeginDelete \/ ThreadEnds \/ EndDelete) => LifeInv'
<1> SUFFICES ASSUME LifeInv, SkipAbsent \/ BeginDelete \/ ThreadEnds \/ EndDelete PROVE LifeInv'
  OBVIOUS
<1>1. CASE SkipAbsent
  <2>1. /\ phase = "next" /\ at \in 1 .. Len(DestroyOrder) /\ Part \notin exists
        /\ at' = at + 1 /\ at' \in Nat \ {0}
        /\ UNCHANGED <<exists, running, phase, using, gone>>
    BY <1>1, PartsAreListed DEF SkipAbsent, LifeInv
  <2>2. running' \subseteq StillToDestroy'
    BY <2>1, OneLess DEF LifeInv
  <2> QED
    BY <2>1, <2>2 DEF LifeInv
<1>2. CASE BeginDelete
  BY <1>2 DEF BeginDelete, LifeInv, StillToDestroy
<1>3. CASE ThreadEnds
  <2>1. /\ phase = "join" /\ running' = running \ {Part}
        /\ \A part \in exists : <<Part, part>> \notin using
        /\ UNCHANGED <<exists, phase, at, using, gone>>
    BY <1>3 DEF ThreadEnds
  <2>2. ASSUME NEW u \in using PROVE u[1] # Part
    <3>1. u = <<u[1], u[2]>> /\ u[2] \in exists
      BY OrderAssumption DEF LifeInv
    <3>2. <<Part, u[2]>> \notin using
      BY <2>1, <3>1
    <3> QED
      BY <3>1, <3>2, Zenon
  <2> QED
    BY <2>1, <2>2 DEF LifeInv, StillToDestroy
<1>4. CASE EndDelete
  <2>1. /\ phase = "join" /\ phase' = "next" /\ Part \notin running
        /\ at \in 1 .. Len(DestroyOrder) /\ at' = at + 1 /\ at' \in Nat \ {0}
        /\ exists' = exists \ {Part} /\ UNCHANGED running
        /\ gone' = gone \cup {u \in using : u[2] = Part}
        /\ using' = {u \in using : u[2] # Part}
    BY <1>4, PartsAreListed DEF EndDelete, LifeInv
  <2>2. running' \subseteq StillToDestroy'
    BY <2>1, OneLess DEF LifeInv
  <2>3. ASSUME NEW u \in using, u[2] = Part
        PROVE  Part \in Singletons \ {Last(DestroyOrder)}
    <3>1. u[1] \in running /\ u = <<u[1], Part>> /\ u \in Uses
      BY <2>3, OrderAssumption DEF LifeInv
    <3>2. PICK j \in at + 1 .. Len(DestroyOrder) : u[1] = DestroyOrder[j]
      BY <2>1, <2>2, <3>1 DEF StillToDestroy
    <3>3. at \in DOMAIN DestroyOrder /\ j \in DOMAIN DestroyOrder /\ at < j
      BY <2>1, <3>2, PartsAreListed
    <3>4. <<DestroyOrder[j], DestroyOrder[at]>> \in Uses
      BY <3>1, <3>2, Zenon DEF Part
    <3> QED
      BY <3>3, <3>4, OrderAssumption, Zenon DEF Part
  <2> QED
    BY <2>1, <2>2, <2>3 DEF LifeInv
<1> QED
  BY <1>1, <1>2, <1>3, <1>4

\* A thread uses only what it can get.
LEMMA CallsKeepThreads == LifeInv /\ (BeginCall \/ EndCall) => LifeInv'
<1> SUFFICES ASSUME LifeInv, BeginCall \/ EndCall PROVE LifeInv'
  OBVIOUS
<1>1. CASE BeginCall
  <2>1. PICK u \in Uses \ using :
          /\ u[1] \in running
          /\ IF u[2] \in Singletons THEN Get(u[2]) ELSE u[2] \in exists /\ UNCHANGED <<exists, running>>
          /\ using' = using \cup {u}
    BY <1>1 DEF BeginCall
  <2>2. /\ exists \subseteq exists' /\ u[2] \in exists' /\ UNCHANGED running
        /\ UNCHANGED <<phase, at, gone>>
    BY <1>1, <2>1 DEF BeginCall, Get
  <2> QED
    BY <2>1, <2>2 DEF LifeInv, StillToDestroy
<1>2. CASE EndCall
  <2>1. using' \subseteq using /\ UNCHANGED <<exists, running, phase, at, gone>>
    BY <1>2 DEF EndCall
  <2> QED
    BY <2>1 DEF LifeInv, StillToDestroy
<1> QED
  BY <1>1, <1>2

\* For any parts, orders and uses of them that are as the comments ask: when ~ApplicationBase
\* returns no thread runs, and neither the log nor a part without Get was deleted during a call.
THEOREM NoThreadOutlives == LifeSpec => []NothingRunsOn
<1>1. LifeInit => LifeInv
  BY DEF LifeInit, LifeInv
<1>2. LifeInv /\ UNCHANGED lifeVars => LifeInv'
  BY DEF LifeInv, StillToDestroy, lifeVars
<1>3. LifeInv /\ [LifeNext]_lifeVars => LifeInv'
  BY <1>2, StartingKeepsThreads, DestroyingKeepsThreads, CallsKeepThreads DEF LifeNext
<1>4. LifeInv => NothingRunsOn
  <2> SUFFICES ASSUME LifeInv, Ended PROVE running = {}
    BY DEF NothingRunsOn, LifeInv
  <2>1. at .. Len(DestroyOrder) = {}
    BY PartsAreListed DEF Ended, LifeInv
  <2> QED
    BY <2>1 DEF LifeInv, StillToDestroy, Ended
<1> QED
  BY <1>1, <1>3, <1>4, PTL DEF LifeSpec
-----------------------------------------------------------------------------
(* DirectoryBackup: the hash of the source is taken once.                  *)

\* What was accepted has the hash of the source, which the first comparison has fixed.
AcceptedInv ==
  CalculateHash => /\ accepted \subseteq {ctx_from}
                   /\ accepted # {} => first_run_hash

\* For any destinations, files, faults and changes meanwhile: what was hashed of the destinations
\* that were accepted is the same.
THEOREM CopiesAgree == BackupSpec => []AcceptedCopiesAgree
<1>1. BackupInit => AcceptedInv
  BY DEF BackupInit, AcceptedInv
<1>2. AcceptedInv /\ [BackupNext]_backupVars => AcceptedInv'
  <2> SUFFICES ASSUME AcceptedInv, [BackupNext]_backupVars PROVE AcceptedInv'
    OBVIOUS
  <2>1. CASE UNCHANGED <<accepted, ctx_from, first_run_hash>>
    BY <2>1 DEF AcceptedInv
  <2>2. CASE StartBackup
    BY <2>2 DEF StartBackup, AcceptedInv
  <2>3. CASE HashSource
    <3>1. UNCHANGED <<accepted, first_run_hash>>
      BY <2>3 DEF HashSource, Hashing
    <3>2. first_run_hash => UNCHANGED ctx_from
      BY <2>3 DEF HashSource
    <3> QED
      BY <3>1, <3>2 DEF AcceptedInv
  <2>4. CASE Compare
    <3>1. first_run_hash' = CalculateHash /\ UNCHANGED ctx_from
      BY <2>4 DEF Compare
    <3>2. CalculateHash => accepted' \subseteq accepted \cup {ctx_from}
      BY <2>4 DEF Compare, Mismatch
    <3> QED
      BY <3>1, <3>2 DEF AcceptedInv
  <2> QED
    BY <2>1, <2>2, <2>3, <2>4
    DEF BackupNext, BackupFile, Cancel, ChangeFile, DoBackup, BackupRotation, CancelBackup, LoopEnds,
        CreateDirectory, SkipOrLink, CopyFile, Hashing, doing, backupVars
<1>3. AcceptedInv => AcceptedCopiesAgree
  <2>1. \A X, x : X \subseteq {x} => Cardinality(X) <= 1
    <3> SUFFICES ASSUME NEW X, NEW x, X \subseteq {x} PROVE Cardinality(X) <= 1
      OBVIOUS
    <3>1. IsFiniteSet({x}) /\ Cardinality({x}) = 1
      BY FS_Singleton
    <3> QED
      BY <3>1, FS_Subset
  <2> QED
    BY <2>1 DEF AcceptedInv, AcceptedCopiesAgree
<1> QED
  BY <1>1, <1>2, <1>3, PTL DEF BackupSpec
-----------------------------------------------------------------------------
(* LogFile: a message that is in the file is somewhere.                    *)

Somewhere(i) ==
  IsFiltered(i) \/ i \in dismissed \/ i \in ToSet(m_LogModel) \/ i \in ToSet(preinit_entries)

\* While a search runs, a message may also be one the search has not come to yet, and will find.
StillToFind(k) == search # <<>> /\ k > lines_read /\ Matches(fLog[k], search[1], search[2])

LogInv ==
  /\ fLog \in Seq(Nat) /\ preinit_entries \in Seq(Nat) /\ m_LogModel \in Seq(Nat)
  /\ stamped \subseteq Nat /\ stamps \in Nat /\ lines_read \in Nat
  /\ \A k \in 1 .. Len(fLog) : Somewhere(fLog[k]) \/ StillToFind(k)

\* A message that is written waits for the timer.
LEMMA WritingMissesNothing == LogInv /\ (TakeTime \/ Write) => LogInv'
<1> SUFFICES ASSUME LogInv, TakeTime \/ Write PROVE LogInv'
  OBVIOUS
<1>1. CASE TakeTime
  <2>1. /\ stamps' = stamps + 1 /\ stamped' = stamped \cup {stamps'}
        /\ UNCHANGED <<fLog, preinit_entries, m_LogModel, search, lines_read, dismissed>>
    BY <1>1 DEF TakeTime
  <2>2. stamps' \in Nat
    BY <2>1 DEF LogInv
  <2> QED
    BY <2>1, <2>2 DEF LogInv, Somewhere, StillToFind
<1>2. CASE Write
  <2>1. PICK i \in stamped :
          /\ stamped' = stamped \ {i} /\ fLog' = Append(fLog, i)
          /\ preinit_entries' = Append(preinit_entries, i)
    BY <1>2 DEF Write
  <2>2. UNCHANGED <<stamps, m_LogModel, search, lines_read, dismissed>>
    BY <1>2 DEF Write
  <2>3. /\ i \in Nat /\ preinit_entries' \in Seq(Nat)
        /\ ToSet(preinit_entries') = ToSet(preinit_entries) \cup {i}
    <3>1. i \in Nat /\ preinit_entries \in Seq(Nat)
      BY DEF LogInv
    <3>2. LET q == Append(preinit_entries, i)
          IN  q \in Seq(Nat) /\ ToSet(q) = ToSet(preinit_entries) \cup {i}
      BY <3>1, ElementsAfterAppend
    <3> QED
      BY <2>1, <3>1, <3>2, Zenon
  <2>4. /\ fLog' \in Seq(Nat) /\ Len(fLog) \in Nat /\ Len(fLog') = Len(fLog) + 1
        /\ fLog'[Len(fLog) + 1] = i /\ \A k \in 1 .. Len(fLog) : fLog'[k] = fLog[k]
    BY <2>1, <2>3, AppendProperties, LenProperties DEF LogInv
  <2>5. ASSUME NEW k \in 1 .. Len(fLog) PROVE (Somewhere(fLog[k]) \/ StillToFind(k))'
    BY <2>2, <2>3, <2>4 DEF LogInv, Somewhere, StillToFind
  <2>6. (Somewhere(fLog[Len(fLog)]))'
    BY <2>3, <2>4 DEF Somewhere
  <2>7. \A k \in 1 .. Len(fLog') : k \in 1 .. Len(fLog) \/ k = Len(fLog')
    BY <2>4
  <2>8. stamped' \subseteq Nat
    BY <2>1 DEF LogInv
  <2> QED
    BY <2>2, <2>3, <2>4, <2>5, <2>6, <2>7, <2>8 DEF LogInv
<1> QED
  BY <1>1, <1>2

\* What the timer takes is shown, but for what is filtered.
LEMMA ShowingMissesNothing == LogInv /\ Update => LogInv'
<1> SUFFICES ASSUME LogInv, Update PROVE LogInv'
  OBVIOUS
<1> DEFINE shown == {k \in DOMAIN preinit_entries : ~IsFiltered(preinit_entries[k])}
           new   == ElementsAt(preinit_entries, shown)
<1>1. /\ m_LogModel' = m_LogModel \o new /\ preinit_entries' = <<>>
      /\ search = <<>> /\ UNCHANGED <<fLog, stamped, stamps, search, lines_read, dismissed>>
  BY DEF Update, logged
<1>2. /\ preinit_entries \in Seq(Nat) /\ m_LogModel \in Seq(Nat)
      /\ DOMAIN preinit_entries = 1 .. Len(preinit_entries)
  BY LenProperties DEF LogInv
<1>3. PICK place : Picks(place, new, preinit_entries, shown, Len(preinit_entries))
  BY <1>2, ElementsAtPlaces
<1>4. new \in Seq(Nat)
  BY <1>2, ElementsAtPlaces
<1>5. ASSUME NEW k \in 1 .. Len(preinit_entries), ~IsFiltered(preinit_entries[k])
      PROVE  preinit_entries[k] \in ToSet(new)
  <2>1. k \in shown
    BY <1>2, <1>5
  <2> HIDE DEF new, shown
  <2>2. PICK i \in 1 .. Len(place) : place[i] = k
    BY <1>3, <2>1 DEF Picks
  <2>3. new[i] = preinit_entries[k] /\ i \in 1 .. Len(new)
    BY <1>3, <2>2 DEF Picks
  <2>4. DOMAIN new = 1 .. Len(new)
    BY <1>4, LenProperties
  <2> QED
    BY <2>3, <2>4, Zenon DEF ToSet
<1> HIDE DEF new
<1>6. /\ m_LogModel' \in Seq(Nat)
      /\ ToSet(m_LogModel) \subseteq ToSet(m_LogModel') /\ ToSet(new) \subseteq ToSet(m_LogModel')
  BY <1>1, <1>2, <1>4, ElementsAfterConcat
<1>7. ASSUME NEW i, Somewhere(i) PROVE Somewhere(i)'
  <2>1. IsFiltered(i)' = IsFiltered(i)
    BY DEF IsFiltered
  <2>2. CASE i \in ToSet(preinit_entries)
    <3>1. PICK k \in 1 .. Len(preinit_entries) : i = preinit_entries[k]
      BY <1>2, <2>2, Zenon DEF ToSet
    <3> QED
      BY <1>5, <1>6, <2>1, <3>1 DEF Somewhere
  <2> QED
    BY <1>1, <1>6, <1>7, <2>1, <2>2 DEF Somewhere
<1>8. ASSUME NEW k \in 1 .. Len(fLog) PROVE Somewhere(fLog[k])'
  <2>1. Somewhere(fLog[k])
    BY <1>1 DEF LogInv, StillToFind
  <2> QED
    BY <1>1, <1>7, <2>1 DEF Somewhere
<1> QED
  BY <1>1, <1>6, <1>8 DEF LogInv

\* What the user clears is dismissed, and so is what a search does not look for.
LEMMA DismissingMissesNothing == LogInv /\ (ClearEntries \/ BeginSearch) => LogInv'
<1> SUFFICES ASSUME LogInv, ClearEntries \/ BeginSearch PROVE LogInv'
  OBVIOUS
<1>1. /\ m_LogModel' = <<>> /\ m_LogModel' \in Seq(Nat)
      /\ UNCHANGED <<fLog, stamped, stamps, preinit_entries>> /\ search = <<>>
      /\ lines_read' \in Nat
  <2>1. <<>> \in Seq(Nat) /\ 0 \in Nat
    OBVIOUS
  <2> QED
    BY <2>1, Zenon DEF ClearEntries, BeginSearch, logged, LogInv
<1>2. \A k \in 1 .. Len(fLog) : Somewhere(fLog[k])
  BY <1>1 DEF LogInv, StillToFind
<1>3. CASE ClearEntries
  <2>1. dismissed' = dismissed \cup ToSet(m_LogModel)
    BY <1>3 DEF ClearEntries
  <2>2. ASSUME NEW k \in 1 .. Len(fLog) PROVE Somewhere(fLog[k])'
    BY <1>1, <1>2, <2>1 DEF Somewhere, IsFiltered
  <2> QED
    BY <1>1, <2>2 DEF LogInv
<1>4. CASE BeginSearch
  <2>1. PICK filter \in Filters, level \in LogLevels :
          /\ search' = <<filter, level>>
          /\ dismissed' = {i \in dismissed \cup ToSet(m_LogModel) : ~Matches(i, filter, level)}
    BY <1>4 DEF BeginSearch
  <2>2. search' # <<>> /\ search'[1] = filter /\ search'[2] = level /\ lines_read' = 0
    BY <1>4, <2>1 DEF BeginSearch
  <2>3. ASSUME NEW k \in 1 .. Len(fLog) PROVE (Somewhere(fLog[k]) \/ StillToFind(k))'
    <3>1. k > lines_read'
      BY <2>2
    <3>2. Matches(fLog[k], filter, level)' = Matches(fLog'[k], filter, level)
      BY DEF Matches
    <3>3. CASE fLog[k] \in dismissed \cup ToSet(m_LogModel)
      <4>1. CASE Matches(fLog[k], filter, level)
        BY <1>1, <2>2, <3>1, <4>1 DEF StillToFind, Matches
      <4>2. CASE ~Matches(fLog[k], filter, level)
        BY <1>1, <2>1, <3>3, <4>2 DEF Somewhere
      <4> QED
        BY <4>1, <4>2
    <3>4. CASE IsFiltered(fLog[k]) \/ fLog[k] \in ToSet(preinit_entries)
      BY <1>1, <3>4 DEF Somewhere, IsFiltered
    <3> QED
      BY <1>2, <3>3, <3>4 DEF Somewhere
  <2> QED
    BY <1>1, <2>3 DEF LogInv
<1> QED
  BY <1>3, <1>4

\* The search shows what it is for, line after line.
LEMMA SearchingMissesNothing == LogInv /\ (SearchLine \/ EndSearch) => LogInv'
<1> SUFFICES ASSUME LogInv, SearchLine \/ EndSearch PROVE LogInv'
  OBVIOUS
<1>1. /\ search # <<>> /\ UNCHANGED <<fLog, stamped, stamps, preinit_entries, dismissed>>
      /\ Len(fLog) \in Nat /\ lines_read \in Nat
  BY LenProperties DEF SearchLine, EndSearch, logged, LogInv
<1>2. CASE SearchLine
  <2> DEFINE n == lines_read + 1
             i == fLog[n]
  <2>1. /\ lines_read' = n /\ UNCHANGED search /\ n \in 1 .. Len(fLog) /\ n \in Nat
        /\ m_LogModel' = IF Matches(i, search[1], search[2]) /\ ~IsFiltered(i)
                         THEN Append(m_LogModel, i) ELSE m_LogModel
    BY <1>1, <1>2 DEF SearchLine
  <2>2. i \in Nat
    BY <2>1, ElementOfSeq DEF LogInv
  <2> HIDE DEF i
  <2>3. /\ m_LogModel' \in Seq(Nat) /\ ToSet(m_LogModel) \subseteq ToSet(m_LogModel')
        /\ Matches(i, search[1], search[2]) => IsFiltered(i) \/ i \in ToSet(m_LogModel')
    <3>1. m_LogModel \in Seq(Nat)
      BY DEF LogInv
    <3>2. LET q == Append(m_LogModel, i)
          IN  q \in Seq(Nat) /\ ToSet(q) = ToSet(m_LogModel) \cup {i}
      BY <2>2, <3>1, ElementsAfterAppend
    <3>3. i \in ToSet(m_LogModel) \cup {i}
      OBVIOUS
    <3> QED
      BY <2>1, <3>1, <3>2, <3>3, Zenon
  <2>4. ASSUME NEW j, Somewhere(j) PROVE Somewhere(j)'
    BY <1>1, <2>3, <2>4 DEF Somewhere, IsFiltered
  <2>5. ASSUME NEW k \in 1 .. Len(fLog) PROVE (Somewhere(fLog[k]) \/ StillToFind(k))'
    <3>1. CASE Somewhere(fLog[k])
      BY <1>1, <2>4, <3>1 DEF Somewhere
    <3>2. CASE StillToFind(k)
      <4>1. k = n \/ k > n
        BY <1>1, <3>2 DEF StillToFind
      <4>2. CASE k = n
        BY <1>1, <2>3, <3>2, <4>2 DEF StillToFind, Somewhere, IsFiltered, i
      <4>3. CASE k > n
        BY <1>1, <2>1, <3>2, <4>3 DEF StillToFind, Matches
      <4> QED
        BY <4>1, <4>2, <4>3
    <3> QED
      BY <3>1, <3>2 DEF LogInv
  <2> QED
    BY <1>1, <2>1, <2>3, <2>5 DEF LogInv
<1>3. CASE EndSearch
  <2>1. search' = <<>> /\ lines_read = Len(fLog) /\ UNCHANGED <<m_LogModel, lines_read>>
    BY <1>3 DEF EndSearch
  <2>2. ASSUME NEW k \in 1 .. Len(fLog) PROVE Somewhere(fLog[k])'
    <3>1. Somewhere(fLog[k])
      BY <1>1, <2>1 DEF LogInv, StillToFind
    <3> QED
      BY <1>1, <2>1, <3>1 DEF Somewhere, IsFiltered
  <2> QED
    BY <1>1, <2>1, <2>2 DEF LogInv
<1> QED
  BY <1>2, <1>3

\* For any messages, threads, filters, clears and searches: a message in the file is filtered,
\* dismissed, shown, or waits for the timer.
THEOREM EachMessageIsSomewhere == LogSpec => []NothingIsMissed
<1>1. LogInit => LogInv
  BY DEF LogInit, LogInv
<1>2. LogInv /\ UNCHANGED logVars => LogInv'
  BY DEF LogInv, Somewhere, StillToFind, IsFiltered, Matches, logVars
<1>3. LogInv /\ [LogNext]_logVars => LogInv'
  BY <1>2, WritingMissesNothing, ShowingMissesNothing, DismissingMissesNothing,
     SearchingMissesNothing DEF LogNext
<1>4. LogInv => NothingIsMissed
  <2> SUFFICES ASSUME LogInv, search = <<>>, NEW i \in ToSet(fLog) PROVE Somewhere(i)
    BY DEF NothingIsMissed, Somewhere
  <2>1. DOMAIN fLog = 1 .. Len(fLog)
    BY LenProperties DEF LogInv
  <2>2. PICK k \in 1 .. Len(fLog) : i = fLog[k]
    BY <2>1, Zenon DEF ToSet
  <2> QED
    BY <2>2 DEF LogInv, StillToFind
<1> QED
  BY <1>1, <1>3, <1>4, PTL DEF LogSpec
-----------------------------------------------------------------------------
(* AntiLock: the ticks, and the list that is written and read.             *)

\* A number is so many whole turns and a rest, and only one rest will do.
LEMMA TurnsAndRest ==
  ASSUME NEW n \in Nat \ {0}, NEW x \in Int
  PROVE  x % n \in 0 .. n - 1 /\ x \div n \in Int /\ x = (n * (x \div n)) + (x % n)
  OBVIOUS

\* Full turns leave no remainder.
LEMMA RestOfTurns ==
  ASSUME NEW n \in Nat \ {0}, NEW k \in Int, NEW r \in 0 .. n - 1
  PROVE  ((n * k) + r) % n = r
  OBVIOUS

\* The difference of two clocks is, on the clock, the difference of their times.
LEMMA DifferenceOfClocks ==
  ASSUME NEW n \in Nat \ {0}, NEW a \in Int, NEW b \in Int
  PROVE  ((a % n) - (b % n)) % n = (a - b) % n
<1> DEFINE p == a \div n
           q == b \div n
           r == a % n
           s == b % n
<1>1. /\ p \in Int /\ r \in 0 .. n - 1 /\ a = (n * p) + r
      /\ q \in Int /\ s \in 0 .. n - 1 /\ b = (n * q) + s
  BY TurnsAndRest
<1> HIDE DEF p, q, r, s
<1>2. n * (p - q) = (n * p) - (n * q) /\ n * (p - q - 1) = (n * p) - (n * q) - n /\ n * (0 - 1) = 0 - n
      /\ n * 0 = 0
  BY <1>1
<1>3. n * p \in Int /\ n * q \in Int
  BY <1>1
<1>4. CASE r >= s
  <2> DEFINE d == r - s
  <2>1. d \in 0 .. n - 1 /\ p - q \in Int
    BY <1>1, <1>4
  <2>2. a - b = (n * (p - q)) + d /\ d = (n * 0) + d
    BY <1>1, <1>2, <1>3
  <2> HIDE DEF d
  <2>3. ((n * (p - q)) + d) % n = d /\ ((n * 0) + d) % n = d
    BY <2>1, RestOfTurns
  <2> QED
    BY <2>2, <2>3 DEF d, r, s
<1>5. CASE r < s
  <2> DEFINE d == (r - s) + n
  <2>1. d \in 0 .. n - 1 /\ p - q - 1 \in Int /\ 0 - 1 \in Int
    BY <1>1, <1>5
  <2>2. a - b = (n * (p - q - 1)) + d /\ r - s = (n * (0 - 1)) + d
    BY <1>1, <1>2, <1>3
  <2> HIDE DEF d
  <2>3. ((n * (p - q - 1)) + d) % n = d /\ ((n * (0 - 1)) + d) % n = d
    BY <2>1, RestOfTurns
  <2> QED
    BY <2>2, <2>3 DEF r, s
<1> QED
  BY <1>1, <1>4, <1>5

\* The idle time on the clock is the idle time up to a whole turn, and never longer.
LEMMA IdleOnTheClock ==
  ASSUME NEW d \in Nat
  PROVE  d % Word \in Nat /\ d % Word <= d /\ (d < Word => d % Word = d)
  BY AntiLockAssumption

NameList(names) == names \in Seq(ToSet(names)) /\ Bar \notin ToSet(names)

\* A list that is written and read has the names it had.
LEMMA ListSurvives ==
  ASSUME NEW names, NameList(names)
  PROVE  LET again == LoadExclusions(SaveExclusions(names), <<>>)
         IN  NameList(again) /\ ToSet(again) = ToSet(names)
<1> DEFINE n    == Len(names)
           W    == ToSet(names) \cup {Bar}
           text == [i \in 1 .. 2 * n |-> IF i % 2 = 1 THEN names[(i + 1) \div 2] ELSE Bar]
           kept == SaveExclusions(names)
           places == {i \in DOMAIN kept : kept[i] # Bar}
           again == LoadExclusions(kept, <<>>)
<1>1. n \in Nat /\ DOMAIN names = 1 .. n /\ \A i \in 1 .. n : names[i] \in ToSet(names) /\ names[i] # Bar
  BY LenProperties, ElementOfSeq DEF NameList
<1>2. /\ \A i \in 1 .. 2 * n : text[i] = IF i % 2 = 1 THEN names[(i + 1) \div 2] ELSE Bar
      /\ text = [i \in 1 .. 2 * n |-> text[i]]
  OBVIOUS
<1>3. kept = IF text # <<>> /\ Last(text) = Bar THEN Front(text) ELSE text
  BY DEF SaveExclusions
<1> HIDE DEF text
<1>4. \A i \in 1 .. 2 * n : i % 2 = 1 => (i + 1) \div 2 \in 1 .. n
  BY <1>1
<1>5. \A i \in 1 .. 2 * n : text[i] \in W
  BY <1>1, <1>2, <1>4
<1>6. 2 * n \in Nat
  BY <1>1
<1>7. text \in Seq(W) /\ Len(text) = 2 * n
  <2> HIDE DEF W
  <2> DEFINE m == 2 * n
  <2>1. m \in Nat /\ text = [i \in 1 .. m |-> text[i]] /\ \A i \in 1 .. m : text[i] \in W
    BY <1>2, <1>5, <1>6
  <2> HIDE DEF m
  <2>2. text \in Seq(W) /\ Len(text) = m
    BY <2>1, FunctionIsSequence
  <2> QED
    BY <2>2 DEF m
<1>8. CASE n = 0
  <2>1. text = <<>>
    BY <1>7, <1>8, EmptySeq
  <2>2. kept = <<>> /\ again = <<>>
    BY <1>3, <2>1 DEF LoadExclusions
  <2>3. names = <<>>
    BY <1>8, EmptySeq DEF NameList
  <2> QED
    BY <2>2, <2>3 DEF NameList
<1>9. CASE n > 0
  <2>1. text # <<>> /\ Last(text) = Bar
    <3>1. 2 * n \in 1 .. 2 * n /\ (2 * n) % 2 # 1 /\ 2 * n # 0
      BY <1>1, <1>9
    <3>2. text[2 * n] = Bar
      BY <1>2, <3>1
    <3> QED
      BY <1>7, <3>1, <3>2, EmptySeq DEF Last
  <2>2. kept = SubSeq(text, 1, Len(text) - 1)
    BY <1>3, <2>1 DEF Front
  <2> HIDE DEF kept
  <2> DEFINE m == 2 * n - 1
  <2>3. m \in Nat /\ m > 0 /\ m <= 2 * n /\ m + 1 = 2 * n /\ \A i \in 1 .. m : i \in 1 .. 2 * n
    BY <1>1, <1>9
  <2>4. kept \in Seq(W) /\ Len(kept) = m /\ \A i \in 1 .. m : kept[i] = text[i]
    <3>1. /\ kept \in Seq(W)
          /\ Len(kept) = IF 1 <= 2 * n - 1 THEN (2 * n - 1) - 1 + 1 ELSE 0
          /\ \A i \in 1 .. (2 * n - 1) - 1 + 1 : kept[i] = text[1 + i - 1]
      <4>1. \A a, b \in 1 .. Len(text) + 1 :
              /\ SubSeq(text, a, b - 1) \in Seq(W)
              /\ Len(SubSeq(text, a, b - 1)) = IF a <= b - 1 THEN (b - 1) - a + 1 ELSE 0
              /\ \A i \in 1 .. (b - 1) - a + 1 : SubSeq(text, a, b - 1)[i] = text[a + i - 1]
        BY <1>7, SubSeqProperties
      <4>2. 1 \in 1 .. Len(text) + 1 /\ 2 * n \in 1 .. Len(text) + 1
        BY <1>1, <1>7, <1>9
      <4> QED
        BY <1>7, <2>2, <4>1, <4>2
    <3>2. (2 * n - 1) - 1 + 1 = m /\ 1 <= 2 * n - 1 /\ \A i \in 1 .. m : 1 + i - 1 = i
      BY <1>1, <1>9
    <3> QED
      BY <3>1, <3>2
  <2> HIDE DEF m
  <2>5. /\ DOMAIN kept = 1 .. m /\ kept # <<>>
        /\ again = ElementsAt(kept, places)
    <3>1. DOMAIN kept = 1 .. m
      BY <2>4, LenProperties
    <3>2. kept # <<>>
      BY <2>3, <2>4, EmptySeq
    <3> QED
      BY <3>1, <3>2 DEF LoadExclusions
  <2>6. again \in Seq(W) /\ \E place : Picks(place, again, kept, places, Len(kept))
    BY <2>4, <2>5, ElementsAtPlaces
  <2>7. PICK place : Picks(place, again, kept, places, m)
    BY <2>4, <2>6
  <2>8. DOMAIN again = 1 .. Len(again) /\ Len(again) = Len(place)
    BY <2>6, <2>7, LenProperties DEF Picks
  <2>9. ASSUME NEW x \in ToSet(again) PROVE x \in ToSet(names)
    <3>1. PICK i \in 1 .. Len(place) : x = again[i]
      BY <2>8, Zenon DEF ToSet
    <3>2. x = kept[place[i]] /\ place[i] \in 1 .. m /\ place[i] \in places
      BY <2>7, <3>1 DEF Picks
    <3>3. x \in W /\ x # Bar
      BY <1>5, <2>3, <2>4, <3>2
    <3> QED
      BY <3>3
  <2>10. ASSUME NEW x \in ToSet(names) PROVE x \in ToSet(again)
    <3>1. PICK j \in 1 .. n : x = names[j]
      BY <1>1, Zenon DEF ToSet
    <3> DEFINE k == 2 * j - 1
    <3>2. k \in 1 .. m /\ k \in 1 .. 2 * n /\ k % 2 = 1 /\ (k + 1) \div 2 = j
      BY <1>1 DEF m
    <3> HIDE DEF k
    <3>3. kept[k] = x /\ x # Bar
      BY <1>1, <1>2, <2>4, <3>1, <3>2
    <3>4. k \in places
      BY <2>5, <3>2, <3>3
    <3>5. PICK i \in 1 .. Len(place) : place[i] = k
      BY <2>7, <3>2, <3>4 DEF Picks
    <3>6. again[i] = x
      BY <2>7, <3>3, <3>5 DEF Picks
    <3> QED
      BY <2>8, <3>5, <3>6, Zenon DEF ToSet
  <2>11. ToSet(again) = ToSet(names)
    BY <2>9, <2>10
  <2>12. again \in Seq(ToSet(again))
    <3> HIDE DEF again, W
    <3>1. \A i \in 1 .. Len(again) : again[i] \in ToSet(again)
      BY <2>8, Zenon DEF ToSet
    <3>2. again = [i \in 1 .. Len(again) |-> again[i]] /\ Len(again) \in Nat
      BY <2>6, LenProperties
    <3> QED
      BY <3>1, <3>2, FunctionIsSequence
  <2> HIDE DEF again
  <2>13. NameList(again) /\ ToSet(again) = ToSet(names)
    BY <2>11, <2>12 DEF NameList
  <2> QED
    BY <2>13 DEF again, kept
<1> QED
  BY <1>1, <1>8, <1>9

\* What GetLastInputInfo has returned is the clock of the last input it has seen; the list has the
\* names the user wrote down; and what was done was right.
AntiLockInv ==
  /\ ticks \in Nat /\ last_input \in 0 .. ticks
  /\ dwTime # -1 => dwTime = seen_input % Word /\ seen_input \in 0 .. ticks
  /\ NameList(exclusions) /\ ToSet(exclusions) = ToSet(wanted)
  /\ foreground \in Titles \cup {NoWindow}
  /\ DisturbsIdleOnly

\* The activity that is simulated is due, and is not missed within a turn of the clock.
LEMMA ProcessIsRight ==
  ASSUME AntiLockInv, Process
  PROVE  DisturbsIdleOnly'
<1> DEFINE d == ticks - seen_input
<1>1. /\ dwTime = seen_input % Word /\ seen_input \in Nat /\ d \in Nat /\ ticks \in Int
      /\ processed' = [idle |-> d, window |-> foreground, acts |-> SimulatesActivity]
      /\ UNCHANGED wanted
  BY DEF AntiLockInv, Process
<1>2. TimedOut <=> d % Word > Timeout
  <2>1. ((ticks % Word) - (seen_input % Word)) % Word = (ticks - seen_input) % Word
    <3>1. Word \in Nat \ {0} /\ ticks \in Int /\ seen_input \in Int
      BY <1>1, AntiLockAssumption
    <3> QED
      BY <3>1, DifferenceOfClocks, Zenon
  <2> QED
    BY <1>1, <2>1 DEF TimedOut
<1> HIDE DEF d
<1>3. /\ TimedOut => d > Timeout
      /\ d > Timeout /\ d < Word => TimedOut
  BY <1>1, <1>2, IdleOnTheClock, AntiLockAssumption
<1>4. foreground # NoWindow => foreground \in Titles
  BY DEF AntiLockInv
<1>5. IsAnExclusion(foreground) <=> foreground \in ToSet(wanted)
  BY DEF AntiLockInv, IsAnExclusion
<1>6. processed'.idle = d /\ processed'.window = foreground /\ processed'.acts = SimulatesActivity
  BY <1>1
<1>7. NoWindow \notin Titles
  BY AntiLockAssumption
<1> QED
  BY <1>1, <1>3, <1>4, <1>5, <1>6, <1>7, Zenon DEF DisturbsIdleOnly, SimulatesActivity

\* For any turn of the ticks, time-out, windows and lists: activity is simulated when it is due,
\* unless a whole turn has passed, and only then.
THEOREM OnlyTheIdleAreDisturbed == AntiLockSpec => []DisturbsIdleOnly
<1>1. AntiLockInit => AntiLockInv
  BY AntiLockAssumption DEF AntiLockInit, AntiLockInv, NameList, DisturbsIdleOnly
<1>2. AntiLockInv /\ UNCHANGED antiLockVars => AntiLockInv'
  BY DEF AntiLockInv, NameList, DisturbsIdleOnly, antiLockVars, idle
<1>3. AntiLockInv /\ AntiLockNext => AntiLockInv'
  <2> SUFFICES ASSUME AntiLockInv, AntiLockNext PROVE AntiLockInv'
    OBVIOUS
  <2>1. CASE TickPasses
    <3>1. ticks' = ticks + 1 /\ UNCHANGED <<exclusions, foreground, wanted, idle>>
      BY <2>1 DEF TickPasses
    <3> QED
      BY <3>1 DEF AntiLockInv, NameList, DisturbsIdleOnly, idle
  <2>2. CASE UserActs
    BY <2>2 DEF UserActs, AntiLockInv, NameList, DisturbsIdleOnly
  <2>3. CASE Restart
    <3>1. /\ exclusions' = LoadExclusions(SaveExclusions(exclusions), <<>>)
          /\ UNCHANGED <<ticks, foreground, wanted, idle>>
      BY <2>3 DEF Restart
    <3>2. NameList(exclusions') /\ ToSet(exclusions') = ToSet(exclusions)
      BY <3>1, ListSurvives DEF AntiLockInv
    <3> QED
      BY <3>1, <3>2 DEF AntiLockInv, NameList, DisturbsIdleOnly, idle
  <2>4. CASE GetLastInputInfo
    BY <2>4 DEF GetLastInputInfo, AntiLockInv, NameList, DisturbsIdleOnly
  <2>5. CASE Process
    <3>1. /\ DisturbsIdleOnly' /\ UNCHANGED <<ticks, exclusions, foreground, wanted, seen_input>>
          /\ dwTime' = -1 /\ last_input' \in {last_input, ticks}
      BY <2>5, ProcessIsRight DEF Process
    <3> QED
      BY <3>1 DEF AntiLockInv, NameList
  <2> QED
    BY <2>1, <2>2, <2>3, <2>4, <2>5 DEF AntiLockNext
<1>4. AntiLockInv => DisturbsIdleOnly
  BY DEF AntiLockInv
<1> QED
  BY <1>1, <1>2, <1>3, <1>4, PTL DEF AntiLockSpec
-----------------------------------------------------------------------------
(* Sha256: where the bytes of the message are.                             *)

ShaCells   == Nat \cup {Junk}
ShaContext == [state : Seq([1 .. Block -> ShaCells]), buffer : [1 .. Block -> ShaCells],
               datalen : Nat, bitlen : Nat]

\* The b-th block of a message.
ShaBlock(b) == [i \in 1 .. Block |-> (b - 1) * Block + i]

\* The first n bytes of the message are in the blocks of ctx and in its buffer.
HasTaken(ctx, n) ==
  /\ ctx \in ShaContext /\ ctx.datalen < Block
  /\ n = Len(ctx.state) * Block + ctx.datalen
  /\ ctx.bitlen = Len(ctx.state) * (Block * ByteBits)
  /\ \A b \in 1 .. Len(ctx.state) : ctx.state[b] = ShaBlock(b)
  /\ \A i \in 1 .. ctx.datalen : ctx.buffer[i] = Len(ctx.state) * Block + i

ContextNow == [state |-> state, buffer |-> buffer, datalen |-> datalen, bitlen |-> bitlen]

ShaInv ==
  /\ hashed \in Nat
  /\ digest = <<>> => HasTaken(ContextNow, hashed)
  /\ DigestIsOfThePaddedMessage

\* Taking a byte makes a context of a context.
LEMMA TakeByteIsOfContext ==
  ASSUME NEW ctx \in ShaContext, NEW byte \in Nat
  PROVE  TakeByte(ctx, byte) \in ShaContext
<1> DEFINE bytes == [ctx.buffer EXCEPT ![ctx.datalen + 1] = byte]
<1>1. /\ ctx.state \in Seq([1 .. Block -> ShaCells]) /\ ctx.buffer \in [1 .. Block -> ShaCells]
      /\ ctx.datalen \in Nat /\ ctx.bitlen \in Nat
      /\ ctx = [state |-> ctx.state, buffer |-> ctx.buffer, datalen |-> ctx.datalen,
                bitlen |-> ctx.bitlen]
  BY DEF ShaContext
<1>2. bytes \in [1 .. Block -> ShaCells]
  BY <1>1 DEF ShaCells
<1>3. Block * ByteBits \in Nat
  BY ShaAssumption
<1> DEFINE more == ctx.bitlen + Block * ByteBits
<1>4. more \in Nat /\ ctx.datalen + 1 \in Nat
  BY <1>1, <1>3
<1>5. TakeByte(ctx, byte) =
        IF ctx.datalen + 1 = Block
        THEN [state |-> Append(ctx.state, bytes), buffer |-> bytes, datalen |-> 0, bitlen |-> more]
        ELSE [ctx EXCEPT !.buffer = bytes, !.datalen = @ + 1]
  BY DEF TakeByte, sha256_transform
<1> HIDE DEF bytes, more
<1>6. Append(ctx.state, bytes) \in Seq([1 .. Block -> ShaCells])
  BY <1>1, <1>2, AppendProperties
<1>7. [state |-> Append(ctx.state, bytes), buffer |-> bytes, datalen |-> 0, bitlen |-> more] \in ShaContext
  BY <1>2, <1>4, <1>6 DEF ShaContext
<1>8. [ctx EXCEPT !.buffer = bytes, !.datalen = @ + 1] \in ShaContext
  BY <1>1, <1>2, <1>4 DEF ShaContext
<1> QED
  BY <1>5, <1>7, <1>8, Zenon

\* One factor more is one summand more.
LEMMA OneMore == \A a, b \in Nat : (a + 1) * b = a * b + b
  OBVIOUS

\* One byte more.
LEMMA TakeByteTakes ==
  ASSUME NEW n \in Nat, NEW ctx, HasTaken(ctx, n)
  PROVE  HasTaken(TakeByte(ctx, n + 1), n + 1)
<1> DEFINE bytes == [ctx.buffer EXCEPT ![ctx.datalen + 1] = n + 1]
           L == Len(ctx.state)
           d == ctx.datalen
           s == ctx.state
           next == TakeByte(ctx, n + 1)
<1>1. /\ s \in Seq([1 .. Block -> ShaCells]) /\ ctx.buffer \in [1 .. Block -> ShaCells]
      /\ d \in Nat /\ ctx.bitlen \in Nat /\ ctx \in ShaContext /\ L \in Nat
  BY LenProperties DEF HasTaken, ShaContext
<1>2. Block \in Nat /\ Block # 0 /\ ByteBits \in Nat
  BY ShaAssumption
<1> DEFINE taken == L * Block
<1>3. taken \in Nat /\ (L + 1) * Block = taken + Block
      /\ (L + 1) * (Block * ByteBits) = L * (Block * ByteBits) + Block * ByteBits
  <2>1. Block * ByteBits \in Nat /\ taken \in Nat
    BY <1>1, <1>2
  <2> QED
    BY <1>1, <1>2, <2>1, OneMore
<1>4. /\ d < Block /\ n = taken + d /\ ctx.bitlen = L * (Block * ByteBits)
      /\ \A b \in 1 .. L : s[b] = ShaBlock(b)
      /\ \A i \in 1 .. d : ctx.buffer[i] = taken + i
  BY DEF HasTaken
<1>5. next \in ShaContext
  BY <1>1, TakeByteIsOfContext
<1>6. bytes \in [1 .. Block -> ShaCells] /\ \A i \in 1 .. d + 1 : bytes[i] = taken + i
  <2>1. d + 1 \in 1 .. Block /\ n + 1 = taken + (d + 1)
    BY <1>1, <1>2, <1>3, <1>4
  <2>2. bytes \in [1 .. Block -> ShaCells] /\ bytes[d + 1] = n + 1
        /\ \A i \in 1 .. d : bytes[i] = ctx.buffer[i]
    BY <1>1, <1>2, <2>1 DEF ShaCells
  <2> HIDE DEF bytes, d, taken
  <2> QED
    BY <1>1, <1>4, <2>1, <2>2
<1>7. CASE d + 1 = Block
  <2>1. next = [state |-> Append(s, bytes), buffer |-> bytes, datalen |-> 0,
                bitlen |-> ctx.bitlen + Block * ByteBits]
    BY <1>7 DEF TakeByte, sha256_transform
  <2> HIDE DEF next, bytes
  <2>2. /\ next.state = Append(s, bytes) /\ next.datalen = 0
        /\ next.bitlen = ctx.bitlen + Block * ByteBits
    BY <2>1
  <2>3. bytes = ShaBlock(L + 1)
    <3>1. (L + 1) - 1 = L
      BY <1>1
    <3> HIDE DEF d, taken
    <3>2. \A i \in 1 .. Block : bytes[i] = taken + i
      BY <1>6, <1>7
    <3> USE DEF taken
    <3> HIDE DEF L
    <3> QED
      BY <1>6, <3>1, <3>2 DEF ShaBlock
  <2> DEFINE q == Append(s, bytes)
  <2>4. Len(q) = L + 1 /\ q[L + 1] = bytes /\ \A b \in 1 .. L : q[b] = s[b]
    BY <1>1, <1>6, AppendProperties
  <2> HIDE DEF q, L, d, s, taken
  <2>5. \A b \in 1 .. L + 1 : q[b] = ShaBlock(b)
    BY <1>1, <1>4, <2>3, <2>4
  <2>6. n + 1 = (L + 1) * Block + 0
    BY <1>1, <1>2, <1>3, <1>4, <1>7
  <2>7. next.state = q /\ Len(next.state) = L + 1
    BY <2>2, <2>4 DEF q, s
  <2>8. next.datalen < Block /\ next.bitlen = (L + 1) * (Block * ByteBits)
    BY <1>2, <1>3, <1>4, <2>2
  <2>9. \A i \in 1 .. next.datalen : next.buffer[i] = Len(next.state) * Block + i
    BY <2>2
  <2>10. n + 1 = Len(next.state) * Block + next.datalen
    BY <2>2, <2>6, <2>7
  <2>11. next.bitlen = Len(next.state) * (Block * ByteBits)
    BY <2>7, <2>8
  <2>12. \A b \in 1 .. Len(next.state) : next.state[b] = ShaBlock(b)
    BY <2>5, <2>7
  <2>13. HasTaken(next, n + 1)
    BY <1>5, <2>8, <2>9, <2>10, <2>11, <2>12, Zenon DEF HasTaken
  <2> QED
    BY <2>13 DEF next
<1>8. CASE d + 1 # Block
  <2>1. next = [ctx EXCEPT !.buffer = bytes, !.datalen = @ + 1]
    BY <1>8 DEF TakeByte
  <2> HIDE DEF next, bytes
  <2>2. /\ next.state = s /\ next.datalen = d + 1 /\ next.bitlen = ctx.bitlen /\ next.buffer = bytes
    BY <1>1, <2>1 DEF ShaContext
  <2> HIDE DEF L, d, s, taken
  <2>3. d + 1 < Block /\ n + 1 = taken + (d + 1)
    BY <1>1, <1>2, <1>3, <1>4, <1>8
  <2>4. Len(next.state) = L /\ Len(next.state) * Block = taken
    BY <2>2 DEF L, s, taken
  <2>5. n + 1 = Len(next.state) * Block + next.datalen
    BY <2>2, <2>3, <2>4
  <2>6. next.bitlen = Len(next.state) * (Block * ByteBits)
    BY <1>4, <2>2, <2>4
  <2>7. \A i \in 1 .. next.datalen : next.buffer[i] = Len(next.state) * Block + i
    BY <1>6, <2>2, <2>4
  <2>8. \A b \in 1 .. Len(next.state) : next.state[b] = ShaBlock(b)
    BY <1>4, <2>2, <2>4
  <2>9. next.datalen < Block
    BY <2>2, <2>3
  <2>10. HasTaken(next, n + 1)
    BY <1>5, <2>5, <2>6, <2>7, <2>8, <2>9, Zenon DEF HasTaken
  <2> QED
    BY <2>10 DEF next
<1> QED
  BY <1>7, <1>8

\* A piece is taken byte by byte.
LEMMA TakenTakes ==
  ASSUME NEW len \in Nat, NEW ctx, hashed \in Nat, HasTaken(ctx, hashed)
  PROVE  HasTaken(Taken(ctx, len), hashed + len)
<1> DEFINE next == [n \in Nat |-> [c \in ShaContext |-> TakeByte(c, hashed + (n + 1))]]
           Defines(f) == f = [i \in 0 .. len |-> IF i = 0 THEN ctx ELSE TakeByte(f[i - 1], hashed + i)]
<1>1. \A n \in Nat : \A c \in ShaContext : TakeByte(c, hashed + (n + 1)) \in ShaContext
  <2> SUFFICES ASSUME NEW n \in Nat, NEW c \in ShaContext
               PROVE  TakeByte(c, hashed + (n + 1)) \in ShaContext
    OBVIOUS
  <2>1. hashed + (n + 1) \in Nat
    OBVIOUS
  <2> QED
    BY <2>1, TakeByteIsOfContext
<1>2. next \in [Nat -> [ShaContext -> ShaContext]]
  BY <1>1, Zenon
<1>3. \A n \in Nat : \A c \in ShaContext : next[n][c] = TakeByte(c, hashed + (n + 1))
  BY Zenon
<1> HIDE DEF next
<1>4. PICK g : Unfolds(g, ShaContext, ctx, next)
  <2>1. \A base \in ShaContext : \E g : Unfolds(g, ShaContext, base, next)
    BY <1>2, Recursion
  <2> QED
    BY <2>1, Zenon DEF HasTaken
<1>5. /\ \A n \in Nat : g[n] \in ShaContext
      /\ g[0] = ctx /\ \A n \in Nat : g[n + 1] = next[n][g[n]]
  BY <1>4 DEF Unfolds
<1>6. \A i \in 1 .. len : g[i] = TakeByte(g[i - 1], hashed + i)
  <2> SUFFICES ASSUME NEW i \in 1 .. len PROVE g[i] = TakeByte(g[i - 1], hashed + i)
    OBVIOUS
  <2>1. i - 1 \in Nat /\ (i - 1) + 1 = i
    OBVIOUS
  <2>2. g[i] = next[i - 1][g[i - 1]] /\ g[i - 1] \in ShaContext
    BY <1>5, <2>1
  <2>3. next[i - 1][g[i - 1]] = TakeByte(g[i - 1], hashed + ((i - 1) + 1))
    BY <1>3, <2>1, <2>2, Zenon
  <2> QED
    BY <2>1, <2>2, <2>3
<1> DEFINE h == [i \in 0 .. len |-> g[i]]
<1>7. Defines(h)
  <2>1. \A i \in 0 .. len : i = 0 \/ (i \in 1 .. len /\ i - 1 \in 0 .. len)
    OBVIOUS
  <2> QED
    BY <1>5, <1>6, <2>1
<1> DEFINE after == CHOOSE f : Defines(f)
<1>8. Defines(after)
  <2> HIDE DEF Defines, h
  <2> QED
    BY <1>7
<1>9. Taken(ctx, len) = after[len]
  BY DEF Taken
<1> HIDE DEF after
<1>10. after[0] = ctx /\ \A i \in 1 .. len : after[i] = TakeByte(after[i - 1], hashed + i)
  <2>1. 0 \in 0 .. len /\ \A i \in 1 .. len : i \in 0 .. len /\ i # 0
    OBVIOUS
  <2> QED
    BY <1>8, <2>1, Zenon
<1> HIDE DEF Defines
<1> DEFINE T == {i \in Nat : i <= len => HasTaken(after[i], hashed + i)}
<1>11. 0 \in T
  <2>1. hashed + 0 = hashed
    OBVIOUS
  <2>2. HasTaken(after[0], hashed + 0)
    BY <1>10, <2>1
  <2> QED
    BY <2>2
<1>12. ASSUME NEW n \in Nat, n \in T PROVE n + 1 \in T
  <2> SUFFICES ASSUME n + 1 <= len PROVE HasTaken(after[n + 1], hashed + (n + 1))
    OBVIOUS
  <2>1. n + 1 \in 1 .. len /\ (n + 1) - 1 = n /\ hashed + n \in Nat /\ hashed + (n + 1) = (hashed + n) + 1
    OBVIOUS
  <2>2. HasTaken(after[n], hashed + n)
    BY <1>12
  <2>3. after[n + 1] = TakeByte(after[n], (hashed + n) + 1)
    BY <1>10, <2>1
  <2>4. HasTaken(TakeByte(after[n], (hashed + n) + 1), (hashed + n) + 1)
    BY <2>1, <2>2, TakeByteTakes
  <2> QED
    BY <2>1, <2>3, <2>4
<1> HIDE DEF T
<1>13. len \in T
  BY <1>11, <1>12, Upwards
<1> QED
  BY <1>9, <1>13 DEF T

\* What a digest should be, when the padded message has B blocks.
PaddingCell(B, j) ==
  IF j <= hashed THEN j ELSE IF j = hashed + 1 THEN "one"
  ELSE IF j <= (B - 1) * Block + LengthAt THEN "zero"
  ELSE <<hashed * ByteBits, j - (B - 1) * Block>>
PaddingBlock(B, b) == [i \in 1 .. Block |-> PaddingCell(B, (b - 1) * Block + i)]

\* The blocks of the padded message, one by one.
LEMMA BlocksOfThePaddedMessage ==
  ASSUME NEW B \in Nat, NEW r \in 0 .. Block - 1, hashed \in Nat,
         hashed + 1 + (Block - LengthAt) + Block - 1 = (Block * B) + r
  PROVE  PaddedMessage(hashed) = [b \in 1 .. B |-> PaddingBlock(B, b)]
<1>1. ((Block * B) + r) \div Block = B
  <2>1. \A n \in Nat \ {0}, k \in Int : \A q \in 0 .. n - 1 : ((n * k) + q) \div n = k
    OBVIOUS
  <2> QED
    BY <2>1, ShaAssumption
<1>2. (hashed + 1 + (Block - LengthAt) + Block - 1) \div Block = B
  BY <1>1
<1> QED
  BY <1>2 DEF PaddedMessage, PaddingBlock, PaddingCell

\* The blocks that are full of the message.
LEMMA FullBlock ==
  ASSUME NEW B \in Nat, NEW L \in Nat, hashed \in Nat, L * Block <= hashed, NEW b \in 1 .. L
  PROVE  PaddingBlock(B, b) = ShaBlock(b)
<1>1. Block \in Nat /\ b \in Nat
  BY ShaAssumption
<1>2. (b - 1) * Block + Block <= L * Block
  <2>1. L - b \in Nat /\ (L - b) * Block \in Nat
    BY <1>1
  <2>2. (b - 1) * Block + Block + (L - b) * Block = L * Block
    BY <1>1
  <2>3. (b - 1) * Block \in Nat /\ L * Block \in Nat
    BY <1>1
  <2> QED
    BY <1>1, <2>1, <2>2, <2>3
<1>3. ASSUME NEW i \in 1 .. Block PROVE PaddingCell(B, (b - 1) * Block + i) = (b - 1) * Block + i
  <2>1. (b - 1) * Block \in Nat /\ L * Block \in Nat
    BY <1>1
  <2>2. (b - 1) * Block + i <= hashed
    BY <1>1, <1>2, <2>1
  <2> QED
    BY <2>2 DEF PaddingCell
<1> QED
  BY <1>3 DEF PaddingBlock, ShaBlock

\* The end of the message.
LEMMA FinalPads ==
  ASSUME hashed \in Nat, HasTaken(ContextNow, hashed), sha256_final
  PROVE  digest' = PaddedMessage(hashed)
<1> DEFINE L == Len(state)
           d == datalen
           t == L * Block
           bits == bitlen + d * ByteBits
           full == Padded(buffer, d + 1, Block)
           short == WithLength(Padded(buffer, d + 1, LengthAt), bits)
           rest == [i \in 1 .. Block |-> IF i <= LengthAt THEN "zero" ELSE full[i]]
           Cell == UNION {ShaCells, {"one", "zero"}, {<<bits, i>> : i \in 1 .. Block}}
           X == [1 .. Block -> Cell]
<1>1. /\ ContextNow.state = state /\ ContextNow.buffer = buffer /\ ContextNow.datalen = datalen
      /\ ContextNow.bitlen = bitlen
  BY DEF ContextNow
<1>2. /\ state \in Seq([1 .. Block -> ShaCells]) /\ buffer \in [1 .. Block -> ShaCells]
      /\ d \in Nat /\ bitlen \in Nat /\ L \in Nat
  BY <1>1, LenProperties DEF HasTaken, ShaContext
<1>3. /\ d < Block /\ hashed = t + d /\ bitlen = L * (Block * ByteBits)
      /\ \A b \in 1 .. L : state[b] = ShaBlock(b)
      /\ \A i \in 1 .. d : buffer[i] = t + i
  BY <1>1 DEF HasTaken
<1>4. /\ Block \in Nat /\ Block # 0 /\ ByteBits \in Nat /\ LengthAt \in 0 .. Block - 1
  BY ShaAssumption
<1>5. t \in Nat /\ (L + 1) * Block = t + Block /\ ((L + 1) - 1) * Block = t
      /\ ((L + 2) - 1) * Block = t + Block
      /\ Block * (L + 1) = t + Block /\ Block * (L + 2) = t + Block + Block
  <2>1. t \in Nat /\ (L + 1) - 1 = L /\ (L + 2) - 1 = L + 1 /\ L + 1 \in Nat
    BY <1>2, <1>4
  <2>2. (L + 1) * Block = t + Block /\ ((L + 1) + 1) * Block = (L + 1) * Block + Block
    BY <1>2, <1>4, <2>1, OneMore
  <2>3. Block * (L + 1) = (L + 1) * Block /\ Block * (L + 2) = ((L + 1) + 1) * Block
    BY <1>2, <1>4
  <2>4. ((L + 1) - 1) * Block = t /\ ((L + 2) - 1) * Block = (L + 1) * Block
    BY <2>1
  <2> DEFINE u == (L + 1) * Block
             v == ((L + 1) + 1) * Block
  <2>5. u = t + Block /\ v = t + Block + Block
    BY <2>2
  <2> QED
    BY <2>1, <2>3, <2>4, <2>5, Zenon
<1>6. bits = hashed * ByteBits
  <2>1. \A a, b, c, e \in Nat : a * (b * c) + e * c = (a * b + e) * c
    OBVIOUS
  <2> QED
    BY <1>2, <1>3, <1>4, <2>1
<1>7. state \in Seq(X) /\ full \in X /\ short \in X
      /\ WithLength(rest, bits) \in X
  <2>1. [1 .. Block -> ShaCells] \subseteq X
    OBVIOUS
  <2> DEFINE Y == [1 .. Block -> ShaCells]
  <2>2. state \in Seq(X)
    <3> HIDE DEF X, Y
    <3>1. state \in Seq(Y) /\ Y \subseteq X
      BY <1>2, <2>1 DEF Y
    <3> QED
      BY <3>1
  <2>3. full \in X
    BY <1>2 DEF Padded
  <2>4. short \in X
    BY <1>2 DEF Padded, WithLength
  <2>5. WithLength(rest, bits) \in X
    BY <1>2 DEF Padded, WithLength
  <2> QED
    BY <2>2, <2>3, <2>4, <2>5
<1>8. digest' = IF FitsLength THEN Append(state, short)
                ELSE Append(Append(state, full), WithLength(rest, bits))
  BY DEF sha256_final, sha256_transform
<1> HIDE DEF X, Cell
<1>9. CASE FitsLength
  <2>1. d < LengthAt
    BY <1>9 DEF FitsLength
  <2>2. PaddedMessage(hashed) = [b \in 1 .. L + 1 |-> PaddingBlock(L + 1, b)]
    <3>1. L + 1 \in Nat /\ d + Block - LengthAt \in 0 .. Block - 1
      BY <1>2, <1>4, <2>1
    <3>2. hashed + 1 + (Block - LengthAt) + Block - 1 = (Block * (L + 1)) + (d + Block - LengthAt)
      <4> HIDE DEF L, d, t
      <4> QED
        BY <1>2, <1>3, <1>4, <1>5
    <3> QED
      BY <3>1, <3>2, BlocksOfThePaddedMessage
  <2>3. PaddingBlock(L + 1, L + 1) = short
    <3> SUFFICES ASSUME NEW i \in 1 .. Block
                 PROVE  PaddingCell(L + 1, ((L + 1) - 1) * Block + i) =
                          (IF i > LengthAt THEN <<bits, i>> ELSE
                           IF i = d + 1 THEN "one" ELSE IF i > d + 1 /\ i <= LengthAt THEN "zero"
                           ELSE buffer[i])
      BY DEF PaddingBlock, WithLength, Padded
    <3> HIDE DEF L, d, t, bits
    <3>1. PaddingCell(L + 1, t + i) =
            IF t + i <= t + d THEN t + i ELSE IF t + i = t + d + 1 THEN "one"
            ELSE IF t + i <= t + LengthAt THEN "zero" ELSE <<bits, (t + i) - t>>
      BY <1>3, <1>5, <1>6 DEF PaddingCell
    <3>2. /\ (t + i <= t + d <=> i <= d) /\ (t + i = t + d + 1 <=> i = d + 1)
          /\ (t + i <= t + LengthAt <=> i <= LengthAt)
          /\ (t + i) - t = i
      BY <1>2, <1>4, <1>5
    <3>3. PaddingCell(L + 1, t + i) =
            IF i <= d THEN t + i ELSE IF i = d + 1 THEN "one"
            ELSE IF i <= LengthAt THEN "zero" ELSE <<bits, i>>
      BY <3>1, <3>2, Zenon
    <3>4. ((L + 1) - 1) * Block + i = t + i
      BY <1>5
    <3>5. (i <= d => buffer[i] = t + i /\ ~(i > LengthAt) /\ ~(i = d + 1) /\ ~(i > d + 1))
          /\ (i = d + 1 => ~(i <= d) /\ ~(i > LengthAt))
          /\ (i # d + 1 /\ ~(i <= d) => i > d + 1)
          /\ (i > LengthAt <=> ~(i <= LengthAt))
      BY <1>2, <1>3, <1>4, <2>1
    <3> QED
      BY <3>3, <3>4, <3>5, Zenon
  <2>4. \A b \in 1 .. L : PaddingBlock(L + 1, b) = state[b]
    <3>1. L * Block <= hashed /\ L + 1 \in Nat
      BY <1>2, <1>3, <1>5
    <3> QED
      BY <1>2, <1>3, <3>1, FullBlock
  <2>5. Append(state, short) = [b \in 1 .. L + 1 |-> IF b <= L THEN state[b] ELSE short]
    <3> HIDE DEF short
    <3> QED
      BY <1>7, AppendAsFunction
  <2> HIDE DEF short, L
  <2>6. \A b \in 1 .. L + 1 : PaddingBlock(L + 1, b) = IF b <= L THEN state[b] ELSE short
    <3> SUFFICES ASSUME NEW b \in 1 .. L + 1
                 PROVE  PaddingBlock(L + 1, b) = IF b <= L THEN state[b] ELSE short
      OBVIOUS
    <3>1. b \in 1 .. L \/ (b = L + 1 /\ ~(b <= L))
      BY <1>2
    <3> QED
      BY <2>3, <2>4, <3>1
  <2> QED
    BY <1>8, <1>9, <2>2, <2>5, <2>6
<1>10. CASE ~FitsLength
  <2>1. d >= LengthAt
    BY <1>2, <1>4, <1>10 DEF FitsLength
  <2> DEFINE last == WithLength(rest, bits)
  <2>2. PaddedMessage(hashed) = [b \in 1 .. L + 2 |-> PaddingBlock(L + 2, b)]
    <3>1. L + 2 \in Nat /\ d - LengthAt \in 0 .. Block - 1
      BY <1>2, <1>3, <1>4, <2>1
    <3>2. hashed + 1 + (Block - LengthAt) + Block - 1 = (Block * (L + 2)) + (d - LengthAt)
      <4> HIDE DEF L, d, t
      <4> QED
        BY <1>2, <1>3, <1>4, <1>5
    <3> QED
      BY <3>1, <3>2, BlocksOfThePaddedMessage
  <2>3. PaddingBlock(L + 2, L + 2) = last
    <3> SUFFICES ASSUME NEW i \in 1 .. Block
                 PROVE  PaddingCell(L + 2, ((L + 2) - 1) * Block + i) =
                          (IF i > LengthAt THEN <<bits, i>> ELSE "zero")
      BY <1>4 DEF PaddingBlock, WithLength
    <3> HIDE DEF L, d, t, bits
    <3>1. PaddingCell(L + 2, t + Block + i) =
            IF t + Block + i <= t + d THEN t + Block + i
            ELSE IF t + Block + i = t + d + 1 THEN "one"
            ELSE IF t + Block + i <= t + Block + LengthAt THEN "zero"
            ELSE <<bits, (t + Block + i) - (t + Block)>>
      BY <1>3, <1>5, <1>6 DEF PaddingCell
    <3>2. /\ ~(t + Block + i <= t + d) /\ t + Block + i # t + d + 1
          /\ (t + Block + i <= t + Block + LengthAt <=> i <= LengthAt)
          /\ (t + Block + i) - (t + Block) = i
      BY <1>2, <1>3, <1>4, <1>5
    <3> QED
      BY <1>4, <1>5, <3>1, <3>2
  <2>4. PaddingBlock(L + 2, L + 1) = full
    <3> SUFFICES ASSUME NEW i \in 1 .. Block
                 PROVE  PaddingCell(L + 2, ((L + 1) - 1) * Block + i) =
                          (IF i = d + 1 THEN "one" ELSE IF i > d + 1 /\ i <= Block THEN "zero"
                           ELSE buffer[i])
      BY DEF PaddingBlock, Padded
    <3> HIDE DEF L, d, t, bits
    <3>1. PaddingCell(L + 2, t + i) =
            IF t + i <= t + d THEN t + i ELSE IF t + i = t + d + 1 THEN "one"
            ELSE IF t + i <= t + Block + LengthAt THEN "zero"
            ELSE <<bits, (t + i) - (t + Block)>>
      BY <1>3, <1>5, <1>6 DEF PaddingCell
    <3>2. /\ (t + i <= t + d <=> i <= d) /\ (t + i = t + d + 1 <=> i = d + 1)
          /\ t + i <= t + Block + LengthAt
      BY <1>2, <1>4, <1>5
    <3>3. PaddingCell(L + 2, t + i) =
            IF i <= d THEN t + i ELSE IF i = d + 1 THEN "one" ELSE "zero"
      BY <3>1, <3>2, Zenon
    <3>4. ((L + 1) - 1) * Block + i = t + i
      BY <1>5
    <3>5. (i <= d => buffer[i] = t + i /\ ~(i = d + 1) /\ ~(i > d + 1))
          /\ (i = d + 1 => ~(i <= d))
          /\ (i # d + 1 /\ ~(i <= d) => i > d + 1) /\ i <= Block
      BY <1>2, <1>3, <1>4
    <3> QED
      BY <3>3, <3>4, <3>5, Zenon
  <2>5. \A b \in 1 .. L : PaddingBlock(L + 2, b) = state[b]
    <3>1. L * Block <= hashed /\ L + 2 \in Nat
      BY <1>2, <1>3, <1>5
    <3> QED
      BY <1>2, <1>3, <3>1, FullBlock
  <2>6. Append(Append(state, full), last) =
          [b \in 1 .. L + 2 |-> IF b <= L THEN state[b] ELSE IF b = L + 1 THEN full ELSE last]
    <3> HIDE DEF full, last
    <3> DEFINE q == Append(state, full)
    <3>1. q \in Seq(X) /\ Len(q) = L + 1 /\ q[L + 1] = full /\ \A b \in 1 .. L : q[b] = state[b]
      BY <1>7, AppendProperties
    <3> HIDE DEF q
    <3>2. last \in X
      BY <1>7 DEF last
    <3>3. Append(q, last) = [b \in 1 .. Len(q) + 1 |-> IF b <= Len(q) THEN q[b] ELSE last]
      BY <3>1, <3>2, AppendAsFunction
    <3>4. ASSUME NEW b \in 1 .. L + 2
          PROVE  (IF b <= L + 1 THEN q[b] ELSE last)
                   = IF b <= L THEN state[b] ELSE IF b = L + 1 THEN full ELSE last
      BY <1>2, <3>1
    <3>5. Len(q) + 1 = L + 2 /\ Len(q) = L + 1
      BY <1>2, <3>1
    <3> HIDE DEF L
    <3>6. Append(q, last) = [b \in 1 .. L + 2 |-> IF b <= L + 1 THEN q[b] ELSE last]
      BY <3>3, <3>5
    <3> QED
      BY <3>4, <3>6 DEF q
  <2> HIDE DEF full, last, L
  <2>7. ASSUME NEW b \in 1 .. L + 2
        PROVE  PaddingBlock(L + 2, b)
                 = IF b <= L THEN state[b] ELSE IF b = L + 1 THEN full ELSE last
    <3>1. b \in 1 .. L \/ (b = L + 1 /\ ~(b <= L)) \/ (b = L + 2 /\ b # L + 1 /\ ~(b <= L))
      BY <1>2
    <3> QED
      BY <2>3, <2>4, <2>5, <3>1
  <2>8. digest' = Append(Append(state, full), last)
    BY <1>8, <1>10 DEF last
  <2> QED
    BY <2>2, <2>6, <2>7, <2>8
<1> QED
  BY <1>9, <1>10

\* For every block size, place of the length and pieces: the digest is that of the padded message.
THEOREM DigestsAreOfPaddedMessages == ShaSpec => []DigestIsOfThePaddedMessage
<1>1. ShaInit => ShaInv
  <2> SUFFICES ASSUME ShaInit PROVE HasTaken(ContextNow, 0) /\ ShaInv
    OBVIOUS
  <2>1. /\ state = <<>> /\ datalen = 0 /\ bitlen = 0 /\ hashed = 0 /\ digest = <<>>
        /\ buffer = [i \in 1 .. Block |-> Junk]
    BY DEF ShaInit
  <2>2. /\ ContextNow.state = <<>> /\ ContextNow.buffer = buffer /\ ContextNow.datalen = 0
        /\ ContextNow.bitlen = 0
    BY <2>1 DEF ContextNow
  <2>3. ContextNow \in ShaContext
    <3>1. buffer \in [1 .. Block -> ShaCells] /\ <<>> \in Seq([1 .. Block -> ShaCells])
      BY <2>1 DEF ShaCells
    <3> QED
      BY <2>1, <3>1 DEF ContextNow, ShaContext
  <2>4. Block \in Nat /\ Block # 0 /\ Block * ByteBits \in Nat /\ 0 * Block = 0
        /\ 0 * (Block * ByteBits) = 0 /\ Len(<<>>) = 0
    BY ShaAssumption
  <2>5. HasTaken(ContextNow, 0)
    BY <2>2, <2>3, <2>4 DEF HasTaken
  <2> QED
    BY <2>1, <2>5 DEF ShaInv, DigestIsOfThePaddedMessage
<1>2. ShaInv /\ [ShaNext]_shaVars => ShaInv'
  <2> SUFFICES ASSUME ShaInv, [ShaNext]_shaVars PROVE ShaInv'
    OBVIOUS
  <2>1. CASE UNCHANGED shaVars
    <3>1. ContextNow' = ContextNow /\ UNCHANGED <<hashed, digest>>
      BY <2>1 DEF shaVars, ContextNow
    <3>2. PaddedMessage(hashed)' = PaddedMessage(hashed)
      BY <3>1 DEF PaddedMessage
    <3> QED
      BY <3>1, <3>2 DEF ShaInv, HasTaken, DigestIsOfThePaddedMessage
  <2>2. CASE sha256_final
    <3>1. digest = <<>> /\ UNCHANGED hashed
      BY <2>2 DEF sha256_final
    <3>2. digest' = PaddedMessage(hashed)
      BY <2>2, <3>1, FinalPads DEF ShaInv
    <3>3. digest' # <<>>
      BY <2>2 DEF sha256_final, sha256_transform
    <3> QED
      BY <3>1, <3>2, <3>3 DEF ShaInv, DigestIsOfThePaddedMessage, PaddedMessage
  <2>3. ASSUME NEW len \in Pieces, sha256_update(len) PROVE ShaInv'
    <3>1. len \in Nat /\ hashed \in Nat /\ HasTaken(ContextNow, hashed)
      BY <2>3, ShaAssumption DEF ShaInv, sha256_update
    <3> DEFINE ctx == Taken(ContextNow, len)
    <3>2. HasTaken(ctx, hashed + len)
      BY <3>1, TakenTakes
    <3>3. /\ state' = ctx.state /\ buffer' = ctx.buffer /\ datalen' = ctx.datalen
          /\ bitlen' = ctx.bitlen /\ hashed' = hashed + len /\ digest' = <<>>
      BY <2>3 DEF sha256_update, ContextNow
    <3>4. ctx = [state |-> ctx.state, buffer |-> ctx.buffer, datalen |-> ctx.datalen,
                 bitlen |-> ctx.bitlen]
      <4> HIDE DEF ctx
      <4> QED
        BY <3>2 DEF HasTaken, ShaContext
    <3> HIDE DEF ctx
    <3>5. ContextNow' = ctx
      BY <3>3, <3>4 DEF ContextNow
    <3>6. HasTaken(ContextNow, hashed)'
      BY <3>2, <3>3, <3>5 DEF HasTaken
    <3> QED
      BY <3>1, <3>3, <3>6 DEF ShaInv, DigestIsOfThePaddedMessage
  <2> QED
    BY <2>1, <2>2, <2>3 DEF ShaNext
<1>3. ShaInv => DigestIsOfThePaddedMessage
  BY DEF ShaInv
<1> QED
  BY <1>1, <1>2, <1>3, PTL DEF ShaSpec
-----------------------------------------------------------------------------
(* Screenshot: where decodeBMP finds the bytes of a pixel.                 *)

\* What the screenshot remembers of the clipboard is what was there.
Remembers(h) ==
  /\ h.of \in Pictures
  /\ h.offset = FileHeader + GetPixelDataOffsetForPackedDIB(h.of)
  /\ h.size = FileHeader + SizeOf(h.of)

ShotInv ==
  /\ clipboard \in Pictures \cup {NoPicture}
  /\ screenshot_future = "copy" => Remembers(handle)
  /\ ScreenshotIsUpright

\* The pixels begin where the code says.
LEMMA PixelsBeginThere ==
  ASSUME NEW p \in Pictures, p.bits \in {24, 32}
  PROVE  GetPixelDataOffsetForPackedDIB(p) = Pixels(p) /\ Pixels(p) \in Nat
<1>1. /\ p.size \in Nat /\ p.size >= InfoHeader /\ p.used \in Nat /\ p.colours \in Nat
      /\ InfoHeader \in Nat /\ Len(p.masks) \in {0, 3, 4} /\ p.masks \in Seq({"blue", "green", "red", "alpha"})
      /\ p.compression = IF p.masks = <<>> THEN "rgb"
                         ELSE IF Len(p.masks) = 3 THEN "bitfields" ELSE "alphabitfields"
  BY ShotAssumption
<1>2. ~(p.bits <= 8)
  OBVIOUS
<1>3. p.colours = p.used
  BY <1>2, ShotAssumption
<1>4. MaskBytes(p) = IF p.size > InfoHeader THEN 0 ELSE Len(p.masks) * 4
  <2>1. MaskBytes(p) = IF p.size # InfoHeader THEN 0
                       ELSE CASE p.compression = "bitfields" -> 12
                              [] p.compression = "alphabitfields" -> 16 [] OTHER -> 0
    BY <1>2 DEF MaskBytes
  <2>2. p.masks = <<>> <=> Len(p.masks) = 0
    BY <1>1, EmptySeq
  <2>3. p.size > InfoHeader <=> p.size # InfoHeader
    BY <1>1
  <2>4. CASE Len(p.masks) = 0
    BY <1>1, <2>1, <2>2, <2>3, <2>4
  <2>5. CASE Len(p.masks) = 3
    BY <1>1, <2>1, <2>2, <2>3, <2>5
  <2>6. CASE Len(p.masks) = 4
    BY <1>1, <2>1, <2>2, <2>3, <2>6
  <2> QED
    BY <1>1, <2>4, <2>5, <2>6
<1>5. GetPixelDataOffsetForPackedDIB(p) = p.size + MaskBytes(p) + (IF p.used > 0 THEN p.used * 4 ELSE 0)
  BY <1>2 DEF GetPixelDataOffsetForPackedDIB
<1>6. Pixels(p) = p.size + MaskBytes(p) + p.used * 4
  BY <1>3, <1>4 DEF Pixels
<1>7. MaskBytes(p) \in Nat
  BY <1>1, <1>4
<1> QED
  BY <1>1, <1>5, <1>6, <1>7

\* A row is as long as the code says: its bytes, filled up to four.
LEMMA RowsAreFilledUp ==
  ASSUME NEW p \in Pictures, p.bits \in {24, 32}
  PROVE  /\ RowSize(p) = ScanlineBytes(p.width, p.bits \div 8) /\ RowSize(p) \in Nat \ {0}
         /\ p.width * (p.bits \div 8) <= RowSize(p)
<1>1. p.width \in Nat \ {0}
  BY ShotAssumption
<1>2. CASE p.bits = 24
  <2>1. p.bits \div 8 = 3
    BY <1>2
  <2> DEFINE w == p.width
             q == w \div 4
             r == w % 4
  <2>2. w = 4 * q + r /\ q \in Nat /\ r \in 0 .. 3
    BY <1>1
  <2>3. RowSize(p) = ((w * 24 + 31) \div 32) * 4
    BY <1>2 DEF RowSize
  <2>4. ScanlineBytes(w, 3) = IF (w * 3) % 4 # 0 THEN ((w * 3) \div 4) * 4 + 4 ELSE w * 3
    BY DEF ScanlineBytes
  <2> HIDE DEF w, q, r
  <2>5. w * 24 = 96 * q + 24 * r /\ w * 3 = 12 * q + 3 * r
    BY <2>2
  <2>6. RowSize(p) = 12 * q + 3 * r + r
    <3>1. CASE r = 0
      BY <2>2, <2>3, <2>5, <3>1
    <3>2. CASE r = 1
      BY <2>2, <2>3, <2>5, <3>2
    <3>3. CASE r = 2
      BY <2>2, <2>3, <2>5, <3>3
    <3>4. CASE r = 3
      BY <2>2, <2>3, <2>5, <3>4
    <3> QED
      BY <2>2, <3>1, <3>2, <3>3, <3>4
  <2>7. ScanlineBytes(w, 3) = 12 * q + 3 * r + r
    <3>1. CASE r = 0
      BY <2>2, <2>4, <2>5, <3>1
    <3>2. CASE r = 1
      BY <2>2, <2>4, <2>5, <3>2
    <3>3. CASE r = 2
      BY <2>2, <2>4, <2>5, <3>3
    <3>4. CASE r = 3
      BY <2>2, <2>4, <2>5, <3>4
    <3> QED
      BY <2>2, <3>1, <3>2, <3>3, <3>4
  <2>8. w # 0
    BY <1>1 DEF w
  <2>9. RowSize(p) \in Nat \ {0} /\ w * 3 <= RowSize(p) /\ RowSize(p) = ScanlineBytes(w, 3)
    BY <2>2, <2>5, <2>6, <2>7, <2>8
  <2> QED
    BY <2>1, <2>9 DEF w
<1>3. CASE p.bits = 32
  <2>1. p.bits \div 8 = 4
    BY <1>3
  <2> QED
    BY <1>1, <1>3, <2>1 DEF RowSize, ScanlineBytes
<1> QED
  BY <1>2, <1>3

\* The quotient and the remainder of k turns and a rest.
LEMMA PlaceInTurn ==
  ASSUME NEW n \in Nat \ {0}, NEW k \in Int, NEW r \in 0 .. n - 1
  PROVE  (k * n + r) \div n = k /\ (k * n + r) % n = r
<1>1. k * n = n * k
  OBVIOUS
<1>2. ((n * k) + r) \div n = k /\ ((n * k) + r) % n = r
  OBVIOUS
<1> QED
  BY <1>1, <1>2

\* Channel k of the pixel in column x and row y from above.
LEMMA BytesOfPixels ==
  ASSUME NEW p \in Pictures, p.bits \in {24, 32}, p.height > 0,
         NEW x \in 0 .. p.width - 1, NEW y \in 0 .. p.height - 1, NEW k \in 0 .. (p.bits \div 8) - 1
  PROVE  Byte(p, Pixels(p) + (p.height - y - 1) * RowSize(p) + (p.bits \div 8) * x + k)
           = <<x, y, Order(p)[1 + k]>>
<1> DEFINE nc == p.bits \div 8
           R  == RowSize(p)
           P  == Pixels(p)
           v  == p.height - y - 1
           a  == nc * x + k
           i  == P + v * R + a
<1>1. /\ p.width \in Nat \ {0} /\ p.height \in Int
  BY ShotAssumption
<1>2. nc \in {3, 4} /\ p.bits = 8 * nc
  OBVIOUS
<1>3. R \in Nat \ {0} /\ p.width * nc <= R /\ P \in Nat
  BY RowsAreFilledUp, PixelsBeginThere
<1>4. v \in Nat /\ p.height - 1 - v = y
  BY <1>1
<1>5. a \in 0 .. R - 1
  <2>1. CASE nc = 3
    BY <1>1, <1>3, <2>1
  <2>2. CASE nc = 4
    BY <1>1, <1>3, <2>2
  <2> QED
    BY <1>2, <2>1, <2>2
<1>6. (a * 8) \div p.bits = x /\ a % nc = k
  <2>1. CASE nc = 3
    BY <1>1, <1>2, <2>1
  <2>2. CASE nc = 4
    BY <1>1, <1>2, <2>2
  <2> QED
    BY <1>2, <2>1, <2>2
<1> HIDE DEF nc, R, P, v, a
<1>7. v * R \in Nat /\ i - P = v * R + a /\ ~(i < P)
  BY <1>3, <1>4, <1>5
<1>8. (i - P) \div R = v /\ (i - P) % R = a
  <2>1. (v * R + a) \div R = v /\ (v * R + a) % R = a
    <3>1. R \in Nat \ {0} /\ v \in Int /\ a \in 0 .. R - 1
      BY <1>3, <1>4, <1>5
    <3> QED
      BY <3>1, PlaceInTurn, Zenon
  <2> QED
    BY <1>7, <2>1
<1>9. ~(x >= p.width) /\ ~(p.height < 0)
  BY <1>1
<1> HIDE DEF i
<1>10. Byte(p, i) = <<x, p.height - 1 - v, Order(p)[1 + k]>>
  BY <1>6, <1>7, <1>8, <1>9 DEF Byte, nc, R, P
<1>11. Byte(p, i) = <<x, y, Order(p)[1 + k]>>
  BY <1>4, <1>10
<1> QED
  <2>1. i = Pixels(p) + (p.height - y - 1) * RowSize(p) + (p.bits \div 8) * x + k
    BY <1>2, <1>3, <1>4, <1>5, <1>7 DEF i, P, v, R, a, nc
  <2> QED
    BY <1>11, <2>1

\* The pixel of each byte of the picture for lodepng.
LEMMA PixelOfByte ==
  ASSUME NEW w \in Nat \ {0}, NEW h \in Nat \ {0}, NEW i \in 0 .. w * h * 4 - 1
  PROVE  /\ (i \div 4) % w \in 0 .. w - 1 /\ i \div (4 * w) \in 0 .. h - 1 /\ i % 4 \in 0 .. 3
<1> DEFINE n == 4 * w
           y == i \div n
           r == i % n
<1>1. n \in Nat \ {0} /\ w * h * 4 = n * h /\ n * h \in Nat
  <2>1. w * h \in Nat /\ n * h \in Nat /\ n \in Nat \ {0}
    OBVIOUS
  <2>2. w * h * 4 = n * h
    OBVIOUS
  <2> QED
    BY <2>1, <2>2
<1>2. i \in Nat /\ i < n * h
  BY <1>1
<1> HIDE DEF n
<1>3. r \in 0 .. n - 1 /\ y \in Int /\ i = (n * y) + r
  BY <1>1, <1>2, TurnsAndRest
<1> HIDE DEF y, r
<1>4. y >= 0
  <2> SUFFICES ASSUME y < 0 PROVE FALSE
    BY <1>3
  <2>1. n * (0 - 1 - y) >= 0 /\ n * (0 - 1 - y) = 0 - n - n * y /\ n * y \in Int
    BY <1>1, <1>3
  <2> QED
    BY <1>1, <1>2, <1>3, <2>1
<1>5. y < h
  <2> SUFFICES ASSUME y >= h PROVE FALSE
    BY <1>3
  <2>1. n * (y - h) >= 0 /\ n * (y - h) = n * y - n * h /\ n * y \in Int
    BY <1>1, <1>3
  <2> QED
    BY <1>1, <1>2, <1>3, <2>1
<1>6. (i \div 4) % w \in 0 .. w - 1 /\ i % 4 \in 0 .. 3
  OBVIOUS
<1> QED
  BY <1>3, <1>4, <1>5, <1>6 DEF y, n

\* A rectangle that is no larger in both directions and has as many pixels is the same.
LEMMA NoLargerNoSmaller ==
  ASSUME NEW w \in Nat, NEW h \in Nat, NEW W \in Nat \ {0}, NEW H \in Nat \ {0},
         w <= W, h <= H, W * H <= w * h
  PROVE  w = W /\ h = H
<1>1. h = H
  <2> SUFFICES ASSUME h < H PROVE FALSE
    OBVIOUS
  <2>1. (H - 1 - h) * W >= 0 /\ (H - 1 - h) * W = H * W - W - h * W /\ h * W \in Nat /\ H * W \in Nat
    OBVIOUS
  <2>2. (W - w) * h >= 0 /\ (W - w) * h = W * h - w * h /\ w * h \in Nat
    OBVIOUS
  <2>3. W * H = H * W /\ W * h = h * W
    OBVIOUS
  <2> QED
    BY <2>1, <2>2, <2>3
<1>2. w = W
  <2> SUFFICES ASSUME w < W PROVE FALSE
    OBVIOUS
  <2>1. (W - 1 - w) * H >= 0 /\ (W - 1 - w) * H = W * H - H - w * H
    OBVIOUS
  <2> QED
    BY <1>1, <2>1
<1> QED
  BY <1>1, <1>2

\* Two bytes hold no more than the number.
LEMMA ShortIsNoMore ==
  ASSUME NEW n \in Nat
  PROVE  /\ n % ShortRange \in Nat /\ n % ShortRange <= n
         /\ SignedShort(n) >= 0 => SignedShort(n) = n % ShortRange
         /\ n < ShortRange => n % ShortRange = n
<1>1. ShortRange \in Nat \ {0}
  BY ShotAssumption
<1> DEFINE q == n \div ShortRange
           r == n % ShortRange
<1>2. n = ShortRange * q + r /\ r \in 0 .. ShortRange - 1 /\ q \in Int
  BY <1>1, TurnsAndRest
<1>3. SignedShort(n) = IF r >= ShortRange \div 2 THEN r - ShortRange ELSE r
  BY DEF SignedShort
<1> HIDE DEF q, r
<1>4. q >= 0
  <2> SUFFICES ASSUME q < 0 PROVE FALSE
    BY <1>2
  <2>1. ShortRange * (0 - 1 - q) >= 0 /\ ShortRange * (0 - 1 - q) = 0 - ShortRange - ShortRange * q
    BY <1>1, <1>2
  <2> QED
    BY <1>1, <1>2, <2>1
<1>5. ShortRange * q >= 0 /\ ShortRange * q \in Nat
  BY <1>1, <1>2, <1>4
<1>6. r \in Nat /\ r <= n
  BY <1>1, <1>2, <1>5
<1>7. SignedShort(n) >= 0 => SignedShort(n) = r
  BY <1>1, <1>2, <1>3
<1>8. n < ShortRange => r = n
  BY <1>1 DEF r
<1> QED
  BY <1>6, <1>7, <1>8 DEF r

\* decodeBMP turns a picture it is made for the right way up; if lodepng finds the image large enough,
\* it is all of the picture.
LEMMA DecodesUpright ==
  ASSUME NEW p \in Pictures, TakenForGranted(p), NEW image,
         image = decodeBMP(p, FileHeader + GetPixelDataOffsetForPackedDIB(p), FileHeader + SizeOf(p)),
         Encodes(image, p)
  PROVE  Encoded(image, p) = Upright(p)
<1> DEFINE offset == FileHeader + GetPixelDataOffsetForPackedDIB(p)
           nc == p.bits \div 8
           R  == RowSize(p)
           H  == p.height
           W  == p.width
           w  == W % ShortRange
           h  == Unsigned(SignedShort(H))
           n  == Unsigned(w * h * 4)
           scan == ScanlineBytes(w, nc)
           spot(x, y) == (offset % ShortRange) + (h - y - 1) * scan + nc * x
           read(x, y, c) == IF c = 3 THEN IF nc = 3 THEN 255 ELSE Byte(p, (spot(x, y) + 3) - FileHeader)
                            ELSE Byte(p, (spot(x, y) + 2 - c) - FileHeader)
           pos(x, y) == offset + (H - y - 1) * R + nc * x
           rgba(x, y, c) == IF c = 3 THEN IF nc = 3 THEN 255 ELSE Byte(p, (pos(x, y) + 3) - FileHeader)
                            ELSE Byte(p, (pos(x, y) + 2 - c) - FileHeader)
           all == [i \in 0 .. W * H * 4 - 1 |-> rgba((i \div 4) % W, i \div (4 * W), i % 4)]
           want(x, y, c) == IF c = 3 /\ p.bits = 24 THEN 255 ELSE <<x, y, RGBA[1 + c]>>
<1>1. W \in Nat \ {0} /\ H \in Nat \ {0} /\ FileHeader \in Nat /\ UintRange \in Nat \ {0}
      /\ ShortRange \in Nat \ {0} /\ ShortRange <= UintRange
  BY ShotAssumption DEF Encodes
<1>2. DOMAIN image # {}
  BY DEF Encodes
<1>3. image # ErrorImage
  BY <1>2 DEF ErrorImage
<1>4. p.bits \in {24, 32} /\ ~(SignedShort(H) < 0)
  <2>1. p.bits \in {24, 32}
    BY <1>3 DEF decodeBMP
  <2>2. SignedShort(H) \in Int /\ SignedShort(H) >= 0
    <3>1. SignedShort(H) >= 0
      BY DEF TakenForGranted
    <3>2. H % ShortRange \in Int /\ SignedShort(H) = H % ShortRange
      BY <1>1, <3>1, ShortIsNoMore
    <3> QED
      BY <3>1, <3>2
  <2> QED
    BY <2>1, <2>2
<1>5. R \in Nat \ {0} /\ R = ScanlineBytes(W, nc) /\ offset = FileHeader + Pixels(p) /\ Pixels(p) \in Nat
  BY <1>4, RowsAreFilledUp, PixelsBeginThere
<1>6. offset % ShortRange = offset
  <2>1. offset \in Nat /\ offset < ShortRange
    BY <1>1, <1>5 DEF TakenForGranted
  <2> HIDE DEF offset
  <2> QED
    BY <2>1, ShortIsNoMore
<1>7. h = H % ShortRange /\ h \in Nat /\ h <= H /\ w \in Nat /\ w <= W
  <2>1. SignedShort(H) = H % ShortRange /\ H % ShortRange \in Nat /\ H % ShortRange <= H
        /\ W % ShortRange \in Nat /\ W % ShortRange <= W
    BY <1>1, ShortIsNoMore DEF TakenForGranted
  <2>2. H % ShortRange < UintRange
    BY <1>1
  <2>3. Unsigned(H % ShortRange) = H % ShortRange
    <3> DEFINE s == H % ShortRange
    <3>1. s \in Nat /\ s < UintRange
      BY <2>1, <2>2
    <3> HIDE DEF s
    <3>2. Unsigned(s) = s
      BY <1>1, <3>1 DEF Unsigned
    <3> QED
      BY <3>2 DEF s
  <2> QED
    BY <2>1, <2>3
<1>8. image = [i \in 0 .. n - 1 |-> read((i \div 4) % w, i \div (4 * w), i % 4)]
  BY <1>3, <1>4 DEF decodeBMP
<1>9. Rows(p) = H /\ W * H * 4 < UintRange /\ W * H * 4 \in Nat
  <2>1. Rows(p) = H
    BY <1>1 DEF Rows
  <2>2. W * Rows(p) * 4 < UintRange
    BY ShotAssumption
  <2> QED
    BY <1>1, <2>1, <2>2
<1>10. w = W /\ h = H
  <2>1. W * H * 4 - 1 \in 0 .. n - 1
    <3>1. W * H * 4 - 1 \in DOMAIN image
      BY DEF Encodes
    <3> HIDE DEF n, read
    <3> QED
      BY <1>8, <3>1
  <2> DEFINE m == w * h * 4
  <2>2. w * h \in Nat /\ w * h * 4 \in Nat
    <3> HIDE DEF w, h
    <3> QED
      BY <1>7
  <2>3. n <= m
    <3>1. m \in Nat
      BY <2>2
    <3> HIDE DEF m
    <3>2. Unsigned(m) <= m /\ Unsigned(m) \in Int
      <4> DEFINE q == m \div UintRange
                 r == m % UintRange
      <4>1. m = UintRange * q + r /\ r \in 0 .. UintRange - 1 /\ q \in Int
        BY <1>1, <3>1, TurnsAndRest
      <4> HIDE DEF q, r
      <4>2. q >= 0
        <5> SUFFICES ASSUME q < 0 PROVE FALSE
          BY <4>1
        <5>1. UintRange * (0 - 1 - q) >= 0 /\ UintRange * (0 - 1 - q) = 0 - UintRange - UintRange * q
          BY <1>1, <4>1
        <5> QED
          BY <1>1, <3>1, <4>1, <5>1
      <4>3. UintRange * q >= 0 /\ UintRange * q \in Nat
        BY <1>1, <4>1, <4>2
      <4>4. r <= m /\ r \in Int
        BY <1>1, <3>1, <4>1, <4>3
      <4> QED
        BY <4>4 DEF r, Unsigned
    <3> QED
      BY <3>2 DEF m
  <2> HIDE DEF w, h
  <2>4. n \in Int
    <3>1. m \in Nat
      BY <2>2
    <3> HIDE DEF m
    <3>2. Unsigned(m) \in Int
      BY <1>1, <3>1 DEF Unsigned
    <3> QED
      BY <3>2 DEF m
  <2> HIDE DEF n, W, H
  <2>5. W * H * 4 <= w * h * 4
    BY <1>9, <2>1, <2>2, <2>3, <2>4
  <2>6. W * H \in Nat
    BY <1>1
  <2>7. W * H <= w * h
    BY <2>2, <2>5, <2>6
  <2> QED
    BY <1>1, <1>7, <2>7, NoLargerNoSmaller
<1>11. n = W * H * 4
  <2> DEFINE m == W * H * 4
  <2>1. m \in Nat /\ m < UintRange
    BY <1>9
  <2>2. n = Unsigned(m)
    BY <1>10
  <2> HIDE DEF m, n
  <2>3. Unsigned(m) = m
    BY <1>1, <2>1 DEF Unsigned
  <2> QED
    BY <2>2, <2>3 DEF m
<1>12. ASSUME NEW x, NEW y, NEW c PROVE read(x, y, c) = rgba(x, y, c)
  <2>1. spot(x, y) = pos(x, y)
    <3> HIDE DEF w, h, R, nc, offset
    <3> QED
      BY <1>5, <1>6, <1>10
  <2> HIDE DEF spot, pos
  <2> QED
    BY <2>1
<1>13. image = all
  <2> HIDE DEF read, rgba, n, w
  <2> QED
    BY <1>8, <1>10, <1>11, <1>12
<1>14. ASSUME NEW x \in 0 .. W - 1, NEW y \in 0 .. H - 1, NEW c \in 0 .. 3
       PROVE  rgba(x, y, c) = want(x, y, c)
  <2> DEFINE k == IF c = 3 THEN 3 ELSE 2 - c
  <2>1. k \in 0 .. 3 /\ (c = 3 <=> k = 3)
    OBVIOUS
  <2>2. nc = 3 <=> p.bits = 24
    BY <1>4
  <2>3. nc \in {3, 4}
    BY <1>4
  <2>4. CASE c = 3 /\ nc = 3
    BY <2>2, <2>4
  <2>5. CASE ~(c = 3 /\ nc = 3)
    <3>1. k \in 0 .. nc - 1
      BY <2>1, <2>3, <2>5
    <3>2. Byte(p, Pixels(p) + (H - y - 1) * R + nc * x + k) = <<x, y, Order(p)[1 + k]>>
      BY <1>1, <1>4, <3>1, BytesOfPixels
    <3>3. (H - y - 1) * R \in Int /\ nc * x \in Int
      BY <1>1, <1>5, <2>3
    <3>4. (IF c = 3 THEN (pos(x, y) + 3) - FileHeader ELSE (pos(x, y) + 2 - c) - FileHeader)
            = Pixels(p) + (H - y - 1) * R + nc * x + k
      <4> HIDE DEF offset, R, H, nc
      <4> QED
        BY <1>1, <1>5, <3>3
    <3>5. rgba(x, y, c) = Byte(p, IF c = 3 THEN (pos(x, y) + 3) - FileHeader
                                  ELSE (pos(x, y) + 2 - c) - FileHeader)
      <4> HIDE DEF pos, nc
      <4> QED
        BY <2>5
    <3>6. Order(p)[1 + k] = RGBA[1 + c]
      <4>1. Order(p) = BGRA
        BY DEF TakenForGranted
      <4>2. c \in {0, 1, 2, 3}
        OBVIOUS
      <4>3. BGRA[1 + k] = RGBA[1 + c]
        BY <4>2 DEF BGRA, RGBA
      <4> QED
        BY <4>1, <4>3
    <3>7. want(x, y, c) = <<x, y, RGBA[1 + c]>>
      BY <2>2, <2>5
    <3> HIDE DEF rgba, want, k
    <3> QED
      BY <3>2, <3>4, <3>5, <3>6, <3>7, Zenon
  <2> QED
    BY <2>4, <2>5
<1>15. ASSUME NEW i \in 0 .. W * H * 4 - 1
       PROVE  rgba((i \div 4) % W, i \div (4 * W), i % 4) = want((i \div 4) % W, i \div (4 * W), i % 4)
  <2>1. (i \div 4) % W \in 0 .. W - 1 /\ i \div (4 * W) \in 0 .. H - 1 /\ i % 4 \in 0 .. 3
    BY <1>1, PixelOfByte
  <2> HIDE DEF rgba, want
  <2> QED
    BY <1>14, <2>1, Zenon
<1>16. Upright(p) = [i \in 0 .. W * H * 4 - 1 |-> want((i \div 4) % W, i \div (4 * W), i % 4)]
  BY <1>9 DEF Upright
<1> HIDE DEF rgba, want
<1>17. all = Upright(p)
  BY <1>15, <1>16, Zenon
<1>18. Encoded(image, p) = all
  <2>1. Encoded(image, p) = [i \in 0 .. W * H * 4 - 1 |-> all[i]]
    BY <1>13 DEF Encoded
  <2> QED
    BY <2>1
<1> QED
  BY <1>17, <1>18

\* For all pictures smaller than four gigabytes: what is saved, while the clipboard keeps still, of one
\* that decodeBMP is made for is all of it and upright, and nothing is saved of those it would truncate.
THEOREM ScreenshotsAreUpright == ShotSpec => []ScreenshotIsUpright
<1>1. ShotInit => ShotInv
  BY DEF ShotInit, ShotInv, ScreenshotIsUpright
<1>2. ShotInv /\ [ShotNext]_shotVars => ShotInv'
  <2> SUFFICES ASSUME ShotInv, [ShotNext]_shotVars PROVE ShotInv'
    OBVIOUS
  <2>1. clipboard' \in Pictures \cup {NoPicture}
    BY DEF ShotInv, ShotNext, shotVars, ClipboardChanges, SaveScreenshot, LookAtClipboard, CopyAndSave
  <2>2. CASE UNCHANGED <<screenshot_future, handle, saved>>
    BY <2>1, <2>2 DEF ShotInv, Remembers, ScreenshotIsUpright
  <2>3. CASE SaveScreenshot
    BY <2>1, <2>3 DEF SaveScreenshot, ShotInv, ScreenshotIsUpright
  <2>4. CASE LookAtClipboard
    <3>1. saved' = saved /\ (screenshot_future' = "copy" => Remembers(handle'))
      BY <2>4 DEF LookAtClipboard, ShotInv, Remembers
    <3> QED
      BY <2>1, <3>1 DEF ShotInv, ScreenshotIsUpright
  <2>5. CASE CopyAndSave
    <3> DEFINE p == handle.of
               image == decodeBMP(p, handle.offset, handle.size)
               kept == handle.at = takeovers
               Png(i) == <<[of |-> p, image |-> i, kept |-> kept]>>
    <3>1. /\ screenshot_future = "copy" /\ screenshot_future' = "ready"
          /\ \/ saved' = <<>>
             \/ Encodes(image, p) /\ saved' = Png(Encoded(image, p))
             \/ ~kept /\ saved' = Png(<<"undefined">>)
      BY <2>5 DEF CopyAndSave
    <3>2. p \in Pictures /\ handle.offset = FileHeader + GetPixelDataOffsetForPackedDIB(p)
          /\ handle.size = FileHeader + SizeOf(p)
      BY <3>1 DEF ShotInv, Remembers
    <3>3. Encodes(image, p) /\ TakenForGranted(p) => Encoded(image, p) = Upright(p)
      BY <3>2, DecodesUpright
    <3> HIDE DEF image, p
    <3>4. ASSUME NEW i
          PROVE  DOMAIN Png(i) = {1} /\ Png(i)[1].kept = kept /\ Png(i)[1].of = p /\ Png(i)[1].image = i
      OBVIOUS
    <3> HIDE DEF Png, kept
    <3>5. ScreenshotIsUpright'
      <4>1. CASE saved' = <<>>
        BY <4>1 DEF ScreenshotIsUpright
      <4>2. CASE Encodes(image, p) /\ saved' = Png(Encoded(image, p))
        <5>1. DOMAIN saved' = {1} /\ saved'[1].of = p /\ saved'[1].image = Encoded(image, p)
          BY <3>4, <4>2
        <5>2. TakenForGranted(saved'[1].of) => saved'[1].image = Upright(saved'[1].of)
          BY <3>3, <4>2, <5>1
        <5> QED
          BY <5>1, <5>2 DEF ScreenshotIsUpright
      <4>3. CASE ~kept /\ saved' = Png(<<"undefined">>)
        <5>1. DOMAIN saved' = {1} /\ saved'[1].kept = kept
          BY <3>4, <4>3
        <5> QED
          BY <4>3, <5>1 DEF ScreenshotIsUpright
      <4> QED
        BY <3>1, <4>1, <4>2, <4>3
    <3> QED
      BY <2>1, <3>1, <3>5 DEF ShotInv
  <2> QED
    BY <2>2, <2>3, <2>4, <2>5 DEF ShotNext, ClipboardChanges, shotVars
<1>3. ShotInv => ScreenshotIsUpright
  BY DEF ShotInv
<1> QED
  BY <1>1, <1>2, <1>3, PTL DEF ShotSpec
-----------------------------------------------------------------------------
(* Settings: what is read back is what was written.                        *)

\* A list of macros as the program has it: the first profile is the global one.
IsMacros(m, n) ==
  /\ n \in Nat \ {0} /\ m[1].app_name = ""
  /\ m = [i \in 1 .. n |-> [app_name |-> m[i].app_name, key_vec |-> m[i].key_vec]]

\* What Load makes of the settings of a file.
SettingsOf(saved_ini) ==
  [n \in Names |-> IF n \in DOMAIN saved_ini.setting THEN saved_ini.setting[n] ELSE Default[n]]

\* Behaviour, of what is loaded.
BehavesLoaded(saved_ini) ==
  Behaves(Loaded(saved_ini), ParseUsedPagesFromString(saved_ini.pages), SettingsOf(saved_ini))

SettingsInv ==
  /\ setting \in [Names -> BOOLEAN]
  /\ program = "up" => (\E n : IsMacros(macros, n)) /\ used_pages \subseteq ToSet(Pages)
  /\ ini # NoFile => (\E n : IsMacros(Loaded(ini), n)) /\ SettingsOf(ini) \in [Names -> BOOLEAN]
  /\ before # NotSaved => /\ ini # NoFile /\ BehavesLoaded(ini) = before
                          /\ program = "up" => Behaviour = before

\* All sections are read that are numbered from 0.
LEMMA AllAreNumbered ==
  ASSUME NEW n \in Nat, NEW sections, sections = [i \in 1 .. n |-> sections[i]],
         \A i \in 1 .. n : sections[i].macro = i - 1
  PROVE  Numbered(sections) = sections
<1> DEFINE X == {sections[i] : i \in 1 .. n}
           places == {k \in DOMAIN sections : \A j \in 0 .. sections[k].macro :
                                                \E i \in DOMAIN sections : sections[i].macro = j}
<1>1. \A i \in 1 .. n : sections[i] \in X
  OBVIOUS
<1>2. DOMAIN sections = 1 .. n
  OBVIOUS
<1> HIDE DEF X
<1>3. sections \in Seq(X) /\ Len(sections) = n
  BY <1>1, FunctionIsSequence
<1>4. ASSUME NEW k \in 1 .. n PROVE k \in places
  <2> SUFFICES ASSUME NEW j \in 0 .. sections[k].macro
               PROVE  \E i \in DOMAIN sections : sections[i].macro = j
    BY <1>2
  <2>1. sections[k].macro = k - 1
    OBVIOUS
  <2>2. j + 1 \in 1 .. n /\ (j + 1) - 1 = j
    BY <2>1
  <2>3. sections[j + 1].macro = j
    BY <2>2
  <2> QED
    BY <1>2, <2>2, <2>3
<1>5. Numbered(sections) = ElementsAt(sections, places)
  BY DEF Numbered
<1> HIDE DEF places
<1>6. 1 .. Len(sections) \subseteq places
  BY <1>3, <1>4
<1> QED
  BY <1>3, <1>5, <1>6, AllElements

\* The macros come back from the file.
LEMMA MacrosComeBack ==
  ASSUME NEW n, IsMacros(macros, n), NEW names
  PROVE  Loaded(File(Sections, names)) = macros
<1>1. /\ n \in Nat \ {0} /\ macros[1].app_name = "" /\ DOMAIN macros = 1 .. n
      /\ macros = [i \in 1 .. n |-> [app_name |-> macros[i].app_name, key_vec |-> macros[i].key_vec]]
  BY DEF IsMacros
<1>2. Sections = [i \in 1 .. n |-> [macro |-> i - 1,
                    app_name |-> IF i = 1 THEN "" ELSE macros[i].app_name, key_vec |-> macros[i].key_vec]]
  BY <1>1, Zenon DEF Sections, Section
<1> DEFINE s == Sections
<1>3. ASSUME NEW i \in 1 .. n
      PROVE  s[i].macro = i - 1 /\ s[i].app_name = macros[i].app_name /\ s[i].key_vec = macros[i].key_vec
  BY <1>1, <1>2
<1>4. DOMAIN s = 1 .. n /\ s = [i \in 1 .. n |-> s[i]]
  BY <1>2
<1> HIDE DEF s
<1>5. Numbered(s) = s
  <2>1. n \in Nat /\ s = [i \in 1 .. n |-> s[i]] /\ \A i \in 1 .. n : s[i].macro = i - 1
    BY <1>1, <1>3, <1>4, Zenon
  <2> QED
    BY <2>1, AllAreNumbered, Zenon
<1>6. File(s, names).sections = s
  BY DEF File
<1>7. Loaded(File(s, names)) = [i \in 1 .. n |-> [app_name |-> s[i].app_name, key_vec |-> s[i].key_vec]]
  BY <1>4, <1>5, <1>6, Zenon DEF Loaded
<1>8. Loaded(File(s, names)) =
        [i \in 1 .. n |-> [app_name |-> macros[i].app_name, key_vec |-> macros[i].key_vec]]
  BY <1>3, <1>7, Zenon
<1> QED
  BY <1>1, <1>8, Zenon DEF s

\* So do the pages.
LEMMA PagesComeBack ==
  ASSUME NEW pages, pages \subseteq ToSet(Pages)
  PROVE  ParseUsedPagesFromString(ParseUsedPagesToString(pages)) = pages
<1> DEFINE places == {i \in DOMAIN Pages : Pages[i] \in pages}
           text == ParseUsedPagesToString(pages)
<1>1. Pages \in Seq(ToSet(Pages)) /\ Len(Pages) \in Nat /\ DOMAIN Pages = 1 .. Len(Pages)
  BY SettingsAssumption, LenProperties
<1>2. text = ElementsAt(Pages, places)
  BY DEF ParseUsedPagesToString
<1>3. text \in Seq(ToSet(Pages)) /\ \E w : Picks(w, text, Pages, places, Len(Pages))
  BY <1>1, <1>2, ElementsAtPlaces
<1>4. PICK places_of : Picks(places_of, text, Pages, places, Len(Pages))
  BY <1>3
<1>5. DOMAIN text = 1 .. Len(places_of)
  BY <1>3, <1>4, LenProperties DEF Picks
<1> HIDE DEF text
<1>6. ASSUME NEW i \in DOMAIN text PROVE text[i] \in pages
  <2>1. places_of[i] \in places /\ text[i] = Pages[places_of[i]]
    BY <1>4, <1>5 DEF Picks
  <2> QED
    BY <2>1
<1>7. ASSUME NEW p \in pages PROVE \E i \in DOMAIN text : text[i] = p
  <2>1. PICK k \in 1 .. Len(Pages) : Pages[k] = p
    BY <1>1 DEF ToSet
  <2>2. k \in places
    BY <1>1, <2>1
  <2> HIDE DEF places
  <2>3. PICK i \in 1 .. Len(places_of) : places_of[i] = k
    BY <1>4, <2>2 DEF Picks
  <2>4. text[i] = p
    BY <1>4, <2>1, <2>3 DEF Picks
  <2> QED
    BY <1>5, <2>4
<1>8. ParseUsedPagesFromString(text) = {p \in ToSet(Pages) : \E i \in DOMAIN text : <<text[i], p>> \in Occurs}
  BY DEF ParseUsedPagesFromString
<1>9. \A p \in ToSet(Pages) : (\E i \in DOMAIN text : <<text[i], p>> \in Occurs) <=> p \in pages
  BY <1>6, <1>7, SettingsAssumption
<1>10. ParseUsedPagesFromString(text) = pages
  BY <1>8, <1>9
<1> QED
  BY <1>10 DEF text

\* And the settings that are written.
LEMMA SettingsComeBack ==
  ASSUME setting \in [Names -> BOOLEAN], NEW sections, NEW names, Written \subseteq names
  PROVE  /\ SettingsOf(File(sections, names)) \in [Names -> BOOLEAN]
         /\ \A n \in Written : SettingsOf(File(sections, names))[n] = setting[n]
<1>1. File(sections, names).setting = [n \in names |-> setting[n]]
  BY DEF File
<1>2. Written \subseteq Names
  BY DEF Written
<1> QED
  BY <1>1, <1>2 DEF SettingsOf, Default

\* Settings that agree where they are written behave alike.
LEMMA SameBehaviour ==
  ASSUME NEW m, NEW pages, NEW set, NEW other, \A n \in Written : set[n] = other[n]
  PROVE  Behaves(m, pages, set) = Behaves(m, pages, other)
<1>1. PerApp \in Written
  BY SettingsAssumption DEF Written, PerApp, WindowSize, Backups
<1>2. set[PerApp] = other[PerApp] /\ [n \in Written |-> set[n]] = [n \in Written |-> other[n]]
  BY <1>1, Zenon
<1> QED
  BY <1>2, Zenon DEF Behaves

\* One more profile is a list of macros still.
LEMMA AppendsMacro ==
  ASSUME NEW m, NEW n, IsMacros(m, n), NEW p, p = [app_name |-> p.app_name, key_vec |-> p.key_vec]
  PROVE  IsMacros(Append(m, p), n + 1)
<1> DEFINE X == {m[i] : i \in 1 .. n} \cup {p}
           q == Append(m, p)
<1>1. /\ n \in Nat \ {0} /\ m[1].app_name = ""
      /\ m = [i \in 1 .. n |-> [app_name |-> m[i].app_name, key_vec |-> m[i].key_vec]]
  BY DEF IsMacros
<1>2. \A i \in 1 .. n : m[i] \in X /\ m[i] = [app_name |-> m[i].app_name, key_vec |-> m[i].key_vec]
  BY <1>1, Zenon
<1>3. m = [i \in 1 .. n |-> m[i]] /\ p \in X
  BY <1>1
<1> HIDE DEF X
<1>4. m \in Seq(X) /\ Len(m) = n
  BY <1>1, <1>2, <1>3, FunctionIsSequence
<1>5. q = [i \in 1 .. n + 1 |-> IF i <= n THEN m[i] ELSE p]
  <2>1. q = [i \in 1 .. Len(m) + 1 |-> IF i <= Len(m) THEN m[i] ELSE p]
    <3>1. m \in Seq(X) /\ p \in X
      BY <1>3, <1>4
    <3> QED
      BY <3>1, AppendAsFunction
  <2> QED
    BY <1>4, <2>1, Zenon
<1> HIDE DEF q
<1>11. n \in Nat \ {0} /\ n + 1 \in Nat \ {0} /\ 1 \in 1 .. n + 1 /\ 1 <= n
  <2>1. n \in Nat \ {0}
    BY Zenon DEF IsMacros
  <2> QED
    BY <2>1
<1>6. q[1] = m[1]
  BY <1>11, <1>5
<1>7. ASSUME NEW i \in 1 .. n + 1 PROVE q[i] = [app_name |-> q[i].app_name, key_vec |-> q[i].key_vec]
  <2>1. CASE i <= n
    <3>1. i \in 1 .. n /\ q[i] = m[i]
      BY <1>5, <1>11, <2>1
    <3> QED
      BY <1>2, <3>1, Zenon
  <2>2. CASE ~(i <= n)
    <3>1. q[i] = p
      BY <1>5, <2>2
    <3> QED
      BY <3>1, Zenon
  <2> QED
    BY <2>1, <2>2
<1>8. q = [i \in 1 .. n + 1 |-> q[i]]
  BY <1>5
<1>9. q = [i \in 1 .. n + 1 |-> [app_name |-> q[i].app_name, key_vec |-> q[i].key_vec]]
  BY <1>7, <1>8, Zenon
<1>10. IsMacros(q, n + 1)
  BY <1>1, <1>6, <1>9, <1>11 DEF IsMacros
<1> QED
  BY <1>10 DEF q

\* The example is a list of macros.
LEMMA ExampleIsMacros == ASSUME NEW names PROVE IsMacros(Loaded(File(Example, names)), 2)
<1> DEFINE k1 == [k \in MacroKeys |-> "global_macro"]
           k2 == [k \in MacroKeys |-> "close_notepad"]
           a == [macro |-> 0, app_name |-> "", key_vec |-> k1]
           b == [macro |-> 1, app_name |-> "Notepad", key_vec |-> k2]
           s == <<a, b>>
           m == [i \in 1 .. 2 |-> [app_name |-> s[i].app_name, key_vec |-> s[i].key_vec]]
<1>1. File(Example, names).sections = s
  BY DEF File, Example, Section
<1>2. a.macro = 0 /\ b.macro = 1 /\ a.app_name = ""
  OBVIOUS
<1> HIDE DEF a, b
<1>3. s[1] = a /\ s[2] = b /\ DOMAIN s = 1 .. 2 /\ s = [i \in 1 .. 2 |-> s[i]]
  OBVIOUS
<1> HIDE DEF s
<1>4. \A i \in 1 .. 2 : s[i].macro = i - 1
  <2>1. s[1].macro = 1 - 1 /\ s[2].macro = 2 - 1
    <3>1. s[1].macro = 0 /\ s[2].macro = 1
      BY <1>2, <1>3, Zenon
    <3>2. 1 - 1 = 0 /\ 2 - 1 = 1
      OBVIOUS
    <3> QED
      BY <3>1, <3>2, Zenon
  <2>2. \A i \in 1 .. 2 : i = 1 \/ i = 2
    OBVIOUS
  <2> QED
    BY <2>1, <2>2, Zenon
<1>5. Numbered(s) = s
  BY <1>3, <1>4, AllAreNumbered
<1>6. Loaded(File(Example, names)) = m
  BY <1>1, <1>3, <1>5, Zenon DEF Loaded
<1>7. ASSUME NEW i \in 1 .. 2
      PROVE  m[i].app_name = s[i].app_name /\ m[i].key_vec = s[i].key_vec
  OBVIOUS
<1>8. m = [i \in 1 .. 2 |-> [app_name |-> m[i].app_name, key_vec |-> m[i].key_vec]]
  BY <1>7, Zenon
<1>9. m[1].app_name = ""
  <2>1. 1 \in 1 .. 2
    OBVIOUS
  <2>2. s[1].app_name = ""
    BY <1>2, <1>3, Zenon
  <2> HIDE DEF m
  <2> QED
    BY <1>7, <2>1, <2>2, Zenon
<1> HIDE DEF m
<1>10. IsMacros(m, 2)
  <2>1. 2 \in Nat \ {0}
    OBVIOUS
  <2> QED
    BY <1>8, <1>9, <2>1, Zenon DEF IsMacros
<1> QED
  BY <1>6, <1>10, Zenon

\* A start loads the file that is there, or the example.
LEMMA StartLoads == SettingsInv /\ Start => SettingsInv'
<1> SUFFICES ASSUME SettingsInv, Start PROVE SettingsInv'
  OBVIOUS
<1> DEFINE loaded == IF ini = NoFile THEN File(Example, Written \cup {Backups}) ELSE ini
<1>1. /\ program' = "up" /\ ini' = loaded /\ before' = before
      /\ macros' = Loaded(loaded) /\ used_pages' = ParseUsedPagesFromString(loaded.pages)
      /\ setting' = SettingsOf(loaded)
  BY DEF Start, Load, SettingsOf
<1>2. (\E n : IsMacros(Loaded(loaded), n)) /\ SettingsOf(loaded) \in [Names -> BOOLEAN]
  <2>1. CASE ini # NoFile
    BY <2>1 DEF SettingsInv
  <2>2. CASE ini = NoFile
    <3>1. loaded = File(Example, Written \cup {Backups})
      BY <2>2
    <3> HIDE DEF loaded
    <3>2. IsMacros(Loaded(loaded), 2)
      BY <3>1, ExampleIsMacros
    <3>3. SettingsOf(loaded) \in [Names -> BOOLEAN]
      BY <3>1, SettingsComeBack DEF SettingsInv
    <3> QED
      BY <3>2, <3>3
  <2> QED
    BY <2>1, <2>2
<1>3. ParseUsedPagesFromString(loaded.pages) \subseteq ToSet(Pages)
  BY DEF ParseUsedPagesFromString
<1>4. ASSUME before # NotSaved PROVE ini' # NoFile /\ BehavesLoaded(ini)' = before /\ Behaviour' = before
  <2>1. ini # NoFile /\ BehavesLoaded(ini) = before /\ loaded = ini
    BY <1>4 DEF SettingsInv
  <2>2. BehavesLoaded(ini)' = BehavesLoaded(ini')
    BY DEF BehavesLoaded
  <2>3. Behaviour' = Behaves(macros', used_pages', setting')
    BY DEF Behaviour, Behaves
  <2> HIDE DEF loaded
  <2>4. Behaviour' = BehavesLoaded(ini)
    BY <1>1, <2>1, <2>3 DEF BehavesLoaded
  <2> QED
    BY <1>1, <2>1, <2>2, <2>4
<1> HIDE DEF loaded
<1> QED
  BY <1>1, <1>2, <1>3, <1>4 DEF SettingsInv

\* What is saved would be loaded.
LEMMA SaveSaves == SettingsInv /\ SaveFile => SettingsInv'
<1> SUFFICES ASSUME SettingsInv, SaveFile PROVE SettingsInv'
  OBVIOUS
<1> DEFINE written == File(Sections, Written)
<1>1. /\ program = "up" /\ ini' = written /\ before' = Behaviour
      /\ UNCHANGED <<macros, used_pages, setting, program>>
  BY DEF SaveFile
<1>2. PICK n : IsMacros(macros, n)
  BY <1>1 DEF SettingsInv
<1>3. used_pages \subseteq ToSet(Pages) /\ setting \in [Names -> BOOLEAN]
  BY <1>1 DEF SettingsInv
<1>4. Loaded(written) = macros
  BY <1>2, MacrosComeBack
<1>5. ParseUsedPagesFromString(written.pages) = used_pages
  <2>1. written.pages = ParseUsedPagesToString(used_pages)
    BY DEF File
  <2> QED
    BY <1>3, <2>1, PagesComeBack
<1>6. SettingsOf(written) \in [Names -> BOOLEAN] /\ \A k \in Written : SettingsOf(written)[k] = setting[k]
  BY <1>3, SettingsComeBack
<1>7. written # NoFile
  <2>1. DOMAIN written.setting = Written
    BY DEF File
  <2>2. PerApp \in Written
    BY SettingsAssumption DEF Written, PerApp, WindowSize, Backups
  <2>3. DOMAIN NoFile.setting = {}
    BY DEF NoFile
  <2> QED
    BY <2>1, <2>2, <2>3
<1> HIDE DEF written
<1>8. BehavesLoaded(written) = Behaves(macros, used_pages, SettingsOf(written))
  BY <1>4, <1>5 DEF BehavesLoaded
<1>9. Behaves(macros, used_pages, SettingsOf(written)) = Behaves(macros, used_pages, setting)
  BY <1>6, SameBehaviour
<1>10. BehavesLoaded(written) = Behaviour
  BY <1>8, <1>9 DEF Behaviour
<1>11. BehavesLoaded(ini)' = BehavesLoaded(ini')
  BY DEF BehavesLoaded
<1>12. Behaviour' = Behaves(macros', used_pages', setting')
  BY DEF Behaviour, Behaves
<1>13. Behaviour' = Behaviour
  BY <1>1, <1>12 DEF Behaviour
<1>14. IsMacros(Loaded(ini'), n)
  BY <1>1, <1>2, <1>4
<1>15. SettingsOf(ini') \in [Names -> BOOLEAN]
  BY <1>1, <1>6
<1> QED
  BY <1>1, <1>2, <1>3, <1>7, <1>10, <1>11, <1>13, <1>14, <1>15 DEF SettingsInv

\* What the user changes keeps the shape of the settings.
LEMMA ChangeKeepsShape == SettingsInv /\ Change => SettingsInv'
<1> SUFFICES ASSUME SettingsInv, Change PROVE SettingsInv'
  OBVIOUS
<1>1. program = "up" /\ before = NotSaved /\ UNCHANGED <<ini, program, before>>
  BY DEF Change
<1>2. PICK n : IsMacros(macros, n)
  BY <1>1 DEF SettingsInv
<1>3. used_pages \subseteq ToSet(Pages) /\ setting \in [Names -> BOOLEAN]
  BY <1>1 DEF SettingsInv
<1>4. \E k : IsMacros(macros', k)
  <2>1. CASE UNCHANGED macros
    BY <1>2, <2>1
  <2>2. ASSUME NEW p \in Profiles, macros' = Append(macros, p) PROVE \E k : IsMacros(macros', k)
    <3>1. p = [app_name |-> p.app_name, key_vec |-> p.key_vec]
      BY SettingsAssumption
    <3>2. IsMacros(Append(macros, p), n + 1)
      BY <1>2, <3>1, AppendsMacro
    <3> QED
      BY <2>2, <3>2
  <2> QED
    BY <2>1, <2>2 DEF Change
<1>5. used_pages' \subseteq ToSet(Pages) /\ setting' \in [Names -> BOOLEAN]
  BY <1>3 DEF Change
<1> QED
  BY <1>1, <1>4, <1>5 DEF SettingsInv

\* For any profiles, windows, keys and pages no name of which is part of another's: a program that
\* loads the file it has written does what it did.
THEOREM RestartsChangeNothing == SettingsSpec => []RestartsKeepTheMacros
<1>1. SettingsInit => SettingsInv
  BY DEF SettingsInit, SettingsInv, Default
<1>2. SettingsInv /\ [SettingsNext]_setVars => SettingsInv'
  <2>1. SettingsInv /\ Stop => SettingsInv'
    BY DEF SettingsInv, Stop, Default
  <2>2. SettingsInv /\ UNCHANGED setVars => SettingsInv'
    <3> SUFFICES ASSUME SettingsInv, UNCHANGED setVars PROVE SettingsInv'
      OBVIOUS
    <3>1. UNCHANGED <<macros, used_pages, setting, ini, program, before>>
      BY DEF setVars
    <3>2. BehavesLoaded(ini)' = BehavesLoaded(ini')
      BY DEF BehavesLoaded
    <3>3. Behaviour' = Behaves(macros', used_pages', setting')
      BY DEF Behaviour, Behaves
    <3>4. Behaviour' = Behaviour
      BY <3>1, <3>3 DEF Behaviour
    <3> QED
      BY <3>1, <3>2, <3>4 DEF SettingsInv
  <2> QED
    BY <2>1, <2>2, StartLoads, SaveSaves, ChangeKeepsShape DEF SettingsNext
<1>3. SettingsInv => RestartsKeepTheMacros
  BY DEF SettingsInv, RestartsKeepTheMacros
<1> QED
  BY <1>1, <1>2, <1>3, PTL DEF SettingsSpec
-----------------------------------------------------------------------------
(* MapConverter: the script makes each item of its map once.               *)

\* Where the items come from: each supported element of the first t types once, and no other.
ComesFrom(from, items, map, t) ==
  /\ from \in Seq(Nat) /\ Len(items) = Len(from)
  /\ \A i \in 1 .. Len(from) :
       items[i] = map.elements[from[i]] /\ \E u \in 1 .. t : from[i] \in OfType(map, ItemType[u])
  /\ \A i, j \in 1 .. Len(from) : from[i] = from[j] => i = j
  /\ \A u \in 1 .. t : \A p \in OfType(map, ItemType[u]) : \E i \in 1 .. Len(from) : from[i] = p

IsMap(map) ==
  /\ map.elements \in Seq(ToSet(map.elements))
  /\ \A i, j \in DOMAIN map.elements : map.elements[i].name = map.elements[j].name => i = j

\* There are six types, and every tag has one.
LEMMA SixTypes ==
  /\ Len(ItemType) = 6
  /\ \A t, u \in 1 .. 6 : ItemType[t] = ItemType[u] => t = u
  /\ \A kind : \A tag \in DOMAIN TypesOf(kind) : \E t \in 1 .. 6 : TypesOf(kind)[tag] = ItemType[t]
<1>1. /\ ItemType[1] = "OBJECT" /\ ItemType[2] = "REMOVE_OBJECT" /\ ItemType[3] = "VEHICLE"
      /\ ItemType[4] = "MARKER" /\ ItemType[5] = "PICKUP" /\ ItemType[6] = "PED" /\ Len(ItemType) = 6
  BY DEF ItemType
<1>2. \A t \in 1 .. 6 : t \in {1, 2, 3, 4, 5, 6}
  OBVIOUS
<1>3. \A t, u \in {1, 2, 3, 4, 5, 6} : ItemType[t] = ItemType[u] => t = u
  BY <1>1
<1>4. ASSUME NEW kind, NEW tag \in DOMAIN TypesOf(kind)
      PROVE  \E t \in 1 .. 6 : TypesOf(kind)[tag] = ItemType[t]
  <2>1. CASE kind = "race"
    <3>1. TypesOf(kind)[tag] \in {"VEHICLE", "OBJECT", "PICKUP", "MARKER"}
      BY <1>4, <2>1 DEF TypesOf, RaceType
    <3> QED
      BY <1>1, <3>1
  <2>2. CASE kind # "race"
    <3>1. TypesOf(kind)[tag] \in {"OBJECT", "REMOVE_OBJECT", "VEHICLE", "MARKER", "PICKUP", "PED"}
      BY <1>4, <2>2 DEF TypesOf, DmType
    <3> QED
      BY <1>1, <3>1
  <2> QED
    BY <2>1, <2>2
<1> QED
  BY <1>1, <1>2, <1>3, <1>4

\* The items of the first types.
ItemsOf(f, map) ==
  /\ f \in [0 .. 6 -> Seq(ToSet(map.elements))] /\ f[0] = <<>>
  /\ \A t \in 1 .. 6 : f[t] = f[t - 1] \o ElementsAt(map.elements, OfType(map, ItemType[t]))

\* The recursive definition in Items defines something.
LEMMA ItemsInSteps ==
  ASSUME NEW map, IsMap(map)
  PROVE  \E f : ItemsOf(f, map) /\ Items(map) = f[6]
<1> DEFINE S == Seq(ToSet(map.elements))
           more(t) == ElementsAt(map.elements, OfType(map, ItemType[t]))
           next == [k \in Nat |-> [x \in S |-> x \o more(k + 1)]]
           Defines(f) == f = [t \in 0 .. Len(ItemType) |->
                               IF t = 0 THEN <<>>
                               ELSE f[t - 1] \o ElementsAt(map.elements, OfType(map, ItemType[t]))]
<1>1. <<>> \in S /\ \A x \in S : \A t : x \o more(t) \in S
  <2> DEFINE X == ToSet(map.elements)
  <2>1. map.elements \in Seq(X)
    BY DEF IsMap
  <2> HIDE DEF X
  <2>2. \A t : more(t) \in Seq(X)
    BY <2>1, ElementsAtPlaces
  <2> HIDE DEF more
  <2>3. <<>> \in Seq(X) /\ \A x \in Seq(X) : \A t : x \o more(t) \in Seq(X)
    BY <2>2
  <2> QED
    BY <2>3 DEF X
<1>2. next \in [Nat -> [S -> S]] /\ \A k \in Nat, x \in S : next[k][x] = x \o more(k + 1)
  <2> HIDE DEF S, more
  <2> QED
    BY <1>1
<1> HIDE DEF next
<1>3. PICK h : UnfoldsUpTo(h, S, <<>>, next, 6)
  <2> HIDE DEF S
  <2>1. \A base \in S, len \in Nat : \E h : UnfoldsUpTo(h, S, base, next, len)
    BY <1>2, RecursionUpTo
  <2>2. 6 \in Nat
    OBVIOUS
  <2> QED
    BY <1>1, <2>1, <2>2, Zenon
<1>4. ASSUME NEW t \in 1 .. 6 PROVE h[t] = h[t - 1] \o more(t)
  <2>1. t - 1 \in Nat /\ (t - 1) + 1 = t /\ t - 1 \in 0 .. 6
    OBVIOUS
  <2> HIDE DEF S, more
  <2>2. h[t - 1] \in S
    BY <1>3, <2>1 DEF UnfoldsUpTo
  <2> QED
    BY <1>2, <1>3, <2>1, <2>2 DEF UnfoldsUpTo
<1>5. Len(ItemType) = 6
  BY SixTypes
<1>6. Defines(h)
  <2>1. \A t \in 0 .. 6 : h[t] = IF t = 0 THEN <<>> ELSE h[t - 1] \o more(t)
    <3>1. \A t \in 0 .. 6 : t = 0 \/ t \in 1 .. 6
      OBVIOUS
    <3> HIDE DEF more
    <3> QED
      BY <1>3, <1>4, <3>1, Zenon DEF UnfoldsUpTo
  <2>2. h = [t \in 0 .. 6 |-> h[t]]
    BY <1>3 DEF UnfoldsUpTo
  <2> QED
    BY <1>5, <2>1, <2>2, Zenon
<1> DEFINE f == CHOOSE s : Defines(s)
<1>7. Defines(f)
  <2> HIDE DEF Defines
  <2> QED
    BY <1>6
<1>8. Items(map) = f[6]
  BY <1>5 DEF Items
<1> HIDE DEF f
<1>9. f = [t \in 0 .. 6 |-> f[t]] /\ f[0] = <<>> /\ \A t \in 1 .. 6 : f[t] = f[t - 1] \o more(t)
  <2>1. 0 \in 0 .. 6 /\ \A t \in 1 .. 6 : t \in 0 .. 6 /\ t # 0
    OBVIOUS
  <2> QED
    BY <1>5, <1>7, <2>1, Zenon
<1>10. \A t \in 0 .. 6 : f[t] \in S
  <2> DEFINE T == {t \in Nat : t <= 6 => f[t] \in S}
  <2> HIDE DEF S, more
  <2>1. 0 \in T
    BY <1>1, <1>9
  <2>2. ASSUME NEW t \in Nat, t \in T PROVE t + 1 \in T
    <3> SUFFICES ASSUME t + 1 <= 6 PROVE f[t + 1] \in S
      OBVIOUS
    <3>1. t + 1 \in 1 .. 6 /\ (t + 1) - 1 = t /\ t <= 6
      OBVIOUS
    <3>2. f[t + 1] = f[t] \o more(t + 1)
      BY <1>9, <3>1
    <3>3. f[t] \in S
      BY <2>2, <3>1
    <3>4. f[t] \o more(t + 1) \in S
      BY <1>1, <3>3
    <3> QED
      BY <3>2, <3>4
  <2> HIDE DEF T
  <2>3. \A t \in Nat : t \in T
    BY <2>1, <2>2, Upwards
  <2> QED
    BY <2>3 DEF T
<1>11. f \in [0 .. 6 -> S]
  BY <1>9, <1>10
<1> QED
  BY <1>8, <1>9, <1>11 DEF ItemsOf

\* The items of one more type.
LEMMA OneTypeMore ==
  ASSUME NEW map, IsMap(map), NEW t \in 0 .. 5, NEW items \in Seq(ToSet(map.elements)),
         NEW from, ComesFrom(from, items, map, t)
  PROVE  \E more : ComesFrom(more, items \o ElementsAt(map.elements, OfType(map, ItemType[t + 1])),
                             map, t + 1)
<1> DEFINE X == ToSet(map.elements)
           places == OfType(map, ItemType[t + 1])
           q == ElementsAt(map.elements, places)
<1>1. map.elements \in Seq(X) /\ items \in Seq(X)
  BY DEF IsMap
<1>2. q \in Seq(X) /\ \E picks : Picks(picks, q, map.elements, places, Len(map.elements))
  BY <1>1, ElementsAtPlaces
<1>3. PICK picks : Picks(picks, q, map.elements, places, Len(map.elements))
  BY <1>2
<1>4. /\ picks \in Seq(Nat) /\ Len(q) = Len(picks)
      /\ \A i \in 1 .. Len(picks) : picks[i] \in places /\ q[i] = map.elements[picks[i]]
      /\ \A i, j \in 1 .. Len(picks) : i < j => picks[i] < picks[j]
      /\ \A p \in 1 .. Len(map.elements) : p \in places => \E i \in 1 .. Len(picks) : picks[i] = p
  BY <1>3 DEF Picks
<1>5. \A p \in places : p \in 1 .. Len(map.elements)
  BY <1>1 DEF OfType, Supported
<1> DEFINE both == from \o picks
           all == items \o q
           n == Len(from)
           m == Len(picks)
<1>6. from \in Seq(Nat) /\ Len(items) = n
  BY DEF ComesFrom
<1>7. /\ n \in Nat /\ m \in Nat /\ both \in Seq(Nat) /\ Len(both) = n + m
      /\ \A i \in 1 .. n + m : both[i] = IF i <= n THEN from[i] ELSE picks[i - n]
  BY <1>4, <1>6, Concatenation
<1>8. /\ Len(all) = n + m
      /\ \A i \in 1 .. n + m : all[i] = IF i <= n THEN items[i] ELSE q[i - n]
  <2> HIDE DEF q, X
  <2>1. n = Len(items) /\ m = Len(q)
    BY <1>4, <1>6
  <2> HIDE DEF n, m
  <2> QED
    BY <1>1, <1>2, <2>1, Concatenation
<1>9. \A u \in 1 .. t : u \in 1 .. t + 1 /\ OfType(map, ItemType[u]) \cap places = {}
  <2> SUFFICES ASSUME NEW u \in 1 .. t PROVE u \in 1 .. t + 1 /\ OfType(map, ItemType[u]) \cap places = {}
    OBVIOUS
  <2>1. u \in 1 .. 6 /\ t + 1 \in 1 .. 6 /\ u # t + 1
    OBVIOUS
  <2>2. ItemType[u] # ItemType[t + 1]
    BY <2>1, SixTypes
  <2> QED
    BY <2>2 DEF OfType
<1> HIDE DEF q, X, both, all, places, n, m
<1>10. /\ \A i \in 1 .. n : items[i] = map.elements[from[i]] /\ \E u \in 1 .. t : from[i] \in OfType(map, ItemType[u])
       /\ \A i, j \in 1 .. n : from[i] = from[j] => i = j
       /\ \A u \in 1 .. t : \A p \in OfType(map, ItemType[u]) : \E i \in 1 .. n : from[i] = p
  BY DEF ComesFrom, n
<1>11. /\ \A i \in 1 .. m : picks[i] \in places /\ q[i] = map.elements[picks[i]]
       /\ \A i, j \in 1 .. m : i < j => picks[i] < picks[j]
       /\ \A p \in 1 .. Len(map.elements) : p \in places => \E i \in 1 .. m : picks[i] = p
       /\ \A i \in 1 .. m : picks[i] \in Nat
  BY <1>4 DEF m
<1>12. ASSUME NEW i \in 1 .. n + m
       PROVE  /\ all[i] = map.elements[both[i]]
              /\ IF i <= n THEN \E u \in 1 .. t : both[i] \in OfType(map, ItemType[u]) ELSE both[i] \in places
  <2>1. CASE i <= n
    <3>1. i \in 1 .. n
      BY <1>7, <2>1
    <3>2. both[i] = from[i] /\ all[i] = items[i]
      BY <1>7, <1>8, <2>1
    <3> QED
      BY <1>10, <2>1, <3>1, <3>2
  <2>2. CASE ~(i <= n)
    <3>1. i - n \in 1 .. m
      BY <1>7, <2>2
    <3>2. both[i] = picks[i - n] /\ all[i] = q[i - n]
      BY <1>7, <1>8, <2>2
    <3> QED
      BY <1>11, <2>2, <3>1, <3>2
  <2> QED
    BY <2>1, <2>2
<1>13. ASSUME NEW i \in 1 .. n + m
       PROVE  \E u \in 1 .. t + 1 : both[i] \in OfType(map, ItemType[u])
  <2>1. t + 1 \in 1 .. t + 1
    OBVIOUS
  <2> QED
    BY <1>9, <1>12, <2>1 DEF places
<1>14. ASSUME NEW i \in 1 .. n + m, NEW j \in 1 .. n + m, both[i] = both[j] PROVE i = j
  <2>1. CASE i <= n /\ j <= n
    <3>1. i \in 1 .. n /\ j \in 1 .. n
      BY <1>7, <2>1
    <3>2. from[i] = from[j]
      BY <1>7, <1>14, <2>1
    <3> QED
      BY <1>10, <3>1, <3>2
  <2>2. CASE ~(i <= n) /\ ~(j <= n)
    <3>1. PICK a \in 1 .. m, b \in 1 .. m : a = i - n /\ b = j - n
      BY <1>7, <2>2
    <3>2. picks[a] = picks[b]
      BY <1>7, <1>14, <2>2, <3>1
    <3>3. picks[a] \in Nat /\ picks[b] \in Nat
      BY <1>11
    <3>4. ~(a < b) /\ ~(b < a)
      BY <1>11, <3>2, <3>3
    <3>5. a = b
      BY <1>7, <3>4
    <3> QED
      BY <1>7, <3>1, <3>5
  <2>3. CASE (i <= n) # (j <= n)
    BY <1>9, <1>12, <1>14, <2>3
  <2> QED
    BY <2>1, <2>2, <2>3
<1>15. ASSUME NEW u \in 1 .. t + 1, NEW p \in OfType(map, ItemType[u])
       PROVE  \E i \in 1 .. n + m : both[i] = p
  <2>1. CASE u \in 1 .. t
    <3>1. PICK i \in 1 .. n : from[i] = p
      BY <1>10, <2>1
    <3>2. i \in 1 .. n + m /\ i <= n
      BY <1>7
    <3> QED
      BY <1>7, <3>1, <3>2
  <2>2. CASE u = t + 1
    <3>1. PICK i \in 1 .. m : picks[i] = p
      BY <1>11, <1>5, <2>2 DEF places
    <3>2. i + n \in 1 .. n + m /\ ~(i + n <= n) /\ (i + n) - n = i
      BY <1>7
    <3> QED
      BY <1>7, <3>1, <3>2
  <2>3. u \in 1 .. t \/ u = t + 1
    OBVIOUS
  <2> QED
    BY <2>1, <2>2, <2>3
<1>16. ComesFrom(both, all, map, t + 1)
  <2>1. Len(both) = n + m /\ Len(all) = n + m /\ both \in Seq(Nat)
    BY <1>7, <1>8
  <2> QED
    BY <1>12, <1>13, <1>14, <1>15, <2>1 DEF ComesFrom
<1> QED
  BY <1>16 DEF all, q, places

\* The items are the supported elements of the map, each once.
LEMMA ItemsComeFrom ==
  ASSUME NEW map, IsMap(map)
  PROVE  /\ Items(map) \in Seq(ToSet(map.elements))
         /\ \E from : ComesFrom(from, Items(map), map, 6)
<1>1. PICK f : ItemsOf(f, map) /\ Items(map) = f[6]
  BY ItemsInSteps
<1> DEFINE T == {t \in Nat : t <= 6 => \E from : ComesFrom(from, f[t], map, t)}
<1>2. 0 \in T
  <2>1. ComesFrom(<<>>, <<>>, map, 0)
    BY DEF ComesFrom
  <2> QED
    BY <1>1, <2>1 DEF ItemsOf
<1>3. ASSUME NEW t \in Nat, t \in T PROVE t + 1 \in T
  <2> SUFFICES ASSUME t + 1 <= 6 PROVE \E from : ComesFrom(from, f[t + 1], map, t + 1)
    OBVIOUS
  <2>1. t \in 0 .. 5 /\ t \in 0 .. 6 /\ t + 1 \in 1 .. 6 /\ (t + 1) - 1 = t /\ t <= 6
    OBVIOUS
  <2>2. f[t] \in Seq(ToSet(map.elements))
        /\ f[t + 1] = f[t] \o ElementsAt(map.elements, OfType(map, ItemType[t + 1]))
    BY <1>1, <2>1 DEF ItemsOf
  <2>3. PICK from : ComesFrom(from, f[t], map, t)
    BY <1>3, <2>1
  <2>4. \E more : ComesFrom(more, f[t] \o ElementsAt(map.elements, OfType(map, ItemType[t + 1])), map, t + 1)
    BY <2>1, <2>2, <2>3, OneTypeMore
  <2> QED
    BY <2>2, <2>4
<1> HIDE DEF T
<1>4. 6 \in T
  BY <1>2, <1>3, Upwards
<1>5. f[6] \in Seq(ToSet(map.elements))
  BY <1>1 DEF ItemsOf
<1> QED
  BY <1>1, <1>4, <1>5 DEF T

-----------------------------------------------------------------------------
\* What the lines of an element are: of that element, and of its kind.
MadeAs(lines, e, kind, boxes) ==
  /\ lines \in Seq(ToSet(lines)) /\ Len(lines) >= 1
  /\ \A x \in 1 .. Len(lines) : lines[x].of = e.name
  /\ TypesOf(kind)[e.tag] = "REMOVE_OBJECT" =>
       /\ Len(lines) = IF e.lod_model = 0 THEN 1 ELSE 2
       /\ \A x \in 1 .. Len(lines) : lines[x].cmd = "RemoveBuildingForPlayer"
  /\ TypesOf(kind)[e.tag] # "REMOVE_OBJECT" =>
       /\ lines[1].cmd \in Makes
       /\ \A x \in 2 .. Len(lines) : lines[x].cmd \in Links /\ lines[1].cmd = "tempvehid=CreateVehicle"
  /\ TypesOf(kind)[e.tag] = "VEHICLE" /\ "ONLY_CREATE_VEHICLE" \notin boxes =>
       /\ e.interior # 0 <=> \E x \in 1 .. Len(lines) : lines[x].cmd = "LinkVehicleToInterior"
       /\ e.world # 0 <=> \E x \in 1 .. Len(lines) : lines[x].cmd = "SetVehicleVirtualWorld"

\* The commands of the script are different ones.
LEMMA Commands ==
  /\ "RemoveBuildingForPlayer" \notin Makes \cup Links
  /\ \A cmd \in Makes : cmd \notin Links
  /\ \A cmd \in Links : cmd \notin Makes /\ cmd # "tempvehid=CreateVehicle"
  /\ "tempvehid=CreateVehicle" \in Makes
  /\ "CreateVehicle" \in Makes /\ "Create" \in Makes
  /\ "CreateDynamicObject" \in Makes /\ "SetDynamicObjectMaterial" \in Makes
BY DEF Makes, Links

\* One line alone.
LEMMA LineAlone ==
  ASSUME NEW line
  PROVE  /\ <<line>> \in Seq({line}) /\ Len(<<line>>) = 1 /\ <<line>>[1] = line /\ ToSet(<<line>>) = {line}
  <1>1. <<line>> \in Seq({line}) /\ Len(<<line>>) = 1 /\ <<line>>[1] = line
    OBVIOUS
  <1>2. DOMAIN <<line>> = {1}
    OBVIOUS
  <1>3. ToSet(<<line>>) = {line}
    BY <1>1, <1>2, Zenon DEF ToSet
  <1> QED
    BY <1>1, <1>3

\* A conditional line.
LEMMA LineIf ==
  ASSUME NEW condition, NEW line, NEW X, line \in X
  PROVE  If(condition, line) \in Seq(X) /\ ToSet(If(condition, line)) = {x \in {line} : condition}
<1>1. CASE condition
  <2>1. If(condition, line) = <<line>>
    BY <1>1 DEF If
  <2>2. <<line>> \in Seq(X)
    OBVIOUS
  <2>3. ToSet(<<line>>) = {line}
    BY LineAlone
  <2> QED
    BY <1>1, <2>1, <2>2, <2>3
<1>2. CASE ~condition
  <2>1. If(condition, line) = <<>>
    BY <1>2 DEF If
  <2>2. <<>> \in Seq(X) /\ DOMAIN <<>> = {}
    OBVIOUS
  <2>3. ToSet(<<>>) = {}
    BY <2>2, Zenon DEF ToSet
  <2> QED
    BY <1>2, <2>1, <2>2, <2>3
<1> QED
  BY <1>1, <1>2

\* The lines behind a vehicle that has more to it.
LEMMA SpecialLines ==
  ASSUME NEW e
  PROVE  /\ \E X : Special(e) \in Seq(X)
         /\ \A line \in ToSet(Special(e)) : line.of = e.name /\ line.cmd \in Links
         /\ e.interior # 0 <=> \E line \in ToSet(Special(e)) : line.cmd = "LinkVehicleToInterior"
         /\ e.world # 0 <=> \E line \in ToSet(Special(e)) : line.cmd = "SetVehicleVirtualWorld"
<1> DEFINE plate == Line("SetVehicleNumberPlate", e)
           inside == Line("LinkVehicleToInterior", e)
           away == Line("SetVehicleVirtualWorld", e)
           paint == Line("ChangeVehiclePaintjob", e)
           X == {plate, inside, away, paint}
           c1 == "SAVE_NUMBER_PLATE" \in flags /\ e.plate # ""
           c2 == e.interior # 0
           c3 == e.world # 0
           c4 == e.paintjob < 3
<1>1. /\ plate.of = e.name /\ inside.of = e.name /\ away.of = e.name /\ paint.of = e.name
      /\ plate.cmd = "SetVehicleNumberPlate" /\ inside.cmd = "LinkVehicleToInterior"
      /\ away.cmd = "SetVehicleVirtualWorld" /\ paint.cmd = "ChangeVehiclePaintjob"
  BY DEF Line
<1>2. Special(e) = If(c1, plate) \o If(c2, inside) \o If(c3, away) \o If(c4, paint)
  BY DEF Special
<1>3. plate \in X /\ inside \in X /\ away \in X /\ paint \in X
  OBVIOUS
<1> HIDE DEF plate, inside, away, paint, X, c1, c4
<1>4. \A condition : \A line \in X :
        If(condition, line) \in Seq(X) /\ ToSet(If(condition, line)) = {x \in {line} : condition}
  BY LineIf
<1> DEFINE p1 == If(c1, plate)
           p2 == If(c2, inside)
           p3 == If(c3, away)
           p4 == If(c4, paint)
<1>5. /\ p1 \in Seq(X) /\ ToSet(p1) = {x \in {plate} : c1}
      /\ p2 \in Seq(X) /\ ToSet(p2) = {x \in {inside} : c2}
      /\ p3 \in Seq(X) /\ ToSet(p3) = {x \in {away} : c3}
      /\ p4 \in Seq(X) /\ ToSet(p4) = {x \in {paint} : c4}
  <2>1. p1 \in Seq(X) /\ ToSet(p1) = {x \in {plate} : c1}
    BY <1>3, <1>4, Zenon DEF c1
  <2>2. p2 \in Seq(X) /\ ToSet(p2) = {x \in {inside} : c2}
    BY <1>3, <1>4, Zenon
  <2>3. p3 \in Seq(X) /\ ToSet(p3) = {x \in {away} : c3}
    BY <1>3, <1>4, Zenon
  <2>4. p4 \in Seq(X) /\ ToSet(p4) = {x \in {paint} : c4}
    <3>1. CASE c4
      <4>1. p4 = If(TRUE, paint)
        BY <3>1 DEF If, c4
      <4> QED
        BY <1>3, <1>4, <3>1, <4>1
    <3>2. CASE ~c4
      <4>1. p4 = If(FALSE, paint)
        BY <3>2 DEF If, c4
      <4> QED
        BY <1>3, <1>4, <3>2, <4>1
    <3> QED
      BY <3>1, <3>2
  <2> QED
    BY <2>1, <2>2, <2>3, <2>4, Zenon
<1> HIDE DEF p1, p2, p3, p4
<1>6. p1 \o p2 \in Seq(X) /\ ToSet(p1 \o p2) = ToSet(p1) \cup ToSet(p2)
  BY <1>5, ElementsOfBoth
<1>7. (p1 \o p2) \o p3 \in Seq(X) /\ ToSet((p1 \o p2) \o p3) = ToSet(p1 \o p2) \cup ToSet(p3)
  <2> DEFINE r == p1 \o p2
  <2> HIDE DEF r
  <2>1. r \in Seq(X)
    BY <1>6 DEF r
  <2>2. r \o p3 \in Seq(X) /\ ToSet(r \o p3) = ToSet(r) \cup ToSet(p3)
    BY <1>5, <2>1, ElementsOfBoth
  <2> QED
    BY <2>2 DEF r
<1> DEFINE q == (p1 \o p2) \o p3
<1>8. q \o p4 \in Seq(X) /\ ToSet(q \o p4) = ToSet(q) \cup ToSet(p4)
  <2>1. q \in Seq(X)
    BY <1>7
  <2> HIDE DEF q
  <2> QED
    BY <1>5, <2>1, ElementsOfBoth
<1>9. Special(e) = q \o p4
  BY <1>2 DEF p1, p2, p3, p4
<1> DEFINE T == ToSet(Special(e))
<1>10. T = {x \in {plate} : c1} \cup {x \in {inside} : c2} \cup {x \in {away} : c3} \cup {x \in {paint} : c4}
  BY <1>5, <1>6, <1>7, <1>8, <1>9, Zenon
<1> HIDE DEF T
<1>11. \A line \in T : line.of = e.name /\ line.cmd \in Links
  BY <1>1, <1>10 DEF Links
<1>12. e.interior # 0 <=> \E line \in T : line.cmd = "LinkVehicleToInterior"
  BY <1>1, <1>10
<1>13. e.world # 0 <=> \E line \in T : line.cmd = "SetVehicleVirtualWorld"
  BY <1>1, <1>10
<1> QED
  BY <1>11, <1>12, <1>13, <1>8, <1>9 DEF T

\* One line that makes an element.
LEMMA OneLineMakes ==
  ASSUME NEW line, NEW e, NEW kind, NEW boxes, line.of = e.name, line.cmd \in Makes,
         TypesOf(kind)[e.tag] # "REMOVE_OBJECT",
         TypesOf(kind)[e.tag] = "VEHICLE" => "ONLY_CREATE_VEHICLE" \in boxes \/ (e.interior = 0 /\ e.world = 0)
  PROVE  MadeAs(<<line>>, e, kind, boxes)
<1> DEFINE lines == <<line>>
<1>1. lines \in Seq(ToSet(lines)) /\ Len(lines) = 1 /\ lines[1] = line
  BY LineAlone
<1> HIDE DEF lines
<1>2. \A x \in 1 .. Len(lines) : lines[x].of = e.name /\ lines[x].cmd \in Makes
  BY <1>1
<1>3. \A x \in 2 .. Len(lines) : FALSE
  BY <1>1
<1>4. \A x \in 1 .. Len(lines) : lines[x].cmd # "LinkVehicleToInterior" /\ lines[x].cmd # "SetVehicleVirtualWorld"
  BY <1>2, Commands DEF Links
<1>5. MadeAs(lines, e, kind, boxes)
  BY <1>1, <1>2, <1>3, <1>4 DEF MadeAs
<1> QED
  BY <1>5 DEF lines

\* A line twice.
LEMMA LineTwice ==
  ASSUME NEW line
  PROVE  <<line>> \o <<line>> \in Seq({line}) /\ Len(<<line>> \o <<line>>) = 2
<1> DEFINE one == <<line>>
           X == {line}
           n == Len(one)
<1>1. one \in Seq(X) /\ n = 1
  BY LineAlone
<1> HIDE DEF one, X, n
<1>2. one \o one \in Seq(X) /\ Len(one \o one) = n + n
  <2>1. one \in Seq(X)
    BY <1>1
  <2> QED
    BY <2>1, Concatenation DEF n
<1>3. n + n = 2
  BY <1>1
<1> QED
  BY <1>2, <1>3 DEF one, X

\* A line with others behind it.
LEMMA LineAndMore ==
  ASSUME NEW X, NEW first, NEW rest \in Seq(X \cup {first})
  PROVE  /\ Len(rest) \in Nat /\ <<first>> \o rest \in Seq(X \cup {first})
         /\ Len(<<first>> \o rest) = 1 + Len(rest)
         /\ \A x \in 1 .. 1 + Len(rest) :
              (<<first>> \o rest)[x] = IF x <= 1 THEN <<first>>[x] ELSE rest[x - 1]
<1> DEFINE one == <<first>>
           Y == X \cup {first}
           n == Len(one)
           m == Len(rest)
<1>1. one \in Seq(Y) /\ n = 1 /\ rest \in Seq(Y)
  BY LineAlone
<1> HIDE DEF one, Y, n, m
<1>2. /\ m \in Nat /\ one \o rest \in Seq(Y) /\ Len(one \o rest) = n + m
      /\ \A x \in 1 .. n + m : (one \o rest)[x] = IF x <= n THEN one[x] ELSE rest[x - n]
  <2>1. one \in Seq(Y) /\ rest \in Seq(Y)
    BY <1>1
  <2> QED
    BY <2>1, Concatenation DEF n, m
<1>3. /\ m \in Nat /\ one \o rest \in Seq(Y) /\ Len(one \o rest) = 1 + m
      /\ \A x \in 1 .. 1 + m : (one \o rest)[x] = IF x <= 1 THEN one[x] ELSE rest[x - 1]
  BY <1>1, <1>2
<1> QED
  BY <1>3 DEF one, Y, m

\* What is written for a removed object: one line, and one for its distant model.
LEMMA RemoveLinesMade ==
  ASSUME NEW e, NEW lines \in RemoveLines(e), NEW kind, NEW boxes, TypesOf(kind)[e.tag] = "REMOVE_OBJECT"
  PROVE  MadeAs(lines, e, kind, boxes)
<1> DEFINE line == Line("RemoveBuildingForPlayer", e)
           more == e.lod_model # 0
<1>1. line.of = e.name /\ line.cmd = "RemoveBuildingForPlayer"
  BY DEF Line
<1>2. lines = <<line>> \o (IF more THEN <<line>> ELSE <<>>)
  BY DEF RemoveLines, If
<1> HIDE DEF line
<1>3. lines \in Seq({line}) /\ Len(lines) = IF more THEN 2 ELSE 1
  <2>1. CASE more
    BY <1>2, <2>1, LineTwice
  <2>2. CASE ~more
    <3>1. lines = <<line>>
      BY <1>2, <2>2
    <3> QED
      BY <2>2, <3>1
  <2> QED
    BY <2>1, <2>2
<1>4. \A x \in 1 .. Len(lines) : lines[x] = line
  BY <1>3, ElementOfSeq
<1>5. lines \in Seq(ToSet(lines))
  BY <1>3, OfItsOwn
<1> QED
  BY <1>1, <1>3, <1>4, <1>5 DEF MadeAs

\* What is written for a vehicle: the line that makes it, and what is special about it behind.
LEMMA VehicleLinesMade ==
  ASSUME NEW e, NEW lines \in VehicleLines(e), TypesOf(input.kind)[e.tag] = "VEHICLE"
  PROVE  MadeAs(lines, e, input.kind, flags)
<1>1. PICK pair : lines = IF NoSpecialization(e) THEN <<[Line("CreateVehicle", e) EXCEPT !.colors = pair]>>
                          ELSE <<[Line("tempvehid=CreateVehicle", e) EXCEPT !.colors = pair]>> \o Special(e)
  BY DEF VehicleLines
<1> DEFINE only == [Line("CreateVehicle", e) EXCEPT !.colors = pair]
           first == [Line("tempvehid=CreateVehicle", e) EXCEPT !.colors = pair]
<1>2. only.of = e.name /\ only.cmd = "CreateVehicle" /\ first.of = e.name /\ first.cmd = "tempvehid=CreateVehicle"
  BY DEF Line
<1> HIDE DEF only, first
<1>3. CASE NoSpecialization(e)
  <2>1. lines = <<only>>
    BY <1>1, <1>3 DEF only
  <2>2. "ONLY_CREATE_VEHICLE" \in flags \/ (e.interior = 0 /\ e.world = 0)
    BY <1>3 DEF NoSpecialization
  <2>3. only.cmd \in Makes
    BY <1>2, Commands
  <2>4. MadeAs(<<only>>, e, input.kind, flags)
    BY <1>2, <2>2, <2>3, OneLineMakes
  <2> QED
    BY <2>1, <2>4
<1>4. CASE ~NoSpecialization(e)
  <2> DEFINE rest == Special(e)
             one == <<first>>
             m == Len(rest)
  <2>1. lines = one \o rest
    BY <1>1, <1>4 DEF first
  <2>2. PICK X : rest \in Seq(X)
    BY SpecialLines
  <2>3. /\ \A line \in ToSet(rest) : line.of = e.name /\ line.cmd \in Links
        /\ e.interior # 0 <=> \E line \in ToSet(rest) : line.cmd = "LinkVehicleToInterior"
        /\ e.world # 0 <=> \E line \in ToSet(rest) : line.cmd = "SetVehicleVirtualWorld"
    BY SpecialLines
  <2> DEFINE Y == X \cup {first}
  <2>4. /\ one \in Seq(Y) /\ Len(one) = 1 /\ one[1] = first /\ ToSet(one) = {first}
    BY LineAlone
  <2>5. rest \in Seq(Y)
    BY <2>2
  <2> HIDE DEF rest, one, Y, m
  <2>6. /\ m \in Nat /\ lines \in Seq(Y) /\ Len(lines) = 1 + m
        /\ \A x \in 1 .. 1 + m : lines[x] = IF x <= 1 THEN one[x] ELSE rest[x - 1]
    BY <2>1, <2>5, LineAndMore DEF Y, one, m
  <2>7. lines[1] = first
    BY <2>4, <2>6
  <2>8. ToSet(rest) = {rest[x] : x \in 1 .. m}
    BY <2>5 DEF ToSet, m
  <2>9. \A x \in 2 .. 1 + m : x - 1 \in 1 .. m /\ lines[x] = rest[x - 1]
    BY <2>6
  <2>10. \A x \in 1 .. m : x + 1 \in 2 .. 1 + m /\ lines[x + 1] = rest[x]
    BY <2>6
  <2>11. \A x \in 2 .. 1 + m : lines[x].of = e.name /\ lines[x].cmd \in Links
    BY <2>3, <2>8, <2>9
  <2>12. \A x \in 1 .. 1 + m : lines[x].of = e.name
    <3>1. \A x \in 1 .. 1 + m : x = 1 \/ x \in 2 .. 1 + m
      BY <2>6
    <3> QED
      BY <1>2, <2>7, <2>11, <3>1
  <2>13. ASSUME NEW cmd \in Links
         PROVE  (\E line \in ToSet(rest) : line.cmd = cmd) <=> \E x \in 1 .. 1 + m : lines[x].cmd = cmd
    <3>1. ASSUME NEW line \in ToSet(rest), line.cmd = cmd PROVE \E x \in 1 .. 1 + m : lines[x].cmd = cmd
      <4>1. PICK x \in 1 .. m : line = rest[x]
        BY <2>8
      <4>2. x + 1 \in 1 .. 1 + m
        BY <2>6
      <4> QED
        BY <2>10, <3>1, <4>1, <4>2
    <3>2. ASSUME NEW x \in 1 .. 1 + m, lines[x].cmd = cmd PROVE \E line \in ToSet(rest) : line.cmd = cmd
      <4>1. x # 1
        BY <1>2, <2>7, <3>2, Commands
      <4>2. x \in 2 .. 1 + m
        BY <2>6, <4>1
      <4> QED
        BY <2>8, <2>9, <3>2, <4>2
    <3> QED
      BY <3>1, <3>2
  <2>14. "LinkVehicleToInterior" \in Links /\ "SetVehicleVirtualWorld" \in Links
    BY DEF Links
  <2>15. lines[1].cmd \in Makes /\ lines[1].cmd = "tempvehid=CreateVehicle"
    BY <1>2, <2>7, Commands
  <2>16. lines \in Seq(ToSet(lines))
    BY <2>6, OfItsOwn
  <2>17. /\ e.interior # 0 <=> \E x \in 1 .. 1 + m : lines[x].cmd = "LinkVehicleToInterior"
         /\ e.world # 0 <=> \E x \in 1 .. 1 + m : lines[x].cmd = "SetVehicleVirtualWorld"
    BY <2>3, <2>13, <2>14
  <2> QED
    BY <2>6, <2>11, <2>12, <2>15, <2>16, <2>17 DEF MadeAs
<1> QED
  BY <1>3, <1>4

\* What is written for an element is of its kind.
LEMMA WrittenAsMade ==
  ASSUME NEW e, NEW lines \in ConvertToSampFormat(e)
  PROVE  MadeAs(lines, e, input.kind, flags)
<1> DEFINE type == TypesOf(input.kind)[e.tag]
<1>1. CASE type = "OBJECT"
  <2> DEFINE cmd == IF "HIDE_WHEN_ALPHA_NOT_255" \in flags /\ Alpha(e) # 255
                    THEN "SetDynamicObjectMaterial" ELSE "CreateDynamicObject"
  <2>1. lines = <<Line(cmd, e)>>
    BY <1>1 DEF ConvertToSampFormat, ObjectLines
  <2>2. cmd \in Makes
    BY Commands
  <2> HIDE DEF cmd
  <2>3. Line(cmd, e).of = e.name /\ Line(cmd, e).cmd = cmd
    BY DEF Line
  <2>4. type # "REMOVE_OBJECT" /\ type # "VEHICLE"
    BY <1>1
  <2>5. MadeAs(<<Line(cmd, e)>>, e, input.kind, flags)
    <3> DEFINE line == Line(cmd, e)
    <3>1. line.of = e.name /\ line.cmd \in Makes
      BY <2>2, <2>3
    <3> HIDE DEF line
    <3>2. MadeAs(<<line>>, e, input.kind, flags)
      BY <2>4, <3>1, OneLineMakes
    <3> QED
      BY <3>2 DEF line
  <2> QED
    BY <2>1, <2>5
<1>2. CASE type = "REMOVE_OBJECT"
  BY <1>2, RemoveLinesMade DEF ConvertToSampFormat
<1>3. CASE type = "VEHICLE"
  BY <1>3, VehicleLinesMade DEF ConvertToSampFormat
<1>4. CASE type \notin {"OBJECT", "REMOVE_OBJECT", "VEHICLE"}
  <2> DEFINE line == Line("Create", e)
  <2>1. lines = <<line>>
    BY <1>4 DEF ConvertToSampFormat
  <2>2. line.of = e.name /\ line.cmd = "Create"
    BY DEF Line
  <2> HIDE DEF line
  <2>3. line.cmd \in Makes
    BY <2>2, Commands
  <2>4. MadeAs(<<line>>, e, input.kind, flags)
    BY <1>4, <2>2, <2>3, OneLineMakes
  <2> QED
    BY <2>1, <2>4
<1> QED
  BY <1>1, <1>2, <1>3, <1>4

-----------------------------------------------------------------------------
\* Where an element is in a text: its lines stand together, and no other line is of it.
WrittenAt(text, off, lines, e, kind, boxes) ==
  /\ MadeAs(lines, e, kind, boxes)
  /\ off \in Nat /\ off + Len(lines) <= Len(text)
  /\ \A x \in 1 .. Len(lines) : text[off + x] = lines[x]
  /\ \A x \in 1 .. Len(text) : text[x].of = e.name => x - off \in 1 .. Len(lines)

\* A text of the first k items: each is written, and nothing else.
Describes(text, items, k, kind, boxes) ==
  /\ text \in Seq(ToSet(text))
  /\ \A x \in 1 .. Len(text) : \E i \in 1 .. k : text[x].of = items[i].name
  /\ \A i \in 1 .. k : \E off, lines : WrittenAt(text, off, lines, items[i], kind, boxes)

\* The lines of one more item go behind the text.
LEMMA OneItemMore ==
  ASSUME NEW items, NEW k \in Nat, NEW kind, NEW boxes, NEW text, NEW lines,
         Describes(text, items, k, kind, boxes), MadeAs(lines, items[k + 1], kind, boxes),
         \A i \in 1 .. k : items[i].name # items[k + 1].name
  PROVE  Describes(text \o lines, items, k + 1, kind, boxes)
<1> DEFINE X == ToSet(text) \cup ToSet(lines)
           both == text \o lines
           n == Len(text)
           m == Len(lines)
           e == items[k + 1]
<1>1. text \in Seq(X) /\ lines \in Seq(X)
  BY DEF Describes, MadeAs
<1> HIDE DEF X
<1>2. /\ n \in Nat /\ m \in Nat /\ both \in Seq(X) /\ Len(both) = n + m
      /\ \A x \in 1 .. n + m : both[x] = IF x <= n THEN text[x] ELSE lines[x - n]
  BY <1>1, Concatenation
<1>3. both \in Seq(ToSet(both))
  BY <1>2, OfItsOwn
<1>4. \A x \in 1 .. n : \E i \in 1 .. k : text[x].of = items[i].name
  BY DEF Describes
<1>5. \A x \in 1 .. m : lines[x].of = e.name
  BY DEF MadeAs
<1>6. MadeAs(lines, e, kind, boxes) /\ \A i \in 1 .. k : items[i].name # e.name
  OBVIOUS
<1>7. \A i \in 1 .. k : \E off, old : WrittenAt(text, off, old, items[i], kind, boxes)
  BY DEF Describes
<1> HIDE DEF both, n, m, e
<1>8. /\ \A x \in 1 .. n : x \in 1 .. n + m /\ both[x] = text[x]
      /\ \A x \in 1 .. m : n + x \in 1 .. n + m /\ both[n + x] = lines[x]
  <2>1. \A x \in 1 .. n : x \in 1 .. n + m /\ x <= n
    BY <1>2
  <2>2. \A x \in 1 .. m : n + x \in 1 .. n + m /\ ~(n + x <= n) /\ (n + x) - n = x
    BY <1>2
  <2>3. \A x \in 1 .. n : x \in 1 .. n + m /\ both[x] = text[x]
    BY <1>2, <2>1
  <2>4. ASSUME NEW x \in 1 .. m PROVE n + x \in 1 .. n + m /\ both[n + x] = lines[x]
    BY <1>2, <2>2
  <2> QED
    BY <2>3, <2>4
<1>9. \A x \in 1 .. n + m : x \in 1 .. n \/ (x - n \in 1 .. m /\ n + (x - n) = x)
  BY <1>2
<1>10. ASSUME NEW x \in 1 .. n + m PROVE \E i \in 1 .. k + 1 : both[x].of = items[i].name
  <2>1. CASE x \in 1 .. n
    <3>1. PICK i \in 1 .. k : text[x].of = items[i].name
      BY <1>4, <2>1
    <3>2. i \in 1 .. k + 1
      OBVIOUS
    <3> QED
      BY <1>8, <2>1, <3>1, <3>2
  <2>2. CASE x - n \in 1 .. m /\ n + (x - n) = x
    <3>1. PICK y \in 1 .. m : y = x - n /\ n + y = x
      BY <2>2
    <3>2. both[x].of = e.name
      BY <1>5, <1>8, <3>1
    <3>3. k + 1 \in 1 .. k + 1
      OBVIOUS
    <3> QED
      BY <3>2, <3>3 DEF e
  <2> QED
    BY <1>9, <2>1, <2>2
<1>11. ASSUME NEW i \in 1 .. k PROVE \E off, old : WrittenAt(both, off, old, items[i], kind, boxes)
  <2>1. PICK off, old : WrittenAt(text, off, old, items[i], kind, boxes)
    BY <1>7
  <2> DEFINE c == Len(old)
             name == items[i].name
  <2>2. /\ MadeAs(old, items[i], kind, boxes)
        /\ off \in Nat /\ off + c <= n
        /\ \A x \in 1 .. c : text[off + x] = old[x]
        /\ \A x \in 1 .. n : text[x].of = name => x - off \in 1 .. c
    BY <2>1 DEF WrittenAt, n
  <2>3. c \in Nat
    BY <2>2, LenProperties DEF MadeAs
  <2>4. name # e.name
    BY <1>6
  <2> HIDE DEF c, name
  <2>5. ASSUME NEW x \in 1 .. c PROVE both[off + x] = old[x]
    <3>1. off + x \in 1 .. n
      BY <1>2, <2>2, <2>3
    <3> QED
      BY <1>8, <2>2, <3>1
  <2>6. ASSUME NEW x \in 1 .. n + m, both[x].of = name PROVE x - off \in 1 .. c
    <3>1. CASE x \in 1 .. n
      BY <1>8, <2>2, <2>6, <3>1
    <3>2. CASE x - n \in 1 .. m /\ n + (x - n) = x
      <4>1. PICK y \in 1 .. m : y = x - n /\ n + y = x
        BY <3>2
      <4>2. both[x].of = e.name
        BY <1>5, <1>8, <4>1
      <4> QED
        BY <2>4, <2>6, <4>2
    <3> QED
      BY <1>9, <3>1, <3>2
  <2>7. off + c <= n + m
    BY <1>2, <2>2, <2>3
  <2>8. WrittenAt(both, off, old, items[i], kind, boxes)
    BY <1>2, <2>2, <2>5, <2>6, <2>7 DEF WrittenAt, c, name
  <2> QED
    BY <2>8
<1>12. WrittenAt(both, n, lines, e, kind, boxes)
  <2>1. ASSUME NEW x \in 1 .. n + m, both[x].of = e.name PROVE x - n \in 1 .. m
    <3>1. CASE x \in 1 .. n
      <4>1. PICK i \in 1 .. k : text[x].of = items[i].name
        BY <1>4, <3>1
      <4> QED
        BY <1>6, <1>8, <2>1, <3>1, <4>1
    <3> QED
      BY <1>9, <3>1
  <2>2. n + m <= n + m
    BY <1>2
  <2> QED
    BY <1>2, <1>6, <1>8, <2>1, <2>2 DEF WrittenAt, m
<1>13. ASSUME NEW i \in 1 .. k + 1 PROVE \E off, old : WrittenAt(both, off, old, items[i], kind, boxes)
  <2>1. i \in 1 .. k \/ i = k + 1
    OBVIOUS
  <2> QED
    BY <1>11, <1>12, <2>1 DEF e
<1>14. Describes(both, items, k + 1, kind, boxes)
  BY <1>2, <1>3, <1>10, <1>13 DEF Describes
<1> QED
  BY <1>14 DEF both

\* f is the recursive function that continues the texts with each of the ways.
TextsOf(f, n, ways) ==
  f = [k \in 0 .. n |-> IF k = 0 THEN {<<>>} ELSE Continued(f[k - 1], ways[k])]

\* The texts with one more of their parts each, as a recursive function.
LEMMA TextsUpTo ==
  ASSUME NEW L, NEW n \in Nat, NEW ways \in [1 .. n -> SUBSET Seq(L)]
  PROVE  \E f : TextsOf(f, n, ways)
<1> DEFINE S == SUBSET Seq(L)
           Joined(texts, k) == Continued(texts, ways[k])
           next == [k \in Nat |-> [texts \in S |-> IF k + 1 \in 1 .. n THEN Joined(texts, k + 1) ELSE texts]]
<1>1. ASSUME NEW texts \in S, NEW k \in 1 .. n PROVE Joined(texts, k) \in S
  <2>1. \A text \in texts, lines \in ways[k] : text \o lines \in Seq(L)
    <3>1. ways[k] \subseteq Seq(L)
      OBVIOUS
    <3> QED
      BY <3>1, ConcatProperties
  <2> QED
    <3> SUFFICES ASSUME NEW t \in Continued(texts, ways[k]) PROVE t \in Seq(L)
      OBVIOUS
    <3>1. PICK text \in texts, lines \in ways[k] : t = text \o lines
      BY SMT DEF Continued
    <3> QED
      BY <2>1, <3>1
<1>2. {<<>>} \in S
  OBVIOUS
<1> HIDE DEF S, Joined
<1>3. next \in [Nat -> [S -> S]]
  BY <1>1
<1>4. \A k \in Nat, texts \in S : next[k][texts] = IF k + 1 \in 1 .. n THEN Joined(texts, k + 1) ELSE texts
  OBVIOUS
<1> HIDE DEF next
<1>5. PICK h : UnfoldsUpTo(h, S, {<<>>}, next, n)
  <2>1. \A base \in S, len \in Nat : \E h : UnfoldsUpTo(h, S, base, next, len)
    BY <1>3, RecursionUpTo
  <2> QED
    BY <1>2, <2>1, Zenon
<1>6. /\ h \in [0 .. n -> S] /\ h[0] = {<<>>}
      /\ \A k \in 1 .. n : h[k] = next[k - 1][h[k - 1]]
  BY <1>5 DEF UnfoldsUpTo
<1>7. ASSUME NEW k \in 1 .. n PROVE h[k] = Joined(h[k - 1], k)
  <2>1. k - 1 \in Nat /\ (k - 1) + 1 = k /\ k - 1 \in 0 .. n
    OBVIOUS
  <2>2. h[k - 1] \in S
    BY <1>6, <2>1
  <2> QED
    <3>1. next[k - 1][h[k - 1]] = Joined(h[k - 1], k)
      <4> DEFINE j == k - 1
                 texts == h[k - 1]
      <4>1. j \in Nat /\ texts \in S /\ j + 1 = k /\ j + 1 \in 1 .. n
        BY <2>1, <2>2
      <4> HIDE DEF j, texts
      <4>2. next[j][texts] = Joined(texts, j + 1)
        BY <1>4, <4>1
      <4>3. next[j][texts] = Joined(texts, k)
        BY <4>1, <4>2, Zenon
      <4> QED
        BY <4>3 DEF j, texts
    <3> QED
      BY <1>6, <3>1
<1>8. \A k \in 0 .. n : h[k] = IF k = 0 THEN {<<>>} ELSE Joined(h[k - 1], k)
  <2>1. \A k \in 0 .. n : k = 0 \/ k \in 1 .. n
    OBVIOUS
  <2> QED
    BY <1>6, <1>7, <2>1, Zenon
<1>9. h = [k \in 0 .. n |-> h[k]]
  BY <1>6
<1>10. h = [k \in 0 .. n |-> IF k = 0 THEN {<<>>} ELSE Joined(h[k - 1], k)]
  BY <1>8, <1>9, Zenon
<1>11. TextsOf(h, n, ways)
  BY <1>10, Zenon DEF Joined, TextsOf
<1> QED
  BY <1>11, Zenon

\* What a script tells, of items with different names.
LEMMA ScriptDescribes ==
  ASSUME NEW X, NEW items \in Seq(X), NEW text \in Scripts(items),
         \A i, j \in 1 .. Len(items) : items[i].name = items[j].name => i = j
  PROVE  Describes(text, items, Len(items), input.kind, flags)
<1> DEFINE n == Len(items)
           ways == [k \in 1 .. n |-> ConvertToSampFormat(items[k])]
           L == UNION {UNION {ToSet(lines) : lines \in ways[k]} : k \in 1 .. n}
           Defines(f) == f = [k \in 0 .. n |->
                               IF k = 0 THEN {<<>>}
                               ELSE Continued(f[k - 1], ConvertToSampFormat(items[k]))]
<1>1. n \in Nat
  BY LenProperties
<1>2. ASSUME NEW k \in 1 .. n, NEW lines \in ConvertToSampFormat(items[k])
      PROVE  MadeAs(lines, items[k], input.kind, flags)
  BY WrittenAsMade
<1>3. \A k \in 1 .. n : ways[k] = ConvertToSampFormat(items[k])
  OBVIOUS
<1> HIDE DEF n
<1>4. ways \in [1 .. n -> SUBSET Seq(L)]
  <2>1. ASSUME NEW k \in 1 .. n, NEW lines \in ways[k] PROVE lines \in Seq(L)
    <3>1. lines \in Seq(ToSet(lines))
      BY <1>2, <1>3, <2>1 DEF MadeAs
    <3>2. ToSet(lines) \subseteq L
      OBVIOUS
    <3> HIDE DEF L
    <3> QED
      BY <3>1, <3>2
  <2> HIDE DEF L
  <2>2. \A k \in 1 .. n : ways[k] \in SUBSET Seq(L)
    BY <2>1
  <2>3. ways = [k \in 1 .. n |-> ways[k]]
    OBVIOUS
  <2> HIDE DEF ways
  <2> QED
    BY <2>2, <2>3
<1> HIDE DEF L, ways
<1>5. \E f : TextsOf(f, n, ways)
  BY <1>1, <1>4, TextsUpTo
<1>6. PICK h : Defines(h)
  <2>1. PICK f : f = [k \in 0 .. n |->
                    IF k = 0 THEN {<<>>}
                    ELSE Continued(f[k - 1], ways[k])]
    BY <1>5, Zenon DEF TextsOf
  <2>2. \A k \in 0 .. n : k = 0 \/ k \in 1 .. n
    BY <1>1
  <2>3. \A k \in 0 .. n : (IF k = 0 THEN {<<>>}
                    ELSE Continued(f[k - 1], ways[k]))
           = (IF k = 0 THEN {<<>>}
                    ELSE Continued(f[k - 1], ConvertToSampFormat(items[k])))
    BY <1>3, <2>2, Zenon
  <2>4. Defines(f)
    BY <2>1, <2>3, Zenon
  <2> QED
    BY <2>4, Zenon
<1> DEFINE f == CHOOSE s : Defines(s)
<1>7. Defines(f)
  <2> HIDE DEF Defines
  <2> QED
    BY <1>6
<1>8. text \in f[n]
  BY DEF Scripts, n
<1> HIDE DEF f
<1>9. /\ f[0] = {<<>>}
      /\ \A k \in 1 .. n : f[k] = Continued(f[k - 1], ConvertToSampFormat(items[k]))
  <2>1. 0 \in 0 .. n /\ \A k \in 1 .. n : k \in 0 .. n /\ k # 0
    BY <1>1
  <2> QED
    BY <1>7, <2>1, Zenon
<1> DEFINE T == {k \in Nat : k <= n => \A t \in f[k] : Describes(t, items, k, input.kind, flags)}
<1>10. 0 \in T
  <2>1. Describes(<<>>, items, 0, input.kind, flags)
    BY DEF Describes
  <2> QED
    BY <1>9, <2>1
<1>11. ASSUME NEW k \in Nat, k \in T PROVE k + 1 \in T
  <2> SUFFICES ASSUME k + 1 <= n, NEW t \in f[k + 1]
               PROVE  Describes(t, items, k + 1, input.kind, flags)
    OBVIOUS
  <2>1. k + 1 \in 1 .. n /\ (k + 1) - 1 = k /\ k <= n /\ \A i \in 1 .. k : i \in 1 .. n /\ i # k + 1
    BY <1>1
  <2>2. f[k + 1] = Continued(f[k], ConvertToSampFormat(items[k + 1]))
    BY <1>9, <2>1
  <2>3. PICK s \in f[k], lines \in ConvertToSampFormat(items[k + 1]) : t = s \o lines
    <3>1. t \in Continued(f[k], ConvertToSampFormat(items[k + 1]))
      BY <2>2, Zenon
    <3> DEFINE texts == f[k]
               others == ConvertToSampFormat(items[k + 1])
    <3>2. t \in Continued(texts, others)
      BY <3>1
    <3> HIDE DEF texts, others
    <3>3. PICK s \in texts, lines \in others : t = s \o lines
      BY <3>2 DEF Continued
    <3> QED
      BY <3>3, Zenon DEF texts, others
  <2>4. Describes(s, items, k, input.kind, flags)
    BY <1>11, <2>1
  <2>5. MadeAs(lines, items[k + 1], input.kind, flags)
    BY <1>2, <2>1
  <2>6. \A i \in 1 .. k : items[i].name # items[k + 1].name
    BY <2>1 DEF n
  <2>7. Describes(s \o lines, items, k + 1, input.kind, flags)
    BY <2>4, <2>5, <2>6, OneItemMore
  <2> QED
    BY <2>3, <2>7
<1> HIDE DEF T
<1>12. n \in T
  BY <1>1, <1>10, <1>11, Upwards
<1> QED
  BY <1>1, <1>8, <1>12 DEF T, n

-----------------------------------------------------------------------------
\* The lines of one element in the output, by their commands.
LEMMA LinesOfElement ==
  ASSUME NEW off, NEW lines, NEW e, NEW kind, NEW boxes, WrittenAt(output, off, lines, e, kind, boxes),
         output \in Seq(ToSet(output)), NEW cmds
  PROVE  LinesOf(e.name, cmds) = {off + x : x \in {y \in 1 .. Len(lines) : lines[y].cmd \in cmds}}
<1> DEFINE c == Len(lines)
           n == Len(output)
           Q == {off + x : x \in {y \in 1 .. c : lines[y].cmd \in cmds}}
           P == LinesOf(e.name, cmds)
<1>1. c \in Nat /\ n \in Nat /\ DOMAIN output = 1 .. n
  BY LenProperties DEF WrittenAt, MadeAs
<1>2. /\ off \in Nat /\ off + c <= n
      /\ \A x \in 1 .. c : output[off + x] = lines[x] /\ lines[x].of = e.name
      /\ \A x \in 1 .. n : output[x].of = e.name => x - off \in 1 .. c
  BY DEF WrittenAt, MadeAs
<1>3. P = {k \in 1 .. n : output[k].of = e.name /\ output[k].cmd \in cmds}
  BY <1>1 DEF LinesOf
<1> HIDE DEF c, n, P
<1>4. ASSUME NEW k \in P PROVE k \in Q
  <2>1. k \in 1 .. n /\ output[k].of = e.name /\ output[k].cmd \in cmds
    BY <1>3
  <2>2. PICK x \in 1 .. c : x = k - off
    BY <1>2, <2>1
  <2>3. k = off + x
    BY <1>2, <2>1, <2>2
  <2>4. lines[x].cmd \in cmds
    BY <1>2, <2>1, <2>3
  <2> QED
    BY <2>3, <2>4
<1>5. ASSUME NEW k \in Q PROVE k \in P
  <2>1. PICK x \in 1 .. c : k = off + x /\ lines[x].cmd \in cmds
    OBVIOUS
  <2>2. off + x \in 1 .. n
    BY <1>1, <1>2
  <2> QED
    BY <1>2, <1>3, <2>1, <2>2
<1> HIDE DEF Q
<1>6. P = Q
  BY <1>4, <1>5
<1> QED
  BY <1>6 DEF P, Q, c

\* The elements of a map that the script has to make, and their items.
LEMMA CreatedAreItems ==
  ASSUME NEW map, IsMap(map)
  PROVE  /\ \A i \in Supported(map) : \E k \in 1 .. Len(Items(map)) : Items(map)[k] = map.elements[i]
         /\ \A i, j \in 1 .. Len(Items(map)) : Items(map)[i].name = Items(map)[j].name => i = j
<1>1. PICK from : ComesFrom(from, Items(map), map, 6)
  BY ItemsComeFrom
<1>2. /\ from \in Seq(Nat) /\ Len(Items(map)) = Len(from)
      /\ \A i \in 1 .. Len(from) :
           Items(map)[i] = map.elements[from[i]] /\ \E u \in 1 .. 6 : from[i] \in OfType(map, ItemType[u])
      /\ \A i, j \in 1 .. Len(from) : from[i] = from[j] => i = j
      /\ \A u \in 1 .. 6 : \A p \in OfType(map, ItemType[u]) : \E i \in 1 .. Len(from) : from[i] = p
  BY <1>1 DEF ComesFrom
<1>3. ASSUME NEW i \in Supported(map)
      PROVE  \E k \in 1 .. Len(Items(map)) : Items(map)[k] = map.elements[i]
  <2>1. map.elements[i].tag \in DOMAIN TypesOf(map.kind)
    BY DEF Supported
  <2>2. PICK u \in 1 .. 6 : TypesOf(map.kind)[map.elements[i].tag] = ItemType[u]
    BY <2>1, SixTypes
  <2>3. i \in OfType(map, ItemType[u])
    BY <2>2 DEF OfType
  <2>4. PICK k \in 1 .. Len(from) : from[k] = i
    BY <1>2, <2>3
  <2> QED
    BY <1>2, <2>4
<1>4. ASSUME NEW i \in 1 .. Len(Items(map)), NEW j \in 1 .. Len(Items(map)),
             Items(map)[i].name = Items(map)[j].name
      PROVE  i = j
  <2>1. i \in 1 .. Len(from) /\ j \in 1 .. Len(from)
    BY <1>2
  <2>2. from[i] \in DOMAIN map.elements /\ from[j] \in DOMAIN map.elements
    BY <1>2, <2>1 DEF OfType, Supported
  <2>3. map.elements[from[i]].name = map.elements[from[j]].name
    BY <1>2, <1>4, <2>1
  <2>4. from[i] = from[j]
    BY <2>2, <2>3 DEF IsMap
  <2> QED
    BY <1>2, <2>1, <2>4
<1> QED
  BY <1>3, <1>4

\* A text that describes its map has what ScriptIsOfTheMap asks for.
LEMMA DescribedIsOfTheMap ==
  ASSUME IsMap(source), Describes(output, Items(source), Len(Items(source)), source.kind, chosen)
  PROVE  ScriptIsOfTheMap
<1> DEFINE items == Items(source)
           created == {source.elements[i] : i \in Supported(source)}
           Type(e) == TypesOf(source.kind)[e.tag]
           temp == "tempvehid=CreateVehicle"
<1>1. /\ output \in Seq(ToSet(output)) /\ DOMAIN output = 1 .. Len(output) /\ Len(output) \in Nat
      /\ \A x \in 1 .. Len(output) : \E i \in 1 .. Len(items) : output[x].of = items[i].name
      /\ \A i \in 1 .. Len(items) : \E off, lines : WrittenAt(output, off, lines, items[i], source.kind, chosen)
  BY LenProperties DEF Describes
<1>2. \A e \in created : \E off, lines : WrittenAt(output, off, lines, e, source.kind, chosen)
  <2> SUFFICES ASSUME NEW p \in Supported(source)
               PROVE  \E off, lines : WrittenAt(output, off, lines, source.elements[p], source.kind, chosen)
    OBVIOUS
  <2>1. PICK i \in 1 .. Len(items) : items[i] = source.elements[p]
    BY CreatedAreItems
  <2> HIDE DEF items
  <2> QED
    BY <1>1, <2>1
<1> HIDE DEF items, created
<1>3. ASSUME NEW e \in created
      PROVE  IF Type(e) = "REMOVE_OBJECT"
             THEN Cardinality(LinesOf(e.name, {"RemoveBuildingForPlayer"})) = IF e.lod_model = 0 THEN 1 ELSE 2
             ELSE Cardinality(LinesOf(e.name, Makes)) = 1
  <2>1. PICK off, lines : WrittenAt(output, off, lines, e, source.kind, chosen)
    BY <1>2
  <2>2. MadeAs(lines, e, source.kind, chosen) /\ off \in Nat
    BY <2>1 DEF WrittenAt
  <2>3. \A cmds : LinesOf(e.name, cmds) = {off + x : x \in {y \in 1 .. Len(lines) : lines[y].cmd \in cmds}}
    BY <1>1, <2>1, LinesOfElement
  <2>4. CASE Type(e) = "REMOVE_OBJECT"
    <3> DEFINE c == Len(lines)
    <3>1. /\ c = IF e.lod_model = 0 THEN 1 ELSE 2
          /\ \A x \in 1 .. c : lines[x].cmd = "RemoveBuildingForPlayer"
      BY <2>2, <2>4 DEF MadeAs
    <3>2. LinesOf(e.name, {"RemoveBuildingForPlayer"})
            = {off + x : x \in {y \in 1 .. c : lines[y].cmd \in {"RemoveBuildingForPlayer"}}}
      BY <2>3
    <3> HIDE DEF c
    <3>3. {y \in 1 .. c : lines[y].cmd \in {"RemoveBuildingForPlayer"}} = 1 .. c
      BY <3>1
    <3>4. LinesOf(e.name, {"RemoveBuildingForPlayer"}) = off + 1 .. off + c
      <4>1. {off + x : x \in 1 .. c} = off + 1 .. off + c
        <5>1. \A k \in off + 1 .. off + c : k - off \in 1 .. c /\ k = off + (k - off)
          BY <2>2, <3>1
        <5>2. \A x \in 1 .. c : off + x \in off + 1 .. off + c
          BY <2>2, <3>1
        <5> QED
          BY <5>1, <5>2
      <4> QED
        BY <3>2, <3>3, <4>1
    <3>5. Cardinality(off + 1 .. off + c) = c
      <4>1. off + 1 \in Int /\ off + c \in Int
        BY <2>2, <3>1
      <4>2. Cardinality(off + 1 .. off + c) = IF off + 1 > off + c THEN 0 ELSE (off + c) - (off + 1) + 1
        BY <4>1, FS_Interval
      <4> QED
        BY <2>2, <3>1, <4>2
    <3> QED
      BY <2>4, <3>1, <3>4, <3>5
  <2>5. CASE Type(e) # "REMOVE_OBJECT"
    <3> DEFINE c == Len(lines)
    <3>1. /\ c \in Nat /\ c >= 1 /\ lines[1].cmd \in Makes
          /\ \A x \in 2 .. c : lines[x].cmd \in Links
      BY <2>2, <2>5, LenProperties DEF MadeAs
    <3>2. LinesOf(e.name, Makes) = {off + x : x \in {y \in 1 .. c : lines[y].cmd \in Makes}}
      BY <2>3
    <3> HIDE DEF c
    <3>3. \A x \in 1 .. c : x = 1 \/ x \in 2 .. c
      BY <3>1
    <3>4. \A x \in 1 .. c : lines[x].cmd \in Makes => x = 1
      BY <3>1, <3>3, Commands
    <3>5. 1 \in 1 .. c
      BY <3>1
    <3>6. {y \in 1 .. c : lines[y].cmd \in Makes} = {1}
      BY <3>1, <3>4, <3>5
    <3>7. LinesOf(e.name, Makes) = {off + 1}
      BY <3>2, <3>6
    <3> QED
      BY <2>5, <3>7, FS_Singleton
  <2> QED
    BY <2>4, <2>5
<1>4. ASSUME NEW e \in created, Type(e) = "VEHICLE" /\ "ONLY_CREATE_VEHICLE" \notin chosen
      PROVE  /\ (e.interior # 0) = (LinesOf(e.name, {"LinkVehicleToInterior"}) # {})
             /\ (e.world # 0) = (LinesOf(e.name, {"SetVehicleVirtualWorld"}) # {})
  <2>1. PICK off, lines : WrittenAt(output, off, lines, e, source.kind, chosen)
    BY <1>2
  <2>2. \A cmds : LinesOf(e.name, cmds) = {off + x : x \in {y \in 1 .. Len(lines) : lines[y].cmd \in cmds}}
    BY <1>1, <2>1, LinesOfElement
  <2>3. \A cmd : LinesOf(e.name, {cmd}) # {} <=> \E x \in 1 .. Len(lines) : lines[x].cmd = cmd
    <3> SUFFICES ASSUME NEW cmd
                 PROVE  LinesOf(e.name, {cmd}) # {} <=> \E x \in 1 .. Len(lines) : lines[x].cmd = cmd
      OBVIOUS
    <3> DEFINE xs == {y \in 1 .. Len(lines) : lines[y].cmd \in {cmd}}
    <3>1. LinesOf(e.name, {cmd}) = {off + x : x \in xs}
      BY <2>2
    <3>2. xs # {} <=> \E x \in 1 .. Len(lines) : lines[x].cmd = cmd
      OBVIOUS
    <3> HIDE DEF xs
    <3>3. {off + x : x \in xs} # {} <=> xs # {}
      OBVIOUS
    <3> QED
      BY <3>1, <3>2, <3>3
  <2>4. /\ e.interior # 0 <=> \E x \in 1 .. Len(lines) : lines[x].cmd = "LinkVehicleToInterior"
        /\ e.world # 0 <=> \E x \in 1 .. Len(lines) : lines[x].cmd = "SetVehicleVirtualWorld"
    BY <1>4, <2>1 DEF WrittenAt, MadeAs
  <2> QED
    BY <2>3, <2>4, Zenon
<1>5. ASSUME NEW k \in DOMAIN output, output[k].cmd \in Links
      PROVE  \E j \in 1 .. k - 1 :
               /\ output[j].cmd = temp /\ output[j].of = output[k].of
               /\ \A i \in j + 1 .. k - 1 : output[i].cmd # temp
  <2> DEFINE n == Len(output)
  <2>1. k \in 1 .. n /\ n \in Nat
    BY <1>1
  <2>2. PICK i \in 1 .. Len(items) : output[k].of = items[i].name
    BY <1>1, <2>1
  <2> DEFINE e == items[i]
  <2>3. PICK off, lines : WrittenAt(output, off, lines, e, source.kind, chosen)
    BY <1>1
  <2> DEFINE c == Len(lines)
  <2>4. /\ MadeAs(lines, e, source.kind, chosen)
        /\ off \in Nat /\ off + c <= n
        /\ \A x \in 1 .. c : output[off + x] = lines[x]
        /\ k - off \in 1 .. c
    BY <2>1, <2>2, <2>3 DEF WrittenAt
  <2>5. c \in Nat /\ c >= 1 /\ \A x \in 1 .. c : lines[x].of = e.name
    BY <2>4, LenProperties DEF MadeAs
  <2> HIDE DEF c, n
  <2>6. PICK x \in 1 .. c : x = k - off
    BY <2>4
  <2>7. k = off + x
    BY <2>1, <2>4, <2>6
  <2>8. lines[x].cmd \in Links
    BY <1>5, <2>4, <2>7
  <2>9. Type(e) # "REMOVE_OBJECT"
    BY <2>4, <2>8, Commands DEF MadeAs, c
  <2>10. /\ lines[1].cmd \in Makes
         /\ \A y \in 2 .. c : lines[y].cmd \in Links /\ lines[1].cmd = temp
    BY <2>4, <2>9 DEF MadeAs, c
  <2>11. x # 1
    BY <2>8, <2>10, Commands
  <2>12. x \in 2 .. c /\ 1 \in 1 .. c
    BY <2>5, <2>11
  <2>13. output[off + 1].cmd = temp /\ output[off + 1].of = e.name
    BY <2>4, <2>5, <2>10, <2>12
  <2>14. off + 1 \in 1 .. k - 1
    BY <2>4, <2>5, <2>7, <2>12
  <2>15. ASSUME NEW y \in (off + 1) + 1 .. k - 1 PROVE output[y].cmd # temp
    <3>1. y - off \in 2 .. c /\ y - off \in 1 .. c /\ off + (y - off) = y
      BY <2>4, <2>5, <2>7
    <3>2. PICK z \in 2 .. c : z = y - off /\ z \in 1 .. c /\ off + z = y
      BY <3>1
    <3>3. output[y] = lines[z] /\ lines[z].cmd \in Links
      BY <2>4, <2>10, <3>2
    <3> QED
      BY <3>3, Commands
  <2>16. output[off + 1].of = output[k].of
    BY <2>2, <2>13
  <2> QED
    BY <2>13, <2>14, <2>15, <2>16
<1> QED
  BY <1>3, <1>4, <1>5, Zenon DEF ScriptIsOfTheMap, created

\* The output is the script of its map, or there was none yet.
ScriptInv ==
  /\ input \in Maps
  /\ \/ output = <<>> /\ source = EmptyMap
     \/ IsMap(source) /\ Describes(output, Items(source), Len(Items(source)), source.kind, chosen)

\* It always is.
LEMMA ScriptInvHolds == ConvSpec => []ScriptInv
<1>1. ConvInit => ScriptInv
  BY DEF ConvInit, ScriptInv
<1>2. ScriptInv /\ [ConvNext]_convVars => ScriptInv'
  <2> SUFFICES ASSUME ScriptInv, [ConvNext]_convVars PROVE ScriptInv'
    OBVIOUS
  <2>1. CASE EditInput
    BY <2>1 DEF EditInput, ScriptInv
  <2>2. CASE CheckBox
    BY <2>2 DEF CheckBox, ScriptInv
  <2>3. CASE ClickConvert
    <3>1. input' = input /\ input \in Maps
      BY <2>3 DEF ClickConvert, ScriptInv
    <3>2. PICK out \in MtaToSamp :
            IF out # <<>> THEN output' = out /\ source' = input /\ chosen' = flags
                          ELSE UNCHANGED <<output, source, chosen>>
      BY <2>3 DEF ClickConvert
    <3>3. CASE out = <<>>
      BY <3>1, <3>2, <3>3 DEF ScriptInv
    <3>4. CASE out # <<>>
      <4>1. IsMap(input)
        BY <3>1, MapAssumption DEF IsMap
      <4>2. out \in Scripts(Items(input))
        BY <3>4 DEF MtaToSamp
      <4>3. Items(input) \in Seq(ToSet(input.elements))
        BY <4>1, ItemsComeFrom
      <4>4. \A i, j \in 1 .. Len(Items(input)) : Items(input)[i].name = Items(input)[j].name => i = j
        BY <4>1, CreatedAreItems
      <4>5. Describes(out, Items(input), Len(Items(input)), input.kind, flags)
        BY <4>2, <4>3, <4>4, ScriptDescribes
      <4>6. output' = out /\ source' = input /\ chosen' = flags
        BY <3>2, <3>4
      <4> QED
        BY <3>1, <4>1, <4>5, <4>6 DEF ScriptInv
    <3> QED
      BY <3>3, <3>4
  <2>4. CASE UNCHANGED convVars
    BY <2>4 DEF convVars, ScriptInv
  <2> QED
    BY <2>1, <2>2, <2>3, <2>4 DEF ConvNext
<1> QED
  BY <1>1, <1>2, PTL DEF ConvSpec

\* Of any maps and any palette: the script makes every item of its map once, puts each vehicle
\* where the map has it, and speaks of no vehicle but the last one made.
THEOREM ScriptsMakeTheirMaps == ConvSpec => []ScriptIsOfTheMap
<1>1. ScriptInv => ScriptIsOfTheMap
  <2> SUFFICES ASSUME ScriptInv PROVE ScriptIsOfTheMap
    OBVIOUS
  <2>1. CASE output = <<>> /\ source = EmptyMap
    <3>1. DOMAIN output = {} /\ Supported(source) = {}
      BY <2>1 DEF Supported, EmptyMap
    <3> QED
      BY <3>1, Zenon DEF ScriptIsOfTheMap
  <2>2. CASE IsMap(source) /\ Describes(output, Items(source), Len(Items(source)), source.kind, chosen)
    BY <2>2, DescribedIsOfTheMap
  <2> QED
    BY <2>1, <2>2 DEF ScriptInv
<1> QED
  BY <1>1, ScriptInvHolds, PTL
=============================================================================
