------------------------------- MODULE Coins -------------------------------
(***************************************************************************)
(* CryptoPrice: the timer of the main window shows the prices and, when    *)
(* the period is over, has a std::async read them anew.  The two share     *)
(* atomics and last_update, but no mutex.  A price is the number of the    *)
(* read it comes from; no caller forces an update.                         *)
(***************************************************************************)
EXTENDS Naturals, Sequences

CONSTANTS
  Coin,      \* the four prices, stored one after the other
  Period,    \* crypto_price_update, when it is not 0
  MaxClock    \* bound

VARIABLES
  clock, crypto_price_update, last_update,
  m_api_future,   \* "none", the place of ExecuteApiRead, or "ready"
  price, stored, is_pending,
  timer,          \* where UpdateCoins is
  held, on_panel, \* the prices it has read, and those it shows
  reads           \* history: when each read began

gui      == <<timer, held, on_panel>>
async    == <<m_api_future, price, stored, reads>>
coinVars == <<clock, crypto_price_update, last_update, is_pending, gui, async>>

CoinInit ==
  /\ clock = Period + 1 /\ last_update = 0
  /\ crypto_price_update \in {0, Period}
  /\ m_api_future = "none" /\ stored = {} /\ is_pending = FALSE
  /\ price = [c \in Coin |-> 0] /\ held = price /\ on_panel = price
  /\ timer = "idle" /\ reads = <<>>

ClockTick ==
  /\ clock < MaxClock /\ clock' = clock + 1
  /\ UNCHANGED <<crypto_price_update, last_update, is_pending, gui, async>>

ChangeSetting ==
  /\ crypto_price_update' = Period - crypto_price_update
  /\ UNCHANGED <<clock, last_update, is_pending, gui, async>>

(* UpdateCoins *)
ReadPrices ==
  /\ timer = "idle"
  /\ held' = price /\ timer' = "update"
  /\ UNCHANGED <<clock, crypto_price_update, last_update, is_pending, on_panel, async>>

PeriodIsOver == clock - last_update > crypto_price_update

UpdatePrices ==
  /\ timer = "update"
  /\ IF crypto_price_update = 0
     THEN last_update' = clock /\ timer' = "show"
     ELSE timer' = (IF PeriodIsOver THEN "start" ELSE "show") /\ UNCHANGED last_update
  /\ UNCHANGED <<clock, crypto_price_update, is_pending, held, on_panel, async>>

(* The period may have begun anew since, with the end of the read that is looked at here. *)
StartRead ==
  /\ timer = "start"
  /\ timer' = "show"
  /\ m_api_future' = IF m_api_future \in {"none", "ready"} THEN "begin" ELSE m_api_future
  /\ UNCHANGED <<clock, crypto_price_update, last_update, is_pending, held, on_panel, price, stored, reads>>

ShowPrices ==
  /\ timer = "show"
  /\ timer' = "idle" /\ is_pending' = FALSE
  /\ on_panel' = IF is_pending THEN held ELSE on_panel
  /\ UNCHANGED <<clock, crypto_price_update, last_update, held, async>>

UpdateCoins == ReadPrices \/ UpdatePrices \/ StartRead \/ ShowPrices

(* ExecuteApiRead *)
BeginRead ==
  /\ m_api_future = "begin"
  /\ IF crypto_price_update = 0 THEN m_api_future' = "ready" /\ UNCHANGED reads
                                ELSE m_api_future' = "store" /\ reads' = Append(reads, clock)
  /\ stored' = {}
  /\ UNCHANGED <<clock, crypto_price_update, last_update, is_pending, gui, price>>

(* An answer without an amount leaves its price as it was. *)
ExtractAmount ==
  /\ m_api_future = "store" /\ stored # Coin
  /\ \E c \in Coin \ stored :
       stored' = stored \cup {c} /\ price' \in {price, [price EXCEPT ![c] = Len(reads)]}
  /\ UNCHANGED <<clock, crypto_price_update, last_update, is_pending, gui, m_api_future, reads>>

Announce ==
  /\ m_api_future = "store" /\ stored = Coin
  /\ is_pending' = TRUE /\ m_api_future' = "end"
  /\ UNCHANGED <<clock, crypto_price_update, last_update, gui, price, stored, reads>>

(* No curl, or not four answers *)
PriceReadFails ==
  /\ m_api_future = "store" /\ stored = {}
  /\ m_api_future' = "end"
  /\ UNCHANGED <<clock, crypto_price_update, last_update, is_pending, gui, price, stored, reads>>

(* A plausible bug: only a read that was announced begins the period anew. *)
EndRead_Bug ==
  /\ m_api_future = "end"
  /\ m_api_future' = "ready"
  /\ last_update' = IF stored = Coin THEN clock ELSE last_update
  /\ UNCHANGED <<clock, crypto_price_update, is_pending, gui, price, stored, reads>>

EndRead ==
  /\ m_api_future = "end"
  /\ m_api_future' = "ready" /\ last_update' = clock
  /\ UNCHANGED <<clock, crypto_price_update, is_pending, gui, price, stored, reads>>

ExecuteApiRead == BeginRead \/ ExtractAmount \/ Announce \/ PriceReadFails \/ EndRead

CoinNext == ClockTick \/ ChangeSetting \/ UpdateCoins \/ ExecuteApiRead
CoinSpec == CoinInit /\ [][CoinNext]_coinVars
-----------------------------------------------------------------------------
(* The web is asked at the pace that is set, also when reads fail and when the setting is
   switched off and on: a read whose end comes between the two looks of UpdatePrices may be
   followed by another at once, but there are never three within a period (CryptoPrice.cpp:73). *)
ReadsArePaced ==
  \A i \in DOMAIN reads : i + 2 \in DOMAIN reads => reads[i + 2] - reads[i] > Period
=============================================================================
