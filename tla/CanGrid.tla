------------------------------ MODULE CanGrid ------------------------------
(***************************************************************************)
(* The two tables of CanTab.  The receive table has a row for each frame   *)
(* that was received: a row remembers the address of its CanRxData, and    *)
(* the timer finds the row of an entry by it.  Addresses may be used again *)
(* after an entry was removed.  The transmit table shows the entries whose *)
(* favourite level is high enough.                                         *)
(***************************************************************************)
EXTENDS Naturals, Sequences, FiniteSets, SequencesExt, Selections

CONSTANTS RxFrames, Addresses, NoAddress, TxEntries, FavouriteLevel, Levels, MaxSent

ASSUME TxEntriesAssumption == TxEntries \in Seq(ToSet(TxEntries))

VARIABLES
  m_rxData,         \* the address of the entry of each frame
  rxRows,           \* the receive table: the frame shown ("none" until UpdateRow) in each row
  rx_grid_to_entry, \* the address of each row
  level,            \* m_DefaultFavouriteLevel
  txRows,           \* the transmit table: which of the entries, and the count shown
  grid_to_entry,    \* row number to entry; rows that are gone are not removed from it
  tx_count          \* how often each entry was sent

gridVars == <<m_rxData, rxRows, rx_grid_to_entry, level, txRows, grid_to_entry, tx_count>>
rx == <<m_rxData, rxRows, rx_grid_to_entry>>
tx == <<level, txRows, grid_to_entry, tx_count>>

Favourites(l) ==
  ElementsAt([k \in 1 .. Len(TxEntries) |-> k],
             {k \in 1 .. Len(TxEntries) : l <= FavouriteLevel[k]})
FreshRows(l)  == [r \in 1 .. Len(Favourites(l)) |-> [entry |-> Favourites(l)[r], count |-> 0]]
NewMap(old, l) ==
  [r \in DOMAIN old \cup 1 .. Len(Favourites(l)) |->
     IF r <= Len(Favourites(l)) THEN Favourites(l)[r] ELSE old[r]]

GridInit ==
  /\ m_rxData = [f \in RxFrames |-> NoAddress]
  /\ rxRows = <<>> /\ rx_grid_to_entry = <<>>
  /\ level \in Levels
  /\ txRows = FreshRows(level) /\ grid_to_entry = NewMap(<<>>, level)
  /\ tx_count = [k \in 1 .. Len(TxEntries) |-> 0]

InUse == {m_rxData[f] : f \in RxFrames}

(* CanEntryHandler::OnFrameReceived: a new entry, at an address nobody uses *)
OnFrameReceived ==
  /\ \E f \in RxFrames, a \in Addresses \ InUse :
       /\ m_rxData[f] = NoAddress
       /\ m_rxData' = [m_rxData EXCEPT ![f] = a]
  /\ UNCHANGED <<rxRows, rx_grid_to_entry, tx>>

RowsOf(f) == {r \in 1 .. Len(rx_grid_to_entry) : rx_grid_to_entry[r] = m_rxData[f]}

(* AddRow of CanGridRx: the id is filled in by the next UpdateRow *)
RowsAdded == SetToSeq({f \in RxFrames : m_rxData[f] # NoAddress /\ RowsOf(f) = {}})

On10MsTimer ==
  /\ rxRows' = [r \in 1 .. Len(rxRows) |->
                  IF \E f \in RxFrames : m_rxData[f] # NoAddress /\ r \in RowsOf(f)
                  THEN CHOOSE f \in RxFrames : m_rxData[f] # NoAddress /\ r \in RowsOf(f)
                  ELSE rxRows[r]]
               \o [r \in 1 .. Len(RowsAdded) |-> "none"]
  /\ rx_grid_to_entry' = rx_grid_to_entry \o [r \in 1 .. Len(RowsAdded) |-> m_rxData[RowsAdded[r]]]
  /\ UNCHANGED <<m_rxData, tx>>

(* A plausible bug: the rows stay. *)
RemoveFrame_Bug ==
  /\ \E r \in 1 .. Len(rxRows) :
       m_rxData' = [f \in RxFrames |-> IF f = rxRows[r] THEN NoAddress ELSE m_rxData[f]]
  /\ UNCHANGED <<rxRows, rx_grid_to_entry, tx>>

(* Remove of the menu, for one selected row: the entry is found by the text of the row, and the
   table is emptied (ClearGrid). *)
RemoveFrame ==
  /\ \E r \in 1 .. Len(rxRows) :
       m_rxData' = [f \in RxFrames |-> IF f = rxRows[r] THEN NoAddress ELSE m_rxData[f]]
  /\ rxRows' = <<>>
  /\ rx_grid_to_entry' = <<>>
  /\ UNCHANGED tx

-----------------------------------------------------------------------------
(* Edit favourites of the header's menu, and RefreshTx *)
RefreshTx ==
  /\ level' \in Levels
  /\ txRows' = FreshRows(level')
  /\ grid_to_entry' = NewMap(grid_to_entry, level')
  /\ UNCHANGED <<rx, tx_count>>

(* A frame is sent: UpdateTxCounter goes through the map, rows that are gone included. *)
UpdateTxCounter ==
  /\ \E k \in 1 .. Len(TxEntries) :
       /\ tx_count[k] < MaxSent
       /\ tx_count' = [tx_count EXCEPT ![k] = @ + 1]
       /\ txRows' = [r \in 1 .. Len(txRows) |->
                       IF TxEntries[grid_to_entry[r]] = TxEntries[k]
                       THEN [txRows[r] EXCEPT !.count = tx_count'[k]] ELSE txRows[r]]
  /\ UNCHANGED <<rx, level, grid_to_entry>>

GridNext == OnFrameReceived \/ On10MsTimer \/ RemoveFrame \/ RefreshTx \/ UpdateTxCounter

GridSpec == GridInit /\ [][GridNext]_gridVars
-----------------------------------------------------------------------------
(* Rows of the receive table point at entries that exist, two never at the same, and a row shows
   the frame of its entry, also after entries were removed and their memory was used again; and
   every row of the transmit table stands for the entry it shows, whatever rows the map has kept
   from before (CanTab.cpp:96, 143, 202, 343, 378). *)
RowsAreOfTheirEntries ==
  /\ \A r \in 1 .. Len(rxRows) :
       /\ rx_grid_to_entry[r] \in InUse
       /\ rxRows[r] # "none" => m_rxData[rxRows[r]] = rx_grid_to_entry[r]
  /\ IsInjective(rx_grid_to_entry)
  /\ \A r \in 1 .. Len(txRows) : grid_to_entry[r] = txRows[r].entry /\ level <= FavouriteLevel[txRows[r].entry]
=============================================================================
