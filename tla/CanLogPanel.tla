---------------------------- MODULE CanLogPanel ----------------------------
(***************************************************************************)
(* The recorded frames (CanEntryHandler::m_LogEntries) and the panel that  *)
(* shows them.  The CAN thread records under the mutex m; the timer of the *)
(* panel looks at the vector before it takes m, and keeps an iterator from *)
(* before.  A recorded frame is its number; Comments says which frames     *)
(* have a comment the user may search for.                                 *)
(***************************************************************************)
EXTENDS Naturals, Sequences, SequencesExt, Selections

CONSTANTS MaxRecorded, Commented, MaxClears, MaxSearches

VARIABLES
  recorded,               \* frames counted so far: tx_frame_cnt + rx_frame_cnt
  m_LogEntries, capacity, \* the vector
  is_recoding,
  panel,                  \* place of the timer: "idle", "label", "list", "insert", "undefined"
  it,                     \* index the iterator stands at
  label, last_cnt,
  inserted_until, is_something_inserted,
  rows, search_pattern,
  clears, searches

logPanelVars == <<recorded, m_LogEntries, capacity, is_recoding, panel, it, label, last_cnt,
             inserted_until, is_something_inserted, rows, search_pattern, clears, searches>>

record == <<recorded, m_LogEntries, capacity>>
grid   == <<inserted_until, is_something_inserted, rows>>
user   == <<is_recoding, search_pattern, clears, searches>>

LogPanelInit ==
  /\ recorded = 0 /\ m_LogEntries = <<>> /\ capacity = 1
  /\ is_recoding = FALSE
  /\ panel = "idle" /\ it = 0 /\ label = 0 /\ last_cnt = 0
  /\ inserted_until = 0 /\ is_something_inserted = FALSE /\ rows = <<>>
  /\ search_pattern = FALSE
  /\ clears = 0 /\ searches = 0

-----------------------------------------------------------------------------
(* The CAN thread: OnFrameSent, OnFrameReceived.  A full vector moves; an iterator into it is
   then invalid, and what the loop over it does undefined. *)
Grows == is_recoding /\ Len(m_LogEntries) = capacity

RecordFrame ==
  /\ recorded < MaxRecorded
  /\ recorded' = recorded + 1
  /\ m_LogEntries' = IF is_recoding THEN Append(m_LogEntries, recorded') ELSE m_LogEntries
  /\ capacity' = IF Grows THEN 2 * capacity ELSE capacity
  /\ panel' = IF Grows /\ panel = "insert" THEN "undefined" ELSE panel
  /\ UNCHANGED <<it, label, last_cnt, grid, user>>

(* The buttons and the search field of the panel, between two calls of the timer *)
ToggleRecording ==
  /\ panel = "idle"
  /\ is_recoding' = ~is_recoding
  /\ UNCHANGED <<record, panel, it, label, last_cnt, grid, search_pattern, clears, searches>>

(* ClearRecordingsFromGrid without its resets *)
Stop_Bug ==
  /\ panel = "idle" /\ clears < MaxClears
  /\ clears' = clears + 1
  /\ rows' = <<>>
  /\ m_LogEntries' = <<>>
  /\ UNCHANGED <<recorded, capacity, panel, it, label, last_cnt, inserted_until,
                 is_something_inserted, is_recoding, search_pattern, searches>>

(* ClearRecordingsFromGrid and ClearRecording *)
Stop ==
  /\ panel = "idle" /\ clears < MaxClears
  /\ clears' = clears + 1
  /\ rows' = <<>> /\ inserted_until' = 0 /\ is_something_inserted' = FALSE
  /\ m_LogEntries' = <<>>
  /\ UNCHANGED <<recorded, capacity, panel, it, label, last_cnt, is_recoding, search_pattern, searches>>

Search ==
  /\ panel = "idle" /\ searches < MaxSearches
  /\ searches' = searches + 1
  /\ search_pattern' = ~search_pattern
  /\ UNCHANGED <<record, panel, it, label, last_cnt, grid, is_recoding, clears>>

-----------------------------------------------------------------------------
(* CanLogPanel::On10MsTimer *)
ShowCount ==
  /\ panel = "idle"
  /\ label' = IF last_cnt # recorded THEN recorded ELSE label
  /\ panel' = "label"
  /\ UNCHANGED <<record, it, last_cnt, grid, user>>

RememberCount ==
  /\ panel = "label"
  /\ last_cnt' = recorded
  /\ panel' = "list"
  /\ UNCHANGED <<record, it, label, grid, user>>

FindFirst ==
  /\ panel = "list"
  /\ IF m_LogEntries = <<>>
     THEN /\ panel' = "idle"
          /\ UNCHANGED <<it, inserted_until>>
     ELSE /\ inserted_until' = IF is_something_inserted THEN inserted_until ELSE 0
          /\ it' = inserted_until'
          /\ panel' = IF inserted_until' < Len(m_LogEntries) THEN "insert" ELSE "idle"
  /\ UNCHANGED <<record, label, last_cnt, is_something_inserted, rows, user>>

InsertRow(n) == ~search_pattern \/ n \in Commented

InsertRows ==
  /\ panel = "insert"
  /\ LET rest == SubSeq(m_LogEntries, it + 1, Len(m_LogEntries))
     IN  rows' = rows \o ElementsAt(rest, {i \in DOMAIN rest : InsertRow(rest[i])})
  /\ inserted_until' = inserted_until + Len(m_LogEntries) - it
  /\ is_something_inserted' = TRUE
  /\ panel' = "idle"
  /\ UNCHANGED <<record, it, label, last_cnt, user>>

Timer == ShowCount \/ RememberCount \/ FindFirst \/ InsertRows
LogPanelNext  == RecordFrame \/ ToggleRecording \/ Stop \/ Search \/ Timer

LogPanelSpec == LogPanelInit /\ [][LogPanelNext]_logPanelVars
-----------------------------------------------------------------------------
(* Every recorded frame gets at most one row, in the order of recording, and none is left out
   but for the search: what has been gone through is a prefix of the record
   (CanLogTab.cpp:122, 179, 221). *)
RowsFollowTheRecord ==
  panel # "undefined" =>
    /\ inserted_until <= Len(m_LogEntries)
    /\ (\A i, j \in DOMAIN rows : i < j => rows[i] < rows[j])
    /\ ToSet(rows) \subseteq ToSet(SubSeq(m_LogEntries, 1, inserted_until))
    /\ searches = 0 => rows = SubSeq(m_LogEntries, 1, inserted_until)
=============================================================================
