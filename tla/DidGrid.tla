------------------------------ MODULE DidGrid ------------------------------
(***************************************************************************)
(* The table of the DID tab: one row for each DID.  The worker of          *)
(* DidHandler changes values and says so in m_UpdatedDids; the timer       *)
(* writes what it finds there into the rows that did_to_row names.  (That  *)
(* it may lose what the worker adds meanwhile is the subject of            *)
(* DidHandler; here it is one step.)  UpdateDidList can leave rows out,    *)
(* but nothing ever sets its search_pattern: it fills the table anew.      *)
(*                                                                         *)
(* A value is a number, an NRC a number too; what is shown of either is    *)
(* the number.  Nothing calls UpdateDidList before the timer has run.      *)
(***************************************************************************)
EXTENDS Naturals, Sequences, SequencesExt

CONSTANTS
  DidIds,      \* the keys of m_DidList, in their order
  Cleared,     \* the text of a value that Clear has removed
  MaxChanges   \* bound

ASSUME DidIdsAssumption == DidIds \in Seq(ToSet(DidIds)) /\ IsInjective(DidIds)

VARIABLES
  value,           \* value_str or nrc of each DID
  changed,         \* DIDs the worker has changed and not yet announced
  m_UpdatedDids,
  table,           \* the rows: a DID and the text of its value
  did_to_row,
  is_dids_initialized, crashed, changes_made

didGridVars == <<value, changed, m_UpdatedDids, table, did_to_row,
              is_dids_initialized, crashed, changes_made>>

AllDids == ToSet(DidIds)

(* did_to_row[did] of a DID that was never shown is made anew, with 0. *)
DidGridInit ==
  /\ value = [d \in AllDids |-> 0] /\ changed = {} /\ m_UpdatedDids = <<>>
  /\ table = <<>> /\ did_to_row = [d \in AllDids |-> 0]
  /\ is_dids_initialized = FALSE /\ crashed = FALSE /\ changes_made = 0

(* The worker *)
ChangeValue ==
  /\ changes_made < MaxChanges /\ changes_made' = changes_made + 1
  /\ \E d \in AllDids : value' = [value EXCEPT ![d] = changes_made'] /\ changed' = changed \cup {d}
  /\ UNCHANGED <<m_UpdatedDids, table, did_to_row, is_dids_initialized, crashed>>

Announce ==
  /\ \E d \in changed : m_UpdatedDids' = Append(m_UpdatedDids, d) /\ changed' = changed \ {d}
  /\ UNCHANGED <<value, table, did_to_row, is_dids_initialized, crashed, changes_made>>

-----------------------------------------------------------------------------
(* The GUI: AddRow for each DID of a list.  The table and did_to_row keep what was in them. *)
AddRows(rows, dids) == rows \o [k \in DOMAIN dids |-> [did |-> dids[k], text |-> value[dids[k]]]]

(* A plausible bug: the number of rows is taken after the row was inserted. *)
NumRow_Bug(rows, k) == Len(rows) + k
NumRow(rows, k)     == Len(rows) + k - 1

RowNumbers(rows, dids) ==
  [d \in AllDids |-> IF d \in ToSet(dids) THEN NumRow(rows, CHOOSE k \in DOMAIN dids : dids[k] = d)
                                         ELSE did_to_row[d]]

UpdateDidList ==
  /\ is_dids_initialized /\ ~crashed
  /\ table' = AddRows(<<>>, DidIds) /\ did_to_row' = RowNumbers(<<>>, DidIds)
  /\ m_UpdatedDids' = DidIds
  /\ UNCHANGED <<value, changed, is_dids_initialized, crashed, changes_made>>

ClearDids ==
  /\ ~crashed
  /\ table' = [i \in DOMAIN table |-> [table[i] EXCEPT !.text = Cleared]]
  /\ UNCHANGED <<value, changed, m_UpdatedDids, did_to_row, is_dids_initialized,
                 crashed, changes_made>>

(* What a row shows is the last value that was written into it. *)
Written(rows, row_of) ==
  LET into(r) == {i \in DOMAIN m_UpdatedDids : row_of[m_UpdatedDids[i]] + 1 = r}
  IN [r \in DOMAIN rows |->
        IF into(r) = {} THEN rows[r]
        ELSE [rows[r] EXCEPT !.text = value[m_UpdatedDids[Max(into(r))]]]]

(* An item of a row that is not there is a null pointer. *)
On100msTimer ==
  /\ ~crashed
  /\ LET added  == IF is_dids_initialized THEN <<>> ELSE DidIds
         rows   == AddRows(table, added)
         row_of == RowNumbers(table, added)
     IN /\ did_to_row' = row_of
        /\ crashed' = \E i \in DOMAIN m_UpdatedDids : row_of[m_UpdatedDids[i]] >= Len(rows)
        /\ table' = Written(rows, row_of)
  /\ is_dids_initialized' = TRUE /\ m_UpdatedDids' = <<>>
  /\ UNCHANGED <<value, changed, changes_made>>

DidGridNext == ChangeValue \/ Announce \/ UpdateDidList \/ ClearDids \/ On100msTimer
DidGridSpec == DidGridInit /\ [][DidGridNext]_didGridVars
-----------------------------------------------------------------------------
(* Each DID has its row, did_to_row finds it, also after the table was filled anew, and its text
   is the value of this DID, unless the user has cleared it or its change is still to be
   announced or shown (DidTab.cpp:97, 189, 239). *)
RowsShowTheirDids ==
  is_dids_initialized =>
    /\ ~crashed /\ Len(table) = Len(DidIds)
    /\ \A d \in AllDids :
         LET row == table[did_to_row[d] + 1]
         IN row.did = d /\ (row.text \in {value[d], Cleared} \/ d \in changed \cup ToSet(m_UpdatedDids))
=============================================================================
