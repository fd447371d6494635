------------------------------ MODULE LogFile ------------------------------
(***************************************************************************)
(* Logger: every thread may log.  A message gets its time before the mutex *)
(* and is then, under it, written to the file and put where the timer of   *)
(* the log tab takes it from.  The tab can be cleared, and filled from the *)
(* file by a search, which reads line after line without the mutex.        *)
(*                                                                         *)
(* Messages[i] is the i-th message by its time: the source file it comes   *)
(* from, its level, the words a search finds in it, and whether its line   *)
(* has the form the search expects.                                        *)
(***************************************************************************)
EXTENDS Naturals, Sequences, FiniteSets, SequencesExt, Selections

CONSTANTS Messages, Threads, m_LogFilters, Filters, NoFilter, LogLevels, All,
          MaxSearches, MaxClears

VARIABLES
  stamped,          \* messages with a time whose thread waits for the mutex
  stamps,           \* how many have a time
  fLog,             \* the file
  preinit_entries,
  m_LogModel,       \* the lines of the tab
  search,           \* <<>>, or the filter and level of the search that runs
  lines_read,
  dismissed,        \* history: messages the user has cleared, or a search has left out
  searches, clears

logVars == <<stamped, stamps, fLog, preinit_entries, m_LogModel, search, lines_read,
             dismissed, searches, clears>>
logged == <<stamped, stamps, fLog>>

LogInit ==
  /\ stamped = {} /\ stamps = 0
  /\ fLog = <<>> /\ preinit_entries = <<>> /\ m_LogModel = <<>>
  /\ search = <<>> /\ lines_read = 0
  /\ dismissed = {} /\ searches = 0 /\ clears = 0

(* LogInternal, up to the lock and from there on *)
TakeTime ==
  /\ stamps < Len(Messages) /\ Cardinality(stamped) < Threads
  /\ stamps' = stamps + 1
  /\ stamped' = stamped \cup {stamps'}
  /\ UNCHANGED <<fLog, preinit_entries, m_LogModel, search, lines_read, dismissed, searches, clears>>

Write ==
  /\ \E i \in stamped :
       /\ stamped' = stamped \ {i}
       /\ fLog' = Append(fLog, i)
       /\ preinit_entries' = Append(preinit_entries, i)
  /\ UNCHANGED <<stamps, m_LogModel, search, lines_read, dismissed, searches, clears>>

IsFiltered(i) == Messages[i].file \in m_LogFilters

(* The GUI thread: the timer, Clear, and the search, which it does not leave before its end *)
Update ==
  /\ search = <<>> /\ preinit_entries # <<>>
  /\ LET shown == {k \in DOMAIN preinit_entries : ~IsFiltered(preinit_entries[k])}
     IN  m_LogModel' = m_LogModel \o ElementsAt(preinit_entries, shown)
  /\ preinit_entries' = <<>>
  /\ UNCHANGED <<logged, search, lines_read, dismissed, searches, clears>>

ClearEntries ==
  /\ search = <<>> /\ clears < MaxClears
  /\ clears' = clears + 1
  /\ m_LogModel' = <<>>
  /\ dismissed' = dismissed \cup ToSet(m_LogModel)
  /\ UNCHANGED <<logged, preinit_entries, search, lines_read, searches>>

Matches(i, filter, level) ==
  /\ Messages[i].parsed
  /\ filter = NoFilter \/ filter \in Messages[i].words
  /\ level = All \/ Messages[i].level = level

BeginSearch ==
  /\ search = <<>> /\ searches < MaxSearches
  /\ searches' = searches + 1
  /\ \E filter \in Filters, level \in LogLevels :
       /\ search' = <<filter, level>>
       /\ dismissed' = {i \in dismissed \cup ToSet(m_LogModel) : ~Matches(i, filter, level)}
  /\ m_LogModel' = <<>> /\ lines_read' = 0
  /\ UNCHANGED <<logged, preinit_entries, clears>>

SearchLine ==
  /\ search # <<>> /\ lines_read < Len(fLog)
  /\ lines_read' = lines_read + 1
  /\ m_LogModel' = LET i == fLog[lines_read']
                   IN IF Matches(i, search[1], search[2]) /\ ~IsFiltered(i)
                      THEN Append(m_LogModel, i) ELSE m_LogModel
  /\ UNCHANGED <<logged, preinit_entries, search, dismissed, searches, clears>>

(* A plausible bug: the search takes what waits for the timer for read. *)
EndSearch_Bug ==
  /\ search # <<>> /\ lines_read = Len(fLog)
  /\ search' = <<>> /\ preinit_entries' = <<>>
  /\ UNCHANGED <<logged, m_LogModel, lines_read, dismissed, searches, clears>>

(* What waits for the timer stays, and is shown once more if the search has found it. *)
EndSearch ==
  /\ search # <<>> /\ lines_read = Len(fLog)
  /\ search' = <<>>
  /\ UNCHANGED <<logged, preinit_entries, m_LogModel, lines_read, dismissed, searches, clears>>

LogNext ==
  TakeTime \/ Write \/ Update \/ ClearEntries \/ BeginSearch \/ SearchLine \/ EndSearch

LogSpec == LogInit /\ [][LogNext]_logVars
-----------------------------------------------------------------------------
(* No message is missed in the tab, whatever is logged during a search: one that is in the file
   and was not filtered, cleared, or left out by a search, is shown or waits for the timer.  A
   search leaves out what it was not asked for and each line it cannot parse
   (Logger.cpp:32, LoggerTab.cpp:91). *)
NothingIsMissed ==
  search = <<>> =>
    \A i \in ToSet(fLog) :
      IsFiltered(i) \/ i \in dismissed \cup ToSet(m_LogModel) \cup ToSet(preinit_entries)
=============================================================================
