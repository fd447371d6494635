----------------------------- MODULE AntiLock -----------------------------
(***************************************************************************)
(* AntiLock: a timer of the program looks at the time of the last input    *)
(* and, when the user was idle for longer than the timeout, simulates      *)
(* some, unless the window in front is excluded by name.  The ticks of     *)
(* Windows wrap around.  The list of exclusions is kept in the settings    *)
(* file, as one text, from one start of the program to the next.           *)
(***************************************************************************)
EXTENDS Integers, Sequences, SequencesExt, Selections

CONSTANTS
  Word,       \* the ticks wrap around at this number
  Timeout,    \* timeout * 1000
  Titles,
  NoWindow,   \* in front is no window, one without a title, or the lock screen
  Bar, Lists, \* '|', and the exclusions a user may write down
  MaxTicks    \* bound

\* No name has a bar in it.
ASSUME AntiLockAssumption ==
  /\ Word \in Nat \ {0} /\ Timeout \in Nat /\ NoWindow \notin Titles
  /\ \A names \in Lists : names \in Seq(ToSet(names)) /\ Bar \notin ToSet(names)

VARIABLES
  ticks,      \* since the start of Windows, unwrapped
  last_input,
  dwTime,     \* what GetLastInputInfo has returned, -1 before
  exclusions, foreground,
  wanted,     \* history: the exclusions as the user wrote them down
  seen_input, \* history: the last input when GetLastInputInfo was called
  processed   \* history: the idle time and window of the last Process, and what it did

idle         == <<last_input, seen_input, dwTime, processed>>
antiLockVars == <<ticks, exclusions, foreground, wanted, idle>>

AntiLockInit ==
  /\ ticks = 0 /\ last_input = 0 /\ dwTime = -1 /\ seen_input = 0
  /\ wanted \in Lists /\ exclusions = wanted
  /\ foreground \in Titles /\ processed = <<>>

(* Windows, and its user *)
TickPasses ==
  /\ ticks < MaxTicks /\ ticks' = ticks + 1
  /\ UNCHANGED <<exclusions, foreground, wanted, idle>>

UserActs ==
  /\ last_input' = ticks
  /\ foreground' \in Titles \cup {NoWindow}
  /\ UNCHANGED <<ticks, exclusions, wanted, seen_input, dwTime, processed>>

(* The settings: a bar behind each name, and the last one taken off. *)
SaveExclusions(names) ==
  LET text == [i \in 1 .. 2 * Len(names) |-> IF i % 2 = 1 THEN names[(i + 1) \div 2] ELSE Bar]
  IN IF text # <<>> /\ Last(text) = Bar THEN Front(text) ELSE text

LoadExclusions(text, names) ==
  IF text = <<>> THEN names ELSE ElementsAt(text, {i \in DOMAIN text : text[i] # Bar})

Restart ==
  /\ dwTime = -1
  /\ exclusions' = LoadExclusions(SaveExclusions(exclusions), <<>>)
  /\ UNCHANGED <<ticks, foreground, wanted, idle>>

(* Process: time passes, and input may come, between its two looks. *)
GetLastInputInfo ==
  /\ dwTime = -1
  /\ dwTime' = last_input % Word /\ seen_input' = last_input
  /\ UNCHANGED <<ticks, exclusions, foreground, wanted, last_input, processed>>

IsAnExclusion(title) == title \in ToSet(exclusions)

(* A plausible bug: the end of the timeout is computed, which may have wrapped around. *)
TimedOut_Bug == ticks % Word > (dwTime + Timeout) % Word
TimedOut     == ((ticks % Word) - dwTime) % Word > Timeout

SimulatesActivity == TimedOut /\ foreground # NoWindow /\ ~IsAnExclusion(foreground)

Process ==
  /\ dwTime # -1
  /\ dwTime' = -1
  /\ last_input' = IF SimulatesActivity THEN ticks ELSE last_input
  /\ processed' = [idle |-> ticks - seen_input, window |-> foreground, acts |-> SimulatesActivity]
  /\ UNCHANGED <<ticks, exclusions, foreground, wanted, seen_input>>

AntiLockNext == TickPasses \/ UserActs \/ Restart \/ GetLastInputInfo \/ Process
AntiLockSpec == AntiLockInit /\ [][AntiLockNext]_antiLockVars
-----------------------------------------------------------------------------
(* Activity is simulated if, and only if, the user was idle for longer than the timeout and has
   not excluded the window in front, also when the ticks wrap around meanwhile, and after any
   number of restarts.  After a whole round of the ticks it may be missed, never simulated too
   early (AntiLock.cpp:8, 24, 157). *)
DisturbsIdleOnly ==
  processed # <<>> =>
    LET due == processed.idle > Timeout /\ processed.window \in Titles \ ToSet(wanted)
    IN (processed.acts => due) /\ (due /\ processed.idle < Word => processed.acts)
=============================================================================
