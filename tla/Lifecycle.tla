----------------------------- MODULE Lifecycle -----------------------------
(***************************************************************************)
(* ApplicationBase and CSingleton: the order in which the program starts   *)
(* and destroys its parts, some of them singletons that Get() makes anew   *)
(* whenever they are asked for.  A part with a thread ends it in its       *)
(* destructor; until then the thread may ask for the parts it uses.        *)
(***************************************************************************)
EXTENDS Naturals, Sequences, FiniteSets, SequencesExt

CONSTANTS
  InitOrder, DestroyOrder,   \* sequences of parts
  Singletons,                \* the other parts are owned by the application
  Threaded,                  \* parts whose Init starts a thread
  Uses,                      \* pairs: the thread of the first asks for the second
  MaxGets                    \* bound

\* Every thread that is started is destroyed, the users of a part the application owns before that
\* part, and the last part once, as the comments of ~ApplicationBase ask.
ASSUME OrderAssumption ==
  /\ \A u \in Uses : u = <<u[1], u[2]>>
  /\ InitOrder \in Seq(ToSet(InitOrder))
  /\ DestroyOrder \in Seq(ToSet(DestroyOrder)) /\ DestroyOrder # <<>>
  /\ ToSet(InitOrder) \cap Threaded \subseteq ToSet(DestroyOrder)
  /\ \A i, j \in DOMAIN DestroyOrder : i < j =>
       /\ DestroyOrder[i] \in Singletons \/ <<DestroyOrder[j], DestroyOrder[i]>> \notin Uses
       /\ DestroyOrder[i] # Last(DestroyOrder)

VARIABLES
  exists, running,   \* the parts, and those of them with a thread
  phase, at,         \* what the main thread is doing, and at which part
  using,             \* pairs: the thread is in a call of the part
  gone,              \* history: pairs whose part was deleted during the call
  gets

lifeVars == <<exists, running, phase, at, using, gone, gets>>

LifeInit ==
  /\ exists = {} /\ running = {} /\ using = {} /\ gone = {}
  /\ phase = "init" /\ at = 1 /\ gets = 0

(* A plausible bug: Get starts what it creates. *)
Get_Bug(part) ==
  /\ exists' = exists \cup {part}
  /\ running' = running \cup (Threaded \cap ({part} \ exists))
Get(part) == exists' = exists \cup {part} /\ UNCHANGED running

(* Init *)
InitPart ==
  /\ phase = "init" /\ at <= Len(InitOrder)
  /\ at' = at + 1
  /\ exists' = exists \cup {InitOrder[at]}
  /\ running' = running \cup ({InitOrder[at]} \cap Threaded)
  /\ UNCHANGED <<phase, using, gone, gets>>

BeginDestruction ==
  /\ phase = "init" /\ at > Len(InitOrder)
  /\ phase' = "next" /\ at' = 1
  /\ UNCHANGED <<exists, running, using, gone, gets>>

(* ~ApplicationBase *)
Part == DestroyOrder[at]

SkipAbsent ==
  /\ phase = "next" /\ at <= Len(DestroyOrder) /\ Part \notin exists
  /\ at' = at + 1
  /\ UNCHANGED <<exists, running, phase, using, gone, gets>>

BeginDelete ==
  /\ phase = "next" /\ at <= Len(DestroyOrder) /\ Part \in exists
  /\ phase' = "join"
  /\ UNCHANGED <<exists, running, at, using, gone, gets>>

ThreadEnds ==
  /\ phase = "join" /\ Part \in running
  /\ \A part \in exists : <<Part, part>> \notin using
  /\ running' = running \ {Part}
  /\ UNCHANGED <<exists, phase, at, using, gone, gets>>

EndDelete ==
  /\ phase = "join" /\ Part \notin running
  /\ exists' = exists \ {Part}
  /\ gone' = gone \cup {u \in using : u[2] = Part}
  /\ using' = {u \in using : u[2] # Part}
  /\ phase' = "next" /\ at' = at + 1
  /\ UNCHANGED <<running, gets>>

(* The threads: parts that are not singletons are reached by pointer. *)
BeginCall ==
  /\ gets < MaxGets /\ gets' = gets + 1
  /\ \E u \in Uses \ using :
       /\ u[1] \in running
       /\ IF u[2] \in Singletons THEN Get(u[2])
          ELSE u[2] \in exists /\ UNCHANGED <<exists, running>>
       /\ using' = using \cup {u}
  /\ UNCHANGED <<phase, at, gone>>

EndCall ==
  /\ \E u \in using : using' = using \ {u}
  /\ UNCHANGED <<exists, running, phase, at, gone, gets>>

LifeNext ==
  \/ InitPart \/ BeginDestruction \/ SkipAbsent \/ BeginDelete \/ ThreadEnds \/ EndDelete
  \/ BeginCall \/ EndCall
LifeSpec == LifeInit /\ [][LifeNext]_lifeVars
-----------------------------------------------------------------------------
(* When ~ApplicationBase returns no thread of its parts runs, although threads that were still
   running have made parts anew after their destruction; and neither the log nor the CAN entries
   were deleted during a call of one of them, as its comments ask
   (ApplicationBase.cpp:10, 12, 16, CSingleton.hpp:18). *)
Ended == phase = "next" /\ at > Len(DestroyOrder)
NothingRunsOn ==
  /\ Ended => running = {}
  /\ \A u \in gone : u[2] \in Singletons \ {Last(DestroyOrder)}
=============================================================================
