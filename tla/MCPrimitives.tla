---------------------------- MODULE MCPrimitives ----------------------------
(***************************************************************************)
(* A mutex_t on its own or as the lock inside a recursive lock or a        *)
(* read-write lock, an event, or a thread that others suspend.  The object *)
(* is chosen in the initial state; the state of the others does not change.*)
(***************************************************************************)
EXTENDS RecursiveLock, RwLock, Event, Suspend

VARIABLE object

BenchInit ==
  /\ Init /\ RecInit /\ RwInit /\ EvInit /\ SusInit
  /\ object \in {"mutex", "recursive", "rwlock", "event", "suspend"}
  /\ broadcast => object = "event"

BenchNext ==
  /\ \/ object = "mutex" /\ Next /\ UNCHANGED <<recvars, rwvars, evvars, phase, susvars>>
     \/ object = "recursive" /\ RecNext /\ UNCHANGED <<rwvars, evvars, phase, susvars>>
     \/ object = "rwlock" /\ RwNext /\ UNCHANGED <<recvars, evvars, phase, susvars>>
     \/ object = "event" /\ EvNext /\ UNCHANGED <<vars, recvars, rwvars, susvars>>
     \/ object = "suspend" /\ SusNext /\ UNCHANGED <<vars, recvars, rwvars, evvars, phase>>
  /\ UNCHANGED object

bench == <<vars, recvars, rwvars, evvars, phase, susvars, object>>

\* A thread in the middle of a call runs on; readers finish reading.
BenchStep(t) ==
  /\ \/ object = "mutex" /\ Step(t) /\ UNCHANGED <<recvars, rwvars, evvars, phase, susvars>>
     \/ object = "recursive" /\ RecStep(t) /\ UNCHANGED <<rwvars, evvars, phase, susvars>>
     \/ object = "rwlock" /\ RwStep(t) /\ UNCHANGED <<recvars, evvars, phase, susvars>>
     \/ object = "event" /\ EvStep(t) /\ UNCHANGED <<vars, recvars, rwvars, susvars>>
  /\ UNCHANGED object

SuspendStep(A) ==
  object = "suspend" /\ A /\ UNCHANGED <<vars, recvars, rwvars, evvars, phase, object>>

BenchSpec ==
  /\ BenchInit /\ [][BenchNext]_bench
  /\ \A t \in Threads : WF_bench(BenchStep(t))
  /\ \A c \in Controllers : WF_bench(SuspendStep(ControllerStep(c)))
  /\ WF_bench(SuspendStep(TargetStep))
=============================================================================
