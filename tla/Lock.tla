-------------------------------- MODULE Lock --------------------------------
(***************************************************************************)
(* What a mutex_t promises its callers (core/utils.h): at most one thread  *)
(* holds it, and when it is free one of the threads that want it gets it,  *)
(* though no particular one.  Mutex implements this specification;         *)
(* RecursiveLock, RwLock and Event are built on top of it.                 *)
(***************************************************************************)

CONSTANT Clients   \* the threads that use the lock

VARIABLE phase   \* of each thread: "idle", "trying" or "holding"

Free == \A t \in Clients : phase[t] # "holding"

LockInit == phase = [t \in Clients |-> "idle"]

\* d_r_mutex_lock is called.
Request(t) ==
  /\ phase[t] = "idle"
  /\ phase' = [phase EXCEPT ![t] = "trying"]

\* A call that was waiting, or a d_r_mutex_trylock, succeeds.
Acquire(t) ==
  /\ phase[t] \in {"idle", "trying"}
  /\ Free
  /\ phase' = [phase EXCEPT ![t] = "holding"]

\* d_r_mutex_unlock.
Release(t) ==
  /\ phase[t] = "holding"
  /\ phase' = [phase EXCEPT ![t] = "idle"]

LockNext == \E t \in Clients : Request(t) \/ Acquire(t) \/ Release(t)

GrantSome == \E t \in Clients : phase[t] = "trying" /\ Acquire(t)

LockSpec == LockInit /\ [][LockNext]_phase

FairLockSpec == LockSpec /\ WF_phase(GrantSome)
=============================================================================
