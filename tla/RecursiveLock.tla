--------------------------- MODULE RecursiveLock ---------------------------
(***************************************************************************)
(* recursive_lock_t (core/utils.c): a mutex with an owner and a count.  The*)
(* owner field is read by threads that do not hold the mutex, so between   *)
(* any two steps of one thread another may look at it.                     *)
(***************************************************************************)
EXTENDS Mutex

CONSTANTS MaxDepth,            \* bound: nesting explored
          INVALID_THREAD_ID

ASSUME InvalidAssumption == INVALID_THREAD_ID \notin Threads

VARIABLES owner, count,
          rec,                 \* where each thread is in a recursive call
          nested               \* acquisitions each thread has not given back

recvars == <<owner, count, rec, nested>>

RecInit ==
  /\ owner = INVALID_THREAD_ID
  /\ count = 0
  /\ rec = [t \in Threads |-> "out"]
  /\ nested = [t \in Threads |-> 0]

\* The owner's nested acquisition, by either call.
AcquireAgain(t) ==
  /\ rec[t] = "out"
  /\ owner = t
  /\ count < MaxDepth
  /\ count' = count + 1
  /\ nested' = [nested EXCEPT ![t] = @ + 1]
  /\ UNCHANGED <<vars, owner, rec>>

\* acquire_recursive_lock by another thread: the mutex call starts.
AcquireRecursive(t) ==
  /\ rec[t] = "out"
  /\ owner # t
  /\ MutexLock(t)
  /\ rec' = [rec EXCEPT ![t] = "acquire"]
  /\ UNCHANGED <<owner, count, nested>>

\* try_recursive_lock by another thread.
TryRecursive(t) ==
  /\ rec[t] = "out"
  /\ owner # t
  /\ Trylock(t)
  /\ rec' = [rec EXCEPT ![t] = IF pc'[t] = "holding" THEN "acquire" ELSE "out"]
  /\ UNCHANGED <<owner, count, nested>>

RecMutexStep(t) == Step(t) /\ UNCHANGED recvars

RecInterrupted(t) == Interrupted(t) /\ UNCHANGED recvars

\* own_recursive_lock
OwnRecursive(t) ==
  /\ rec[t] = "acquire"
  /\ pc[t] = "holding"
  /\ owner' = t
  /\ count' = 1
  /\ nested' = [nested EXCEPT ![t] = 1]
  /\ rec' = [rec EXCEPT ![t] = "out"]
  /\ UNCHANGED vars

\* Variant: the owner is left in place when the count reaches zero.
ReleaseKeepOwner(t) ==
  /\ rec[t] = "out"
  /\ nested[t] > 0
  /\ count' = count - 1
  /\ nested' = [nested EXCEPT ![t] = @ - 1]
  /\ rec' = [rec EXCEPT ![t] = IF count = 1 THEN "unlock" ELSE "out"]
  /\ UNCHANGED <<vars, owner>>

\* release_recursive_lock, up to the unlock of the mutex ...
ReleaseRecursive(t) ==
  /\ rec[t] = "out"
  /\ nested[t] > 0
  /\ count' = count - 1
  /\ nested' = [nested EXCEPT ![t] = @ - 1]
  /\ owner' = IF count = 1 THEN INVALID_THREAD_ID ELSE owner
  /\ rec' = [rec EXCEPT ![t] = IF count = 1 THEN "unlock" ELSE "out"]
  /\ UNCHANGED vars

\* ... and the unlock.
RecUnlock(t) ==
  /\ rec[t] = "unlock"
  /\ Unlock(t)
  /\ rec' = [rec EXCEPT ![t] = "out"]
  /\ UNCHANGED <<owner, count, nested>>

RecStep(t) == RecMutexStep(t) \/ OwnRecursive(t) \/ RecUnlock(t)

RecNext ==
  \E t \in Threads :
    \/ AcquireAgain(t) \/ AcquireRecursive(t) \/ TryRecursive(t)
    \/ RecInterrupted(t) \/ ReleaseRecursive(t) \/ RecStep(t)

RecSpec == Init /\ RecInit /\ [][RecNext]_<<vars, recvars>>

-----------------------------------------------------------------------------
\* A thread between its outermost acquire and the matching release is the one
\* self_owns_recursive_lock answers true to, holds the mutex, and the count is
\* the number of releases still due; for any other thread the answer is false.
RecursiveOwnership ==
  \A t \in Threads :
    /\ owner = t <=> nested[t] > 0
    /\ nested[t] > 0 => Owner(t) /\ count = nested[t]
=============================================================================
