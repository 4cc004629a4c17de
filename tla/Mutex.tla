------------------------------- MODULE Mutex -------------------------------
(***************************************************************************)
(* mutex_t: the lock under every other lock of the core (core/utils.c,     *)
(* with the contended path of core/unix/os.c on a kernel with futexes).    *)
(* One shared word, lock_requests, is changed by single atomic             *)
(* instructions; every other step of a call is a program counter of the    *)
(* calling thread.  The futex is modelled by how ksynch_linux.c uses it: a *)
(* wait sleeps only if the word still has the expected value, a wake moves *)
(* at most one sleeper.                                                    *)
(***************************************************************************)
EXTENDS Integers

CONSTANTS Threads,
          SpinlockCount   \* the -spinlock_count option; 0 turns spinning off

ASSUME SpinAssumption == SpinlockCount \in Nat

\* Values of lock_requests; any value above LOCK_SET_STATE means contended.
LOCK_FREE_STATE == -1
LOCK_SET_STATE == 0
LOCK_CONTENDED_STATE == 1

VARIABLES lock_requests,
          pc

vars == <<lock_requests, pc>>

PC == {"idle", "try", "request", "contend", "wait", "asleep",
       "holding", "notify", "wake"}

Init ==
  /\ lock_requests = LOCK_FREE_STATE
  /\ pc = [t \in Threads |-> "idle"]

Goto(t, l) == pc' = [pc EXCEPT ![t] = l]

\* A thread calls d_r_mutex_lock.
MutexLock(t) ==
  /\ pc[t] = "idle"
  /\ Goto(t, IF SpinlockCount > 0 THEN "try" ELSE "request")
  /\ UNCHANGED lock_requests

\* Variant: the outcome of the exchange is not looked at.
CompareExchangeIgnored(t, l) ==
  /\ lock_requests' = IF lock_requests = LOCK_FREE_STATE THEN LOCK_SET_STATE
                                                         ELSE lock_requests
  /\ Goto(t, "holding")

\* The compare-and-exchange of d_r_mutex_trylock; a caller that fails goes to l.
CompareExchange(t, l) ==
  IF lock_requests = LOCK_FREE_STATE
  THEN lock_requests' = LOCK_SET_STATE /\ Goto(t, "holding")
  ELSE UNCHANGED lock_requests /\ Goto(t, l)

\* The first attempt of d_r_mutex_lock when it may spin.  The spin after a
\* failure only reads the word and ends, at the latest when its count is used
\* up, in the same place whatever it read.
TryFirst(t) == pc[t] = "try" /\ CompareExchange(t, "request")

\* atomic_inc_and_test
LockRequest(t) ==
  /\ pc[t] = "request"
  /\ lock_requests' = lock_requests + 1
  /\ Goto(t, IF lock_requests = LOCK_FREE_STATE THEN "holding" ELSE "contend")

\* Variant: the word is marked contended only when it was set.
ContendSet(t) ==
  /\ pc[t] = "contend"
  /\ lock_requests' = IF lock_requests = LOCK_FREE_STATE THEN LOCK_SET_STATE
                                                         ELSE LOCK_CONTENDED_STATE
  /\ Goto(t, IF lock_requests = LOCK_FREE_STATE THEN "holding" ELSE "wait")

\* Variant: a word that was set but not contended counts as free.
ContendOffByOne(t) ==
  /\ pc[t] = "contend"
  /\ lock_requests' = LOCK_CONTENDED_STATE
  /\ Goto(t, IF lock_requests <= LOCK_SET_STATE THEN "holding" ELSE "wait")

\* The exchange at the top of the loop of mutex_wait_contended_lock.
Contend(t) ==
  /\ pc[t] = "contend"
  /\ lock_requests' = LOCK_CONTENDED_STATE
  /\ Goto(t, IF lock_requests = LOCK_FREE_STATE THEN "holding" ELSE "wait")

\* ksynch_wait on lock_requests: sleeps, or returns because the word changed.
FutexWait(t) ==
  /\ pc[t] = "wait"
  /\ Goto(t, IF lock_requests = LOCK_CONTENDED_STATE THEN "asleep" ELSE "contend")
  /\ UNCHANGED lock_requests

\* A signal ends the wait early (res # 0): the loop tries again.
Interrupted(t) ==
  /\ pc[t] = "asleep"
  /\ Goto(t, "contend")
  /\ UNCHANGED lock_requests

\* d_r_mutex_trylock called on its own.
Trylock(t) == pc[t] = "idle" /\ CompareExchange(t, "idle")

\* Variant: the waker is left out when the word drops to LOCK_SET_STATE.
UnlockQuietly(t) ==
  /\ pc[t] = "holding"
  /\ lock_requests' = LOCK_FREE_STATE
  /\ Goto(t, IF lock_requests <= LOCK_CONTENDED_STATE THEN "idle" ELSE "wake")

\* d_r_mutex_unlock: atomic_dec_and_test, and the contended path if the old
\* value was not LOCK_SET_STATE.
Unlock(t) ==
  /\ pc[t] = "holding"
  /\ lock_requests' = lock_requests - 1
  /\ Goto(t, IF lock_requests = LOCK_SET_STATE THEN "idle" ELSE "notify")

\* Variant: the word is decremented once more instead of freed.
NotifyDecrement(t) ==
  /\ pc[t] = "notify"
  /\ lock_requests' = lock_requests - 1
  /\ Goto(t, "wake")

\* mutex_notify_released_lock stores LOCK_FREE_STATE ...
NotifyStore(t) ==
  /\ pc[t] = "notify"
  /\ lock_requests' = LOCK_FREE_STATE
  /\ Goto(t, "wake")

\* ... and then wakes one sleeper, if there is one.
NotifyWake(t) ==
  /\ pc[t] = "wake"
  /\ \/ \E u \in Threads :
          /\ pc[u] = "asleep"
          /\ pc' = [pc EXCEPT ![t] = "idle", ![u] = "contend"]
     \/ /\ \A u \in Threads : pc[u] # "asleep"
        /\ Goto(t, "idle")
  /\ UNCHANGED lock_requests

\* The steps of a call in progress, which the scheduler lets run.
Step(t) ==
  \/ TryFirst(t) \/ LockRequest(t) \/ Contend(t) \/ FutexWait(t)
  \/ NotifyStore(t) \/ NotifyWake(t)

Next ==
  \E t \in Threads :
    MutexLock(t) \/ Trylock(t) \/ Interrupted(t) \/ Unlock(t) \/ Step(t)

Spec == Init /\ [][Next]_vars

\* A thread in the middle of a call is scheduled again.  Nothing makes a
\* thread call d_r_mutex_lock, nor release what it holds.
FairSpec == Spec /\ \A t \in Threads : WF_vars(Step(t))

-----------------------------------------------------------------------------
\* A thread owns the mutex from its acquisition until the word is free again.
Owner(t) == pc[t] \in {"holding", "notify"}

\* Type invariant.
TypeOK ==
  /\ lock_requests \in Int /\ lock_requests >= LOCK_FREE_STATE
  /\ pc \in [Threads -> PC]

\* At most one thread owns the mutex: d_r_mutex_lock and d_r_mutex_trylock
\* return true to one thread at a time whatever atomic steps interleave.
MutualExclusion == \A t, u \in Threads : Owner(t) /\ Owner(u) => t = u

\* The word reads free exactly while nobody owns the mutex: mutex_testlock,
\* on which the readers of a read-write lock rely, is exact.
FreeIffUnowned ==
  (lock_requests = LOCK_FREE_STATE) <=> (\A t \in Threads : ~Owner(t))

\* No lost wake-up: while a thread sleeps, either the word makes the next
\* unlock take the contended path, or somebody is already on the way to wake
\* it or to mark the word contended (os.c: "it's fine to store any value >
\* LOCK_SET_STATE ... so that the next unlocker will call
\* mutex_notify_released_lock()").
NoLostWakeup ==
  (\E t \in Threads : pc[t] = "asleep")
    => \/ lock_requests > LOCK_SET_STATE
       \/ \E u \in Threads : pc[u] \in {"notify", "wake", "contend"}

-----------------------------------------------------------------------------
Phase(t) ==
  IF Owner(t) THEN "holding"
  ELSE IF pc[t] \in {"idle", "wake"} THEN "idle" ELSE "trying"

L == INSTANCE Lock WITH Clients <- Threads,
                         phase <- [t \in Threads |-> Phase(t)]

\* The mutex implements Lock: every step is a request, an acquisition of the
\* free lock, a release, or invisible.
ImplementsLock == L!LockSpec

\* It also gives the lock to somebody whenever it is free and wanted.
ImplementsFairLock == L!FairLockSpec
=============================================================================
