------------------------------- MODULE Synch -------------------------------
(***************************************************************************)
(* synch_with_all_threads (core/synch.c): one thread stops all the others  *)
(* at safe spots.  In passes over the thread list it tells a thread that a *)
(* synch is pending, suspends it (module Suspend; here one step), looks    *)
(* where it is, and resumes it unless the place is safe; a thread that     *)
(* sees the pending synch waits for it before it enters the cache.         *)
(* Threads start and exit meanwhile, and several may want to stop the      *)
(* others.  The desired state is THREAD_SYNCH_SUSPENDED and its mcontext   *)
(* variants; cleaning and terminating threads is not modelled.             *)
(***************************************************************************)
EXTENDS Integers, FiniteSets

CONSTANTS Threads, Nobody,
          Clients,         \* client threads, always in the client library
          Started,         \* threads on the list at the beginning
          Initiators,      \* threads that call synch_with_all_threads
          Aborting,        \* threads that pass THREAD_SYNCH_SUSPEND_FAILURE_ABORT
          MayFail,         \* threads os_thread_suspend may fail for
          MaxLoops,        \* bound: passes before max_loops may be reached
          MaxPending       \* bound: no synch begins when a count is this high

VARIABLES place, home,
          suspend_count, pending_synch_count,
          suspendable, left_unsuspended,            \* of the client threads
          listed, all_threads_synch_lock, thread_initexit_lock,
          dynamo_all_threads_synched,
          synch_array, todo, current, result,       \* the initiator's locals
          all_synched, finished_non_client_threads, loop_count,
          stale, stranded                           \* history, not in the code

\* stale: the client threads whose left_unsuspended an aborted synch has left
\* set, until an end_synch_with_all_threads finds them running.
\* stranded: the threads whose notification nobody takes back, since the client
\* thread was passed over later or the loop ended before they were synched.

\* Client threads are on the list and are no initiators.
ASSUME SynchAssumption ==
  /\ Nobody \notin Threads
  /\ Clients \subseteq Threads /\ Started \subseteq Threads \ Clients

world == <<home, suspendable, listed>>
locks == <<all_threads_synch_lock, thread_initexit_lock>>
locals == <<synch_array, todo, current, result, all_synched, finished_non_client_threads,
            loop_count>>
marks == <<suspend_count, pending_synch_count, left_unsuspended, dynamo_all_threads_synched>>
history == <<stale, stranded>>
syvars == <<place, world, locks, locals, marks, history>>

SyInit ==
  /\ place = [u \in Threads |-> IF u \in Clients THEN "lib"
                                ELSE IF u \in Started THEN "dr" ELSE "none"]
  /\ home = [u \in Threads |-> "cache"]
  /\ suspend_count = [u \in Threads |-> 0]
  /\ pending_synch_count = [u \in Threads |-> 0]
  /\ suspendable = [u \in Clients |-> TRUE]
  /\ left_unsuspended = [u \in Clients |-> FALSE]
  /\ listed = Started \cup Clients
  /\ all_threads_synch_lock = Nobody /\ thread_initexit_lock = Nobody
  /\ dynamo_all_threads_synched = FALSE
  /\ synch_array = [u \in Threads |-> "new"]
  /\ todo = {} /\ current = Nobody /\ result = "none"
  /\ all_synched = FALSE /\ finished_non_client_threads = FALSE /\ loop_count = 0
  /\ stale = {} /\ stranded = {}

Suspended(u) == suspend_count[u] > 0
Awake(u, p) == place[u] = p /\ ~Suspended(u)
Go(u, p) == place' = [place EXCEPT ![u] = p]

\* A step of u that touches nothing but where it is.
Stroll(u, p, q) ==
  /\ Awake(u, p)
  /\ Go(u, q)
  /\ UNCHANGED <<world, locks, locals, marks, history>>

\* exiting_thread_count and uninit_thread_count, by whom they count.
Exiting == {u \in Threads : place[u] \in {"exiting", "exited"}}
Uninit == {u \in Threads : place[u] = "starting"}

\* In check_wait_at_safe_spot u holds its own synch_lock while it sets and
\* resets synch_perm; an initiator's adjust_wait_at_safe_spot is one step.
HoldsSynchLock(u) == place[u] \in {"set_perm", "reset_perm"}
SynchPerm(u) == place[u] \in {"set_perm", "waiting", "reset_perm"}

-----------------------------------------------------------------------------
\* What threads do by themselves.
EnterDr(u) == Stroll(u, "cache", "dr")

\* check_wait_at_safe_spot, on the way to p.
CheckWait(u, p) ==
  /\ Go(u, IF pending_synch_count[u] = 0 THEN p ELSE "set_perm")
  /\ home' = [home EXCEPT ![u] = p]
  /\ UNCHANGED <<suspendable, listed, locks, locals, marks, history>>

EnterCache(u) == Awake(u, "dr") /\ CheckWait(u, "cache")

Wait(u) == Stroll(u, "set_perm", "waiting")

WaitDone(u) == pending_synch_count[u] = 0 /\ Stroll(u, "waiting", "reset_perm")

Proceed(u) == Stroll(u, "reset_perm", home[u])

\* uninit_thread_count is raised by the parent, in DR, before its clone system
\* call; the thread adds itself to the list under thread_initexit_lock.
ThreadStart(u) == (\E v \in Threads : Awake(v, "dr")) /\ Stroll(u, "none", "starting")

AddThread(u) ==
  /\ thread_initexit_lock = Nobody
  /\ Awake(u, "starting")
  /\ Go(u, "dr")
  /\ listed' = listed \cup {u}
  /\ UNCHANGED <<home, suspendable, locks, locals, marks, history>>

\* A thread that exits is counted until it is gone, past the point where it
\* leaves the list.
BeginExit(u) == Stroll(u, "dr", "exiting")

RemoveThread(u) ==
  /\ thread_initexit_lock = Nobody
  /\ Awake(u, "exiting")
  /\ Go(u, "exited")
  /\ listed' = listed \ {u}
  /\ UNCHANGED <<home, suspendable, locks, locals, marks, history>>

EndExit(u) == Stroll(u, "exited", "gone")

\* dr_mutex_lock and dr_mutex_unlock: mutex_count of a client thread.
ClientLock(u) == Stroll(u, "lib", "lib_locked")

ClientUnlock(u) == Stroll(u, "lib_locked", "lib")

\* dr_client_thread_set_suspendable, at any time.
SetSuspendable(u) ==
  /\ Awake(u, "lib") \/ Awake(u, "lib_locked")
  /\ suspendable' = [suspendable EXCEPT ![u] = ~@]
  /\ UNCHANGED <<place, home, listed, locks, locals, marks, history>>

-----------------------------------------------------------------------------
\* The initiator i.
BeginSynch(i) ==
  /\ i \in Initiators
  /\ \A u \in Threads : pending_synch_count[u] < MaxPending
  /\ Stroll(i, "dr", "spin")

\* Variant: the loop on all_threads_synch_lock ignores pending synchs.
SpinBusy(i) ==
  /\ Awake(i, "spin") /\ all_threads_synch_lock # Nobody
  /\ UNCHANGED syvars

\* One turn of the trylock loop, when the lock is taken.
Spin(i) ==
  /\ Awake(i, "spin") /\ all_threads_synch_lock # Nobody
  /\ CheckWait(i, "spin")

TakeAllThreadsSynchLock(i) ==
  /\ all_threads_synch_lock = Nobody
  /\ Awake(i, "spin")
  /\ Go(i, "want")
  /\ all_threads_synch_lock' = i
  /\ loop_count' = 0
  /\ UNCHANGED <<world, thread_initexit_lock, synch_array, todo, current, result, all_synched,
                 finished_non_client_threads, marks, history>>

\* A pass starts with a new list; what the last pass noted is carried over.
BeginPass(i) ==
  /\ thread_initexit_lock = Nobody
  /\ Awake(i, "want")
  /\ Go(i, "pass")
  /\ thread_initexit_lock' = i
  /\ synch_array' = [u \in Threads |-> IF u \in listed THEN synch_array[u] ELSE "new"]
  /\ todo' = listed \ {i}
  /\ all_synched' = TRUE
  /\ finished_non_client_threads' =
       \A u \in listed \ (Clients \cup {i}) : synch_array'[u] = "synched"
  /\ UNCHANGED <<world, all_threads_synch_lock, current, result, loop_count, marks, history>>

\* get_list_of_threads "always puts them in the same order".
NextOnList == CHOOSE u \in todo : TRUE

\* The pass needs nothing of u, or leaves u alone.
Skip(i, u) ==
  /\ Awake(i, "pass") /\ u \in todo
  /\ todo' = todo \ {u}
  /\ \/ /\ synch_array[u] = "synched"
        /\ UNCHANGED <<synch_array, all_synched, left_unsuspended, stranded>>
     \/ /\ synch_array[u] # "synched" /\ u \in Clients /\ ~finished_non_client_threads
        /\ all_synched' = FALSE
        /\ UNCHANGED <<synch_array, left_unsuspended, stranded>>
     \/ /\ synch_array[u] # "synched" /\ u \in Clients /\ finished_non_client_threads
        /\ ~suspendable[u]
        /\ synch_array' = [synch_array EXCEPT ![u] = "synched"]
        /\ left_unsuspended' = [left_unsuspended EXCEPT ![u] = TRUE]
        /\ stranded' = stranded \cup {v \in {u} : synch_array[v] = "notified"}
        /\ UNCHANGED all_synched
  /\ UNCHANGED <<place, world, locks, current, result, finished_non_client_threads, loop_count,
                 suspend_count, pending_synch_count, dynamo_all_threads_synched, stale>>

\* u is notified, once, and synch_with_thread raises the count once more.
Notify(i, u) ==
  /\ Awake(i, "pass") /\ u \in todo
  /\ synch_array[u] # "synched"
  /\ u \in Clients => finished_non_client_threads /\ suspendable[u]
  /\ ~HoldsSynchLock(u)
  /\ pending_synch_count' =
       [pending_synch_count EXCEPT ![u] = @ + (IF synch_array[u] = "new" THEN 2 ELSE 1)]
  /\ synch_array' = [synch_array EXCEPT ![u] = "notified"]
  /\ current' = u
  /\ Go(i, "probe")
  /\ UNCHANGED <<world, locks, todo, result, all_synched, finished_non_client_threads,
                 loop_count, suspend_count, left_unsuspended, dynamo_all_threads_synched, history>>

\* os_thread_suspend
Probe(i) ==
  /\ Awake(i, "probe")
  /\ \/ /\ suspend_count' = [suspend_count EXCEPT ![current] = @ + 1]
        /\ Go(i, "judge")
        /\ UNCHANGED result
     \/ /\ current \in MayFail
        /\ Go(i, "settle")
        /\ result' = IF i \in Aborting THEN "suspend_failure" ELSE "success"
        /\ UNCHANGED suspend_count
  /\ UNCHANGED <<world, locks, synch_array, todo, current, all_synched,
                 finished_non_client_threads, loop_count, pending_synch_count,
                 left_unsuspended, dynamo_all_threads_synched, history>>

\* The count after os_thread_resume: none is taken from a thread that runs.
Lowered(u) == IF Suspended(u) THEN suspend_count[u] - 1 ELSE 0

\* A client thread is safe in its library unless it holds a lock; that it is
\* not to be suspended is looked at once more.
ClientSafe(u) == place[u] = "lib" \/ (place[u] = "lib_locked" /\ ~suspendable[u])

\* Variant: synch_perm is read without trying for the synch_lock.
AtSafeSpotUnlocked(u) == SynchPerm(u) \/ place[u] = "cache" \/ ClientSafe(u)

\* at_safe_spot: u waits with permission, or runs application or client code.
AtSafeSpot(u) ==
  (SynchPerm(u) /\ ~HoldsSynchLock(u)) \/ place[u] = "cache" \/ ClientSafe(u)

Judge(i) ==
  /\ Awake(i, "judge")
  /\ Go(i, "settle")
  /\ result' = IF AtSafeSpot(current) THEN "success" ELSE "not_safe"
  /\ suspend_count' =
       IF AtSafeSpot(current) THEN suspend_count
       ELSE [suspend_count EXCEPT ![current] = Lowered(current)]
  /\ UNCHANGED <<world, locks, synch_array, todo, current, all_synched,
                 finished_non_client_threads, loop_count, pending_synch_count,
                 left_unsuspended, dynamo_all_threads_synched, history>>

\* Variant: the notification is taken back though u has not been synched.
TakenBackAlways == 2

\* What adjust_wait_at_safe_spot takes back: synch_with_thread's own count,
\* and the notification of a thread that is now synched.
TakenBack == IF result = "success" THEN 2 ELSE 1

Settle(i) ==
  /\ Awake(i, "settle")
  /\ ~HoldsSynchLock(current)
  /\ pending_synch_count' = [pending_synch_count EXCEPT ![current] = @ - TakenBack]
  /\ synch_array' = [synch_array EXCEPT ![current] = IF result = "success" THEN "synched" ELSE @]
  /\ all_synched' = (all_synched /\ result = "success")
  /\ todo' = todo \ {current}
  /\ current' = Nobody /\ result' = "none"
  /\ Go(i, IF result = "suspend_failure" THEN "abort" ELSE "pass")
  /\ UNCHANGED <<world, locks, finished_non_client_threads, loop_count, suspend_count,
                 left_unsuspended, dynamo_all_threads_synched, history>>

\* Variant: threads that are starting are forgotten.
NobodyLeaving == Exiting = {}

\* No thread is on its way in or out.
NobodyInTransit == Exiting = {} /\ Uninit = {}

\* max_loops is MaxLoops or more: from then on the loop may be over.
AtLimit == loop_count >= MaxLoops

\* Not everybody is stopped: another pass, with the lock dropped in between.
NextPass(i) ==
  /\ Awake(i, "pass") /\ todo = {}
  /\ ~all_synched \/ ~NobodyInTransit
  /\ Go(i, "want")
  /\ thread_initexit_lock' = Nobody
  /\ loop_count' = IF AtLimit THEN loop_count ELSE loop_count + 1
  /\ UNCHANGED <<world, all_threads_synch_lock, synch_array, todo, current, result, all_synched,
                 finished_non_client_threads, marks, history>>

\* The loop is over.  An initiator that does not abort gets the list, and the
\* locks, though it has failed.
Synched(i) ==
  /\ Awake(i, "pass") /\ todo = {}
  /\ AtLimit \/ (all_synched /\ NobodyInTransit)
  /\ all_synched \/ i \notin Aborting
  /\ Go(i, "synched")
  /\ dynamo_all_threads_synched' = all_synched
  /\ UNCHANGED <<world, locks, locals, suspend_count, pending_synch_count, left_unsuspended, history>>

GiveUp(i) ==
  /\ Awake(i, "pass") /\ todo = {}
  /\ AtLimit /\ ~all_synched /\ i \in Aborting
  /\ Go(i, "abort")
  /\ UNCHANGED <<world, locks, locals, marks, history>>

Left(u) == u \in Clients /\ left_unsuspended[u]

\* The initiator drops the locks; its array and list are gone.
Dismiss ==
  /\ all_threads_synch_lock' = Nobody /\ thread_initexit_lock' = Nobody
  /\ synch_array' = [u \in Threads |-> "new"]
  /\ todo' = {} /\ all_synched' = FALSE /\ finished_non_client_threads' = FALSE
  /\ loop_count' = 0
  /\ UNCHANGED <<current, result>>

\* Variant: client threads are taken to be left unsuspended always.
ResumedUnlessClient(u) == synch_array[u] = "synched" /\ u \notin Clients

\* Whom the abort path resumes.
Resumed(u) == synch_array[u] = "synched" /\ ~Left(u)

\* Variant: threads that were only notified stay notified.
UndoneResumed == [u \in Threads |-> pending_synch_count[u]]

\* The counts after the abort path has taken back the notifications.
Undone ==
  [u \in Threads |-> pending_synch_count[u] - (IF synch_array[u] = "notified" THEN 1 ELSE 0)]

\* The abort path undoes everything, but for left_unsuspended, and drops the
\* locks ...
Abort(i) ==
  /\ Awake(i, "abort")
  /\ \A u \in Threads : synch_array[u] = "notified" => ~HoldsSynchLock(u)
  /\ suspend_count' = [u \in Threads |-> IF Resumed(u) THEN Lowered(u) ELSE suspend_count[u]]
  /\ pending_synch_count' = Undone
  /\ stale' = stale \cup {u \in Clients : left_unsuspended[u]}
  /\ Dismiss
  /\ Go(i, "aborted")
  /\ UNCHANGED <<world, left_unsuspended, dynamo_all_threads_synched, stranded>>

\* ... and only then says so.
Aborted(i) ==
  /\ Awake(i, "aborted")
  /\ Go(i, "dr")
  /\ dynamo_all_threads_synched' = FALSE
  /\ UNCHANGED <<world, locks, locals, suspend_count, pending_synch_count, left_unsuspended, history>>

\* end_synch_with_all_threads and resume_all_threads.
EndSynch(i) ==
  /\ Awake(i, "synched")
  /\ Go(i, "dr")
  /\ dynamo_all_threads_synched' = FALSE
  /\ suspend_count' = [u \in Threads |-> IF u \in listed \ {i} /\ ~Left(u) THEN Lowered(u)
                                         ELSE suspend_count[u]]
  /\ left_unsuspended' = [u \in Clients |-> FALSE]
  /\ stale' = {u \in stale : suspend_count'[u] > 0}
  /\ stranded' = stranded \cup {u \in Threads : synch_array[u] = "notified"}
  /\ Dismiss
  /\ UNCHANGED <<world, pending_synch_count>>

-----------------------------------------------------------------------------
\* What a thread does once it has begun.
Goes(u) ==
  \/ EnterCache(u) \/ Wait(u) \/ WaitDone(u) \/ Proceed(u) \/ AddThread(u)
  \/ RemoveThread(u) \/ EndExit(u) \/ ClientUnlock(u) \/ Spin(u) \/ TakeAllThreadsSynchLock(u) \/ BeginPass(u)
  \/ (todo # {} /\ (Skip(u, NextOnList) \/ Notify(u, NextOnList)))
  \/ Probe(u) \/ Judge(u) \/ Settle(u) \/ NextPass(u) \/ Synched(u) \/ GiveUp(u)
  \/ Abort(u) \/ Aborted(u) \/ EndSynch(u)

SyNext ==
  \E u \in Threads : \/ EnterDr(u) \/ ThreadStart(u) \/ BeginExit(u) \/ BeginSynch(u)
                     \/ ClientLock(u) \/ (u \in Clients /\ SetSuspendable(u)) \/ Goes(u)

\* A thread that is resumed, or finds the lock free, again and again gets to
\* run: that is what the yields of the loops are for.
SySafety == SyInit /\ [][SyNext]_syvars
SySpec == SySafety /\ \A u \in Threads : SF_syvars(Goes(u))

-----------------------------------------------------------------------------
\* Type invariant.
SyTypeOK ==
  /\ suspend_count \in [Threads -> 0..2] /\ pending_synch_count \in [Threads -> 0..MaxPending + 3]
  /\ left_unsuspended \in [Clients -> BOOLEAN]
  /\ synch_array \in [Threads -> {"new", "notified", "synched"}]
  /\ todo \subseteq listed /\ listed \subseteq Threads
  /\ loop_count \in 0..MaxLoops
  /\ stale \subseteq Clients /\ stranded \subseteq Threads

\* Where a thread may be stopped: it holds no lock of DR's.
AtRest(u) == place[u] \in {"cache", "waiting"} \/ ClientSafe(u)

\* No listed thread but i runs, save client threads that were left alone.
AllStopped(i) == \A u \in listed \ {i} : Left(u) \/ Suspended(u)

\* When synch_with_all_threads has succeeded for i, every other thread on the
\* list is suspended at a safe spot, save the client threads left alone and,
\* if i ignores failures, threads that could not be suspended.  If none such
\* runs, dynamo_all_threads_synched says so, and no thread is on its way in
\* or out unless the loop limit was reached.  dynamo_all_threads_synched is
\* never set without such a success.
SynchedMeansStopped ==
  /\ dynamo_all_threads_synched => \E i \in Threads : place[i] = "synched" /\ all_synched
  /\ \A i \in Threads : place[i] = "synched" /\ all_synched =>
       /\ \A u \in listed \ {i} :
            Left(u) \/ (Suspended(u) /\ AtRest(u)) \/ (u \in MayFail /\ i \notin Aborting)
       /\ AllStopped(i) => /\ dynamo_all_threads_synched
                           /\ AtLimit \/ (Exiting = {} /\ Uninit = {})

\* When no synch is in progress no thread is left suspended by the abort path
\* or by end_synch_with_all_threads, save client threads whose flag outlived
\* an aborted synch.
NobodyLeftSuspended ==
  all_threads_synch_lock = Nobody => \A u \in listed \ stale : ~Suspended(u)

\* When no synch is in progress no thread is told of one (it would wait at its
\* next safe spot for ever), save those whose notification was never taken
\* back: a client thread that forbade its suspension once notified, or a
\* thread not yet synched when an initiator that does not abort left the loop.
NobodyLeftNotified ==
  all_threads_synch_lock = Nobody =>
    \A u \in listed \ stranded : pending_synch_count[u] = 0

\* "If resume is true, resumes the threads in the threads array", says
\* end_synch_with_all_threads, and the abort path is to "undo everything!":
\* when no synch is in progress no thread at all is suspended.
EverybodyResumed == all_threads_synch_lock = Nobody => \A u \in listed : ~Suspended(u)

\* A client thread does not hold a lock each time it is looked at; one that
\* might is told to call dr_client_thread_set_suspendable(false).
ClientsRest == <>[][\A u \in Threads : ~ClientLock(u)]_syvars

\* A synch comes to an end, also when another thread wants one and when
\* threads come and go.
SynchEnds == ClientsRest => (all_threads_synch_lock # Nobody ~> all_threads_synch_lock = Nobody)
=============================================================================
