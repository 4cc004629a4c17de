---------------------------- MODULE Synch_proof ----------------------------
(***************************************************************************)
(* A successful synch_with_all_threads has stopped everybody, and after    *)
(* any synch, successful or not, nobody is left behind: for any threads.   *)
(***************************************************************************)
EXTENDS Synch, TLAPS

\* Where a thread is while it holds all_threads_synch_lock, and while it
\* holds thread_initexit_lock as well.
Scanning == {"pass", "probe", "judge", "settle", "abort", "synched"}
Working == Scanning \cup {"want"}
Targeting == {"probe", "judge", "settle"}
OffList == {"none", "starting", "exited", "gone"}
Places == Working \cup OffList \cup
          {"lib", "lib_locked", "cache", "dr", "set_perm", "waiting", "reset_perm", "exiting",
           "spin", "aborted"}

\* Places a thread comes to without touching what is shared.
Quiet == {"cache", "dr", "set_perm", "waiting", "reset_perm", "spin", "gone", "lib", "lib_locked"}

Types ==
  /\ place \in [Threads -> Places] /\ home \in [Threads -> {"cache", "spin"}]
  /\ pending_synch_count \in [Threads -> Int]
  /\ listed = {u \in Threads : place[u] \notin OffList}
  /\ all_threads_synch_lock \in Threads \cup {Nobody}
  /\ thread_initexit_lock \in Threads \cup {Nobody}
  /\ synch_array \in [Threads -> {"new", "notified", "synched"}]
  /\ todo \subseteq listed /\ current \in Threads \cup {Nobody}
  /\ \A u \in Threads : u \in Clients <=> place[u] \in {"lib", "lib_locked"}

Flags ==
  /\ suspend_count \in [Threads -> Nat]
  /\ suspendable \in [Clients -> BOOLEAN] /\ left_unsuspended \in [Clients -> BOOLEAN]
  /\ all_synched \in BOOLEAN /\ dynamo_all_threads_synched \in BOOLEAN
  /\ stale \subseteq Clients /\ stranded \subseteq Threads

\* The locks are held by the thread that is at work, which runs and is not a
\* target of its own.
Holders ==
  /\ \A i \in Threads : /\ all_threads_synch_lock = i <=> place[i] \in Working
                        /\ thread_initexit_lock = i <=> place[i] \in Scanning
                        /\ all_threads_synch_lock = i =>
                             ~Suspended(i) /\ synch_array[i] = "new" /\ i \notin todo
  /\ thread_initexit_lock = Nobody => todo = {}
  /\ all_threads_synch_lock = Nobody => \A u \in Threads : synch_array[u] = "new"

\* The thread that is dealt with has been notified, a new thread has not.
Target ==
  /\ current # Nobody => \E i \in Threads : place[i] \in Targeting
  /\ \A i \in Threads : place[i] \in Targeting => current \in todo
  /\ current # Nobody => synch_array[current] = "notified"
  /\ \A u \in Threads : place[u] \in {"none", "starting"} => synch_array[u] = "new"

\* all_synched speaks of the part of the list that is done.
Done ==
  \A i \in Threads :
    /\ place[i] \in Scanning /\ all_synched =>
         \A u \in listed \ {i} : u \in todo \/ synch_array[u] = "synched"
    /\ place[i] = "synched" => todo = {}

\* A thread marked synched does not run, unless for one of two reasons.
Stopped(u) == Suspended(u) /\ AtRest(u)
Halted ==
  /\ \A u \in listed : synch_array[u] = "synched" =>
       Left(u) \/ Stopped(u) \/ (u \in MayFail /\ all_threads_synch_lock \notin Aborting)
  /\ \A i \in Threads : place[i] = "settle" /\ result = "success" =>
       Stopped(current) \/ (current \in MayFail /\ i \notin Aborting)
  /\ \A i \in Threads : place[i] = "judge" => Suspended(current)

\* What a pending_synch_count is made of, unless a notification has been
\* forgotten.
Counts ==
  \A u \in Threads \ stranded :
    /\ u \in listed => pending_synch_count[u] = (IF synch_array[u] = "notified" THEN 1 ELSE 0)
                                                 + (IF current = u THEN 1 ELSE 0)
    /\ place[u] \in {"none", "starting"} => pending_synch_count[u] = 0

\* Whoever is suspended will be resumed, unless left_unsuspended is stale: it
\* is suspended once, the initiator remembers it, and left_unsuspended does
\* not claim otherwise.
Remembered ==
  \A u \in Threads \ stale :
    /\ Suspended(u) =>
         /\ suspend_count[u] = 1 /\ u \in listed
         /\ \/ synch_array[u] = "synched"
            \/ /\ current = u
               /\ \E i \in Threads : place[i] = "judge" \/ (place[i] = "settle" /\ result = "success")
    /\ Left(u) => ~Suspended(u) /\ synch_array[u] = "synched"

SyIInv ==
  /\ Types /\ Flags /\ Holders /\ Target /\ Done /\ Halted /\ SynchedMeansStopped
  /\ Counts /\ Remembered

\* os_thread_resume leaves a count a count.
LEMMA LowerCount ==
  ASSUME suspend_count \in [Threads -> Nat], NEW u \in Threads,
         suspend_count' = [suspend_count EXCEPT ![u] = Lowered(u)]
  PROVE  suspend_count' \in [Threads -> Nat]
  BY DEF Lowered, Suspended

\* A thread moves about without touching anything that is shared.
LEMMA StrollInv ==
  ASSUME NEW p \in Quiet \cup {"exited"}, NEW q \in Quiet,
         p \in {"exited", "gone"} <=> q = "gone",
         p \in {"lib", "lib_locked"} <=> q \in {"lib", "lib_locked"},
         NEW u \in Threads, SyIInv,
         Stroll(u, p, q)
  PROVE  SyIInv'
<1> USE SynchAssumption
    DEF SyIInv, Types, Flags, Holders, Places, Working, Scanning, Targeting, OffList, Go, Awake, Suspended,
         world, locks, locals, marks, history, Quiet, Stroll
<1>1. Types'
  OBVIOUS
<1>2. Flags'
  BY Zenon DEF Flags
<1>3. Holders'
  OBVIOUS
<1>4. Target'
  BY DEF Target
<1>5. Done'
  BY SMTT(30) DEF Done
<1>6. Halted'
  BY SMTT(30) DEF Halted, Stopped, AtRest, ClientSafe, Left
<1>7. SynchedMeansStopped'
  BY SMTT(30) DEF SynchedMeansStopped, AllStopped, AtRest, ClientSafe, Left, AtLimit, Exiting, Uninit
<1>8. Counts'
  BY SMTT(30) DEF Counts
<1>9. Remembered'
  BY ZenonT(60) DEF Remembered, Left
<1> QED
  BY <1>1, <1>2, <1>3, <1>4, <1>5, <1>6, <1>7, <1>8, <1>9, Zenon

\* A thread enters the cache, or spins for all_threads_synch_lock.
LEMMA CheckWaitInv ==
  ASSUME NEW p \in {"cache", "spin"}, NEW u \in Threads, SyIInv,
         Awake(u, "dr") \/ Awake(u, "spin"), CheckWait(u, p)
  PROVE  SyIInv'
<1> USE SynchAssumption
    DEF SyIInv, Types, Flags, Holders, Places, Working, Scanning, Targeting, OffList, Go, Awake, Suspended,
         world, locks, locals, marks, history, CheckWait
<1>1. Types'
  OBVIOUS
<1>2. Flags'
  BY Zenon DEF Flags
<1>3. Holders'
  OBVIOUS
<1>4. Target'
  BY DEF Target
<1>5. Done'
  BY SMTT(30) DEF Done
<1>6. Halted'
  BY SMTT(30) DEF Halted, Stopped, AtRest, ClientSafe, Left
<1>7. SynchedMeansStopped'
  BY SMTT(30) DEF SynchedMeansStopped, AllStopped, AtRest, ClientSafe, Left, AtLimit, Exiting, Uninit
<1>8. Counts'
  BY SMTT(30) DEF Counts
<1>9. Remembered'
  BY SMTT(30) DEF Remembered, Left
<1> QED
  BY <1>1, <1>2, <1>3, <1>4, <1>5, <1>6, <1>7, <1>8, <1>9, Zenon

\* Only a running thread that is in DR can start one.
LEMMA ThreadStartInv ==
  ASSUME NEW u \in Threads, SyIInv, ThreadStart(u)
  PROVE  SyIInv'
<1> USE SynchAssumption
    DEF SyIInv, Types, Flags, Holders, Places, Working, Scanning, Targeting, OffList, Go, Awake, Suspended,
         world, locks, locals, marks, history, ThreadStart, Stroll
<1>1. Types'
  OBVIOUS
<1>2. Flags'
  BY Zenon DEF Flags
<1>3. Holders'
  OBVIOUS
<1>4. Target'
  BY DEF Target
<1>5. Done'
  BY SMTT(30) DEF Done
<1>6. Halted'
  BY SMTT(30) DEF Halted, Stopped, AtRest, ClientSafe, Left
<1>7. SynchedMeansStopped'
  BY SMTT(30) DEF SynchedMeansStopped, AllStopped, AtRest, ClientSafe, Left, AtLimit, Exiting, Uninit
<1>8. Counts'
  BY SMTT(30) DEF Counts
<1>9. Remembered'
  BY Zenon DEF Remembered, Left
<1> QED
  BY <1>1, <1>2, <1>3, <1>4, <1>5, <1>6, <1>7, <1>8, <1>9, Zenon

\* A new thread has not been notified of anything.
LEMMA AddThreadInv ==
  ASSUME NEW u \in Threads, SyIInv, AddThread(u)
  PROVE  SyIInv'
<1> USE SynchAssumption
    DEF SyIInv, Types, Flags, Holders, Places, Working, Scanning, Targeting, OffList, Go, Awake, Suspended,
         world, locks, locals, marks, history, AddThread
<1>0. current = Nobody
  BY Zenon DEF Target
<1>1. Types'
  OBVIOUS
<1>2. Flags'
  BY Zenon DEF Flags
<1>3. Holders'
  OBVIOUS
<1>4. Target'
  BY DEF Target
<1>5. Done'
  BY SMTT(30) DEF Done
<1>6. Halted'
  BY DEF Target, Halted, Stopped, AtRest, ClientSafe, Left
<1>7. SynchedMeansStopped'
  BY SMTT(30) DEF SynchedMeansStopped, AllStopped, AtRest, ClientSafe, Left, AtLimit, Exiting, Uninit
<1>8. Counts'
  BY <1>0 DEF Counts, Target
<1>9. Remembered'
  BY Zenon DEF Remembered, Left
<1> QED
  BY <1>1, <1>2, <1>3, <1>4, <1>5, <1>6, <1>7, <1>8, <1>9, Zenon

\* A suspended thread does not begin to exit.
LEMMA BeginExitInv ==
  ASSUME NEW u \in Threads, SyIInv, BeginExit(u)
  PROVE  SyIInv'
<1> USE SynchAssumption
    DEF SyIInv, Types, Flags, Holders, Places, Working, Scanning, Targeting, OffList, Go, Awake, Suspended,
         world, locks, locals, marks, history, BeginExit, Stroll
<1>1. Types'
  OBVIOUS
<1>2. Flags'
  BY Zenon DEF Flags
<1>3. Holders'
  OBVIOUS
<1>4. Target'
  BY DEF Target
<1>5. Done'
  BY SMTT(30) DEF Done
<1>6. Halted'
  BY SMTT(30) DEF Halted, Stopped, AtRest, ClientSafe, Left
<1>7. SynchedMeansStopped'
  BY SMTT(30) DEF SynchedMeansStopped, AllStopped, AtRest, ClientSafe, Left, AtLimit, Exiting, Uninit
<1>8. Counts'
  BY SMTT(30) DEF Counts
<1>9. Remembered'
  BY Zenon DEF Remembered, Left
<1> QED
  BY <1>1, <1>2, <1>3, <1>4, <1>5, <1>6, <1>7, <1>8, <1>9, Zenon

\* The list does not change while somebody scans it.
LEMMA RemoveThreadInv ==
  ASSUME NEW u \in Threads, SyIInv, RemoveThread(u)
  PROVE  SyIInv'
<1> USE SynchAssumption
    DEF SyIInv, Types, Flags, Holders, Places, Working, Scanning, Targeting, OffList, Go, Awake, Suspended,
         world, locks, locals, marks, history, RemoveThread
<1>1. Types'
  OBVIOUS
<1>2. Flags'
  BY Zenon DEF Flags
<1>3. Holders'
  OBVIOUS
<1>4. Target'
  BY DEF Target
<1>5. Done'
  BY SMTT(30) DEF Done
<1>6. Halted'
  BY SMTT(30) DEF Halted, Stopped, AtRest, ClientSafe, Left
<1>7. SynchedMeansStopped'
  BY SMTT(30) DEF SynchedMeansStopped, AllStopped, AtRest, ClientSafe, Left, AtLimit, Exiting, Uninit
<1>8. Counts'
  BY SMTT(30) DEF Counts
<1>9. Remembered'
  BY SMTT(30) DEF Remembered, Left
<1> QED
  BY <1>1, <1>2, <1>3, <1>4, <1>5, <1>6, <1>7, <1>8, <1>9, Zenon

\* suspendable is only read when a client thread is visited.
LEMMA SetSuspendableInv ==
  ASSUME NEW u \in Threads, SyIInv, u \in Clients, SetSuspendable(u)
  PROVE  SyIInv'
<1> USE SynchAssumption
    DEF SyIInv, Types, Flags, Holders, Places, Working, Scanning, Targeting, OffList, Go, Awake, Suspended,
         world, locks, locals, marks, history, SetSuspendable
<1>1. Types'
  BY ZenonT(60)
<1>2. Flags'
  BY ZenonT(60) DEF Flags
<1>3. Holders'
  BY Zenon
<1>4. Target'
  BY Zenon DEF Target
<1>5. Done'
  BY Zenon DEF Done
<1>6. Halted'
  BY SMTT(30) DEF Halted, Stopped, AtRest, ClientSafe, Left
<1>7. SynchedMeansStopped'
  BY SMTT(30) DEF SynchedMeansStopped, AllStopped, AtRest, ClientSafe, Left, AtLimit, Exiting, Uninit
<1>8. Counts'
  BY Zenon DEF Counts
<1>9. Remembered'
  BY SMTT(30) DEF Remembered, Left
<1> QED
  BY <1>1, <1>2, <1>3, <1>4, <1>5, <1>6, <1>7, <1>8, <1>9, Zenon

\* A synch starts from nothing.
LEMMA TakeLockInv ==
  ASSUME NEW u \in Threads, SyIInv, TakeAllThreadsSynchLock(u)
  PROVE  SyIInv'
<1> USE SynchAssumption
    DEF SyIInv, Types, Flags, Holders, Places, Working, Scanning, Targeting, OffList, Go, Awake, Suspended,
         world, locks, locals, marks, history, TakeAllThreadsSynchLock
<1>1. Types'
  OBVIOUS
<1>2. Flags'
  BY Zenon DEF Flags
<1>3. Holders'
  OBVIOUS
<1>4. Target'
  BY DEF Target
<1>5. Done'
  BY SMTT(30) DEF Done
<1>6. Halted'
  BY SMTT(30) DEF Halted, Stopped, AtRest, ClientSafe, Left
<1>7. SynchedMeansStopped'
  BY SMTT(30) DEF SynchedMeansStopped, AllStopped, AtRest, ClientSafe, Left, AtLimit, Exiting, Uninit
<1>8. Counts'
  BY SMTT(30) DEF Counts
<1>9. Remembered'
  BY Zenon DEF Remembered, Left
<1> QED
  BY <1>1, <1>2, <1>3, <1>4, <1>5, <1>6, <1>7, <1>8, <1>9, Zenon

\* A new pass has everything still to do.
LEMMA BeginPassInv ==
  ASSUME NEW u \in Threads, SyIInv, BeginPass(u)
  PROVE  SyIInv'
<1> USE SynchAssumption
    DEF SyIInv, Types, Flags, Holders, Places, Working, Scanning, Targeting, OffList, Go, Awake, Suspended,
         world, locks, locals, marks, history, BeginPass
<1>1. Types'
  OBVIOUS
<1>2. Flags'
  BY ZenonT(60) DEF Flags
<1>3. Holders'
  OBVIOUS
<1>4. Target'
  BY DEF Target
<1>5. Done'
  BY SMTT(30) DEF Done
<1>6. Halted'
  BY SMTT(30) DEF Halted, Stopped, AtRest, ClientSafe, Left
<1>7. SynchedMeansStopped'
  BY SMTT(30) DEF SynchedMeansStopped, AllStopped, AtRest, ClientSafe, Left, AtLimit, Exiting, Uninit
<1>8. Counts'
  BY SMTT(30) DEF Counts
<1>9. Remembered'
  BY Zenon DEF Remembered, Left
<1> QED
  BY <1>1, <1>2, <1>3, <1>4, <1>5, <1>6, <1>7, <1>8, <1>9, Zenon

\* A synched thread is passed over; so is a client thread, with all_synched false or a mark.
LEMMA SkipInv ==
  ASSUME NEW u \in Threads, SyIInv, NEW v \in Threads, Skip(u, v)
  PROVE  SyIInv'
<1> USE SynchAssumption
    DEF SyIInv, Types, Flags, Holders, Places, Working, Scanning, Targeting, OffList, Go, Awake, Suspended,
         world, locks, locals, marks, history, Skip
<1>1. Types'
  OBVIOUS
<1>2. Flags'
  BY ZenonT(60) DEF Flags
<1>3. Holders'
  OBVIOUS
<1>4. Target'
  BY DEF Target
<1>5. Done'
  BY SMTT(30) DEF Done
<1>6. Halted'
  BY SMTT(30) DEF Halted, Stopped, AtRest, ClientSafe, Left
<1>7. SynchedMeansStopped'
  BY SMTT(30) DEF SynchedMeansStopped, AllStopped, AtRest, ClientSafe, Left, AtLimit, Exiting, Uninit
<1>8. Counts'
  <2>1. current = Nobody
    BY Zenon DEF Target
  <2>2. CASE UNCHANGED <<synch_array, stranded>>
    BY <2>2, Zenon DEF Counts
  <2>3. CASE /\ synch_array' = [synch_array EXCEPT ![v] = "synched"]
             /\ stranded' = stranded \cup {t \in {v} : synch_array[t] = "notified"}
    BY <2>1, <2>3 DEF Counts
  <2> QED BY <2>2, <2>3, Zenon
<1>9. Remembered'
  <2>1. current = Nobody
    BY Zenon DEF Target
  <2>2. CASE UNCHANGED <<synch_array, left_unsuspended>>
    BY <2>2, Zenon DEF Remembered, Left
  <2>3. CASE /\ synch_array[v] # "synched" /\ v \in Clients
             /\ synch_array' = [synch_array EXCEPT ![v] = "synched"]
             /\ left_unsuspended' = [left_unsuspended EXCEPT ![v] = TRUE]
    <3>1. v \in stale \/ ~Suspended(v)
      BY <2>1, <2>3, Zenon DEF Remembered
    <3>2. \A t \in Clients \ {v} : left_unsuspended'[t] = left_unsuspended[t]
      BY <2>3, SMTT(30)
    <3> QED BY <2>1, <2>3, <3>1, <3>2 DEF Remembered, Left
  <2> QED BY <2>2, <2>3, Zenon
<1> QED
  BY <1>1, <1>2, <1>3, <1>4, <1>5, <1>6, <1>7, <1>8, <1>9, Zenon

\* A notification adds to the count what the array and current say.
LEMMA NotifyInv ==
  ASSUME NEW u \in Threads, SyIInv, NEW v \in Threads, Notify(u, v)
  PROVE  SyIInv'
<1> USE SynchAssumption
    DEF SyIInv, Types, Flags, Holders, Places, Working, Scanning, Targeting, OffList, Go, Awake, Suspended,
         world, locks, locals, marks, history, Notify
<1>1. Types'
  OBVIOUS
<1>2. Flags'
  BY Zenon DEF Flags
<1>3. Holders'
  OBVIOUS
<1>4. Target'
  BY DEF Target
<1>5. Done'
  BY SMTT(30) DEF Done
<1>6. Halted'
  BY SMTT(30) DEF Halted, Stopped, AtRest, ClientSafe, Left
<1>7. SynchedMeansStopped'
  BY SMTT(30) DEF SynchedMeansStopped, AllStopped, AtRest, ClientSafe, Left, AtLimit, Exiting, Uninit
<1>8. Counts'
  <2>1. current = Nobody /\ v \in listed
    BY Zenon DEF Target
  <2>2. v \in stranded \/ pending_synch_count'[v] = 2
    BY <2>1 DEF Counts
  <2>3. \A t \in Threads \ {v} : pending_synch_count'[t] = pending_synch_count[t]
                                /\ synch_array'[t] = synch_array[t]
    OBVIOUS
  <2> QED BY <2>1, <2>2, <2>3 DEF Counts
<1>9. Remembered'
  BY SMTT(30) DEF Remembered, Left
<1> QED
  BY <1>1, <1>2, <1>3, <1>4, <1>5, <1>6, <1>7, <1>8, <1>9, Zenon

\* A suspension that fails counts as success only if failures are ignored.
LEMMA ProbeInv ==
  ASSUME NEW u \in Threads, SyIInv, Probe(u)
  PROVE  SyIInv'
<1> USE SynchAssumption
    DEF SyIInv, Types, Flags, Holders, Places, Working, Scanning, Targeting, OffList, Go, Awake, Suspended,
         world, locks, locals, marks, history, Probe
<1>1. Types'
  OBVIOUS
<1>2. Flags'
  <2>1. suspend_count' \in [Threads -> Nat]
    BY SMTT(30) DEF Flags
  <2> QED BY <2>1, ZenonT(60) DEF Flags
<1>3. Holders'
  <2>1. current \in todo /\ current # u
    BY Zenon DEF Target
  <2>2. suspend_count'[u] = suspend_count[u]
    BY <2>1
  <2> QED BY <2>1, <2>2
<1>4. Target'
  BY DEF Target
<1>5. Done'
  BY SMTT(30) DEF Done
<1>6. Halted'
  <2>1. current \in Threads /\ synch_array[current] = "notified"
    BY DEF Target
  <2>2. \A t \in Threads \ {current} : suspend_count'[t] = suspend_count[t]
    OBVIOUS
  <2>3. \A i \in Threads : place'[i] \in {"judge", "settle"} => i = u
    OBVIOUS
  <2>4. place'[u] = "judge" => Suspended(current)'
    BY <2>1 DEF Flags
  <2>5. place'[u] = "settle" => current \in MayFail /\ (result' = "success" => u \notin Aborting)
    OBVIOUS
  <2> QED BY <2>1, <2>2, <2>3, <2>4, <2>5 DEF Halted, Stopped, AtRest, ClientSafe, Left
<1>7. SynchedMeansStopped'
  BY SMTT(30) DEF SynchedMeansStopped, AllStopped, AtRest, ClientSafe, Left, AtLimit, Exiting, Uninit
<1>8. Counts'
  BY SMTT(30) DEF Counts
<1>9. Remembered'
  <2>1. current \in Threads /\ current \in listed /\ synch_array[current] = "notified"
    BY DEF Target
  <2>2. \A t \in Threads \ {current} : suspend_count'[t] = suspend_count[t]
    OBVIOUS
  <2>3. current \in stale \/ (~Suspended(current) /\ ~Left(current))
    BY <2>1, Zenon DEF Remembered
  <2>4. CASE suspend_count' = [suspend_count EXCEPT ![current] = @ + 1] /\ place'[u] = "judge"
    BY <2>1, <2>2, <2>3, <2>4 DEF Remembered, Left
  <2>5. CASE UNCHANGED suspend_count
    BY <2>1, <2>3, <2>5, ZenonT(60) DEF Remembered, Left
  <2> QED BY <2>4, <2>5
<1> QED
  BY <1>1, <1>2, <1>3, <1>4, <1>5, <1>6, <1>7, <1>8, <1>9, Zenon

\* The target stays suspended if it is at a safe spot, and runs again if not.
LEMMA JudgeInv ==
  ASSUME NEW u \in Threads, SyIInv, Judge(u)
  PROVE  SyIInv'
<1> USE SynchAssumption
    DEF SyIInv, Types, Flags, Holders, Places, Working, Scanning, Targeting, OffList, Go, Awake, Suspended,
         world, locks, locals, marks, history, Judge, Lowered, AtSafeSpot, ClientSafe, SynchPerm, HoldsSynchLock, AtRest
<1>1. Types'
  OBVIOUS
<1>2. Flags'
  <2>1. suspend_count' \in [Threads -> Nat]
    <3>1. current \in Threads
      BY Zenon DEF Target
    <3>2. CASE UNCHANGED suspend_count
      BY <3>2, Zenon DEF Flags
    <3>3. CASE suspend_count' = [suspend_count EXCEPT ![current] = Lowered(current)]
      <4>1. suspend_count \in [Threads -> Nat]
        BY Zenon DEF Flags
      <4> QED BY <3>1, <3>3, <4>1, LowerCount
    <3> QED BY <3>2, <3>3, Zenon
  <2> QED BY <2>1, ZenonT(60) DEF Flags
<1>3. Holders'
  OBVIOUS
<1>4. Target'
  BY DEF Target
<1>5. Done'
  BY SMTT(30) DEF Done
<1>6. Halted'
  <2>1. current \in todo /\ current \in Threads /\ synch_array[current] = "notified"
    BY DEF Target
  <2>2. \A t \in Threads \ {current} : suspend_count'[t] = suspend_count[t]
    OBVIOUS
  <2>3. result' = "success" => Suspended(current)' /\ AtRest(current)'
    <3>1. Suspended(current)
      BY Zenon DEF Halted
    <3> QED BY <2>1, <3>1
  <2> QED BY <2>1, <2>2, <2>3 DEF Halted, Stopped, Left
<1>7. SynchedMeansStopped'
  BY SMTT(30) DEF SynchedMeansStopped, AllStopped, AtRest, ClientSafe, Left, AtLimit, Exiting, Uninit
<1>8. Counts'
  BY SMTT(30) DEF Counts
<1>9. Remembered'
  BY SMTT(30) DEF Remembered, Left
<1> QED
  BY <1>1, <1>2, <1>3, <1>4, <1>5, <1>6, <1>7, <1>8, <1>9, Zenon

\* What is taken back is what the array and current no longer say.
LEMMA SettleInv ==
  ASSUME NEW u \in Threads, SyIInv, Settle(u)
  PROVE  SyIInv'
<1> USE SynchAssumption
    DEF SyIInv, Types, Flags, Holders, Places, Working, Scanning, Targeting, OffList, Go, Awake, Suspended,
         world, locks, locals, marks, history, Settle, TakenBack
<1>0. /\ current \in todo /\ current \in listed /\ current \in Threads /\ current # u
      /\ synch_array[current] = "notified"
  BY DEF Target
<1>1. Types'
  BY <1>0
<1>2. Flags'
  BY ZenonT(60) DEF Flags
<1>3. Holders'
  BY <1>0
<1>4. Target'
  BY DEF Target
<1>5. Done'
  <2>1. \A i \in Threads : place'[i] \in Scanning => i = u
    OBVIOUS
  <2>2. place'[u] # "synched" /\ UNCHANGED listed
    OBVIOUS
  <2>3. all_synched' => \A t \in listed \ {u} : t \in todo' \/ synch_array'[t] = "synched"
    BY <1>0, ZenonT(60) DEF Done
  <2> QED BY <2>1, <2>2, <2>3, Zenon DEF Done
<1>6. Halted'
  BY SMTT(30) DEF Halted, Stopped, AtRest, ClientSafe, Left
<1>7. SynchedMeansStopped'
  BY SMTT(30) DEF SynchedMeansStopped, AllStopped, AtRest, ClientSafe, Left, AtLimit, Exiting, Uninit
<1>8. Counts'
  <2>1. \A t \in Threads \ {current} : pending_synch_count'[t] = pending_synch_count[t]
                                      /\ synch_array'[t] = synch_array[t]
    OBVIOUS
  <2>2. current \in stranded \/ pending_synch_count[current] = 2
    BY <1>0 DEF Counts
  <2>3. CASE result = "success"
    BY <1>0, <2>1, <2>2, <2>3 DEF Counts
  <2>4. CASE result # "success"
    BY <1>0, <2>1, <2>2, <2>4 DEF Counts
  <2> QED BY <2>3, <2>4, Zenon
<1>9. Remembered'
  BY SMTT(30) DEF Remembered, Left
<1> QED
  BY <1>1, <1>2, <1>3, <1>4, <1>5, <1>6, <1>7, <1>8, <1>9, Zenon

\* Between two passes the list may change.
LEMMA NextPassInv ==
  ASSUME NEW u \in Threads, SyIInv, NextPass(u)
  PROVE  SyIInv'
<1> USE SynchAssumption
    DEF SyIInv, Types, Flags, Holders, Places, Working, Scanning, Targeting, OffList, Go, Awake, Suspended,
         world, locks, locals, marks, history, NextPass, NobodyInTransit
<1>1. Types'
  OBVIOUS
<1>2. Flags'
  BY Zenon DEF Flags
<1>3. Holders'
  OBVIOUS
<1>4. Target'
  BY DEF Target
<1>5. Done'
  BY SMTT(30) DEF Done
<1>6. Halted'
  BY SMTT(30) DEF Halted, Stopped, AtRest, ClientSafe, Left
<1>7. SynchedMeansStopped'
  BY SMTT(30) DEF SynchedMeansStopped, AllStopped, AtRest, ClientSafe, Left, AtLimit, Exiting, Uninit
<1>8. Counts'
  BY SMTT(30) DEF Counts
<1>9. Remembered'
  BY Zenon DEF Remembered, Left
<1> QED
  BY <1>1, <1>2, <1>3, <1>4, <1>5, <1>6, <1>7, <1>8, <1>9, Zenon

\* A synch succeeds when the whole list is synched; it may also fail.
LEMMA SynchedInv ==
  ASSUME NEW u \in Threads, SyIInv, Synched(u)
  PROVE  SyIInv'
<1> USE SynchAssumption
    DEF SyIInv, Types, Flags, Holders, Places, Working, Scanning, Targeting, OffList, Go, Awake, Suspended,
         world, locks, locals, marks, history, Synched, NobodyInTransit
<1>1. Types'
  OBVIOUS
<1>2. Flags'
  BY ZenonT(60) DEF Flags
<1>3. Holders'
  OBVIOUS
<1>4. Target'
  BY DEF Target
<1>5. Done'
  BY SMTT(30) DEF Done
<1>6. Halted'
  BY SMTT(30) DEF Halted, Stopped, AtRest, ClientSafe, Left
<1>7. SynchedMeansStopped'
  <2>1. \A i \in Threads : place'[i] = "synched" => i = u
    OBVIOUS
  <2>2. CASE ~all_synched
    BY <2>1, <2>2, Zenon DEF SynchedMeansStopped
  <2>3. CASE all_synched
    <3>1. \A t \in listed \ {u} : synch_array[t] = "synched"
      BY <2>3, Zenon DEF Done
    <3>2. \A t \in listed \ {u} : Left(t) \/ Stopped(t) \/ (t \in MayFail /\ u \notin Aborting)
      BY <3>1 DEF Halted, Stopped, AtRest, ClientSafe
    <3> QED
      BY <2>1, <2>3, <3>2
         DEF Stopped, SynchedMeansStopped, AllStopped, AtRest, ClientSafe, Left, AtLimit, Exiting, Uninit
  <2> QED BY <2>2, <2>3, Zenon DEF Flags
<1>8. Counts'
  BY SMTT(30) DEF Counts
<1>9. Remembered'
  BY Zenon DEF Remembered, Left
<1> QED
  BY <1>1, <1>2, <1>3, <1>4, <1>5, <1>6, <1>7, <1>8, <1>9, Zenon

\* At the loop limit the synch is undone.
LEMMA GiveUpInv ==
  ASSUME NEW u \in Threads, SyIInv, GiveUp(u)
  PROVE  SyIInv'
<1> USE SynchAssumption
    DEF SyIInv, Types, Flags, Holders, Places, Working, Scanning, Targeting, OffList, Go, Awake, Suspended,
         world, locks, locals, marks, history, GiveUp
<1>1. Types'
  OBVIOUS
<1>2. Flags'
  BY Zenon DEF Flags
<1>3. Holders'
  OBVIOUS
<1>4. Target'
  BY DEF Target
<1>5. Done'
  BY ZenonT(60) DEF Done
<1>6. Halted'
  BY SMTT(30) DEF Halted, Stopped, AtRest, ClientSafe, Left
<1>7. SynchedMeansStopped'
  BY SMTT(30) DEF SynchedMeansStopped, AllStopped, AtRest, ClientSafe, Left, AtLimit, Exiting, Uninit
<1>8. Counts'
  BY SMTT(30) DEF Counts
<1>9. Remembered'
  BY Zenon DEF Remembered, Left
<1> QED
  BY <1>1, <1>2, <1>3, <1>4, <1>5, <1>6, <1>7, <1>8, <1>9, Zenon

\* The abort path takes every notification back.
LEMMA AbortInv ==
  ASSUME NEW u \in Threads, SyIInv, Abort(u)
  PROVE  SyIInv'
<1> USE SynchAssumption
    DEF SyIInv, Types, Flags, Holders, Places, Working, Scanning, Targeting, OffList, Go, Awake, Suspended,
         world, locks, locals, marks, history, Abort, Resumed, Lowered, Undone, Dismiss
<1>0. current = Nobody
  BY Zenon DEF Target
<1>1. Types'
  OBVIOUS
<1>2. Flags'
  <2>1. suspend_count' \in [Threads -> Nat]
    BY SMTT(30) DEF Flags
  <2> QED BY <2>1, ZenonT(60) DEF Flags
<1>3. Holders'
  OBVIOUS
<1>4. Target'
  BY DEF Target
<1>5. Done'
  BY SMTT(30) DEF Done
<1>6. Halted'
  BY SMTT(30) DEF Halted, Stopped, AtRest, ClientSafe, Left
<1>7. SynchedMeansStopped'
  BY SMTT(30) DEF SynchedMeansStopped, AllStopped, AtRest, ClientSafe, Left, AtLimit, Exiting, Uninit
<1>8. Counts'
  <2>1. \A t \in Threads \ stranded :
          t \in listed \/ place[t] \in {"none", "starting"} => pending_synch_count'[t] = 0
    BY <1>0, SMTT(30) DEF Counts, Target
  <2> QED BY <1>0, <2>1 DEF Counts
<1>9. Remembered'
  <2>1. \A t \in Threads \ stale' : t \notin stale /\ ~Left(t)
    BY Zenon DEF Left
  <2>2. \A t \in Threads \ stale' : Suspended(t) => suspend_count[t] = 1 /\ Resumed(t)
    BY <1>0, <2>1, ZenonT(60) DEF Remembered
  <2>3. \A t \in Threads \ stale' : ~Suspended(t)'
    BY <2>2
  <2> QED BY <2>1, <2>3, Zenon DEF Remembered, Left
<1> QED
  BY <1>1, <1>2, <1>3, <1>4, <1>5, <1>6, <1>7, <1>8, <1>9, Zenon

\* A thread that has aborted says so while no synch of another succeeds.
LEMMA AbortedInv ==
  ASSUME NEW u \in Threads, SyIInv, Aborted(u)
  PROVE  SyIInv'
<1> USE SynchAssumption
    DEF SyIInv, Types, Flags, Holders, Places, Working, Scanning, Targeting, OffList, Go, Awake, Suspended,
         world, locks, locals, marks, history, Aborted
<1>1. Types'
  OBVIOUS
<1>2. Flags'
  BY ZenonT(60) DEF Flags
<1>3. Holders'
  BY SMTT(30)
<1>4. Target'
  BY SMTT(30) DEF Target
<1>5. Done'
  BY SMTT(30) DEF Done
<1>6. Halted'
  BY SMTT(30) DEF Halted, Stopped, AtRest, ClientSafe, Left
<1>7. SynchedMeansStopped'
  BY SMTT(30) DEF SynchedMeansStopped, AllStopped, AtRest, ClientSafe, Left, AtLimit, Exiting, Uninit
<1>8. Counts'
  BY SMTT(30) DEF Counts
<1>9. Remembered'
  BY Zenon DEF Remembered, Left
<1> QED
  BY <1>1, <1>2, <1>3, <1>4, <1>5, <1>6, <1>7, <1>8, <1>9, Zenon

\* Whoever was suspended runs again; a failed synch strands whom it notified.
LEMMA EndSynchInv ==
  ASSUME NEW u \in Threads, SyIInv, EndSynch(u)
  PROVE  SyIInv'
<1> USE SynchAssumption
    DEF SyIInv, Types, Flags, Holders, Places, Working, Scanning, Targeting, OffList, Go, Awake, Suspended,
         world, locks, locals, marks, history, EndSynch, Lowered, Dismiss
<1>1. Types'
  OBVIOUS
<1>2. Flags'
  <2>1. suspend_count' \in [Threads -> Nat]
    BY SMTT(30) DEF Flags
  <2> QED BY <2>1, ZenonT(60) DEF Flags
<1>3. Holders'
  OBVIOUS
<1>4. Target'
  BY DEF Target
<1>5. Done'
  BY SMTT(30) DEF Done
<1>6. Halted'
  BY SMTT(30) DEF Halted, Stopped, AtRest, ClientSafe, Left
<1>7. SynchedMeansStopped'
  BY SMTT(30) DEF SynchedMeansStopped, AllStopped, AtRest, ClientSafe, Left, AtLimit, Exiting, Uninit
<1>8. Counts'
  <2>1. current = Nobody
    BY Zenon DEF Target
  <2>2. \A t \in Threads \ stranded' : t \notin stranded /\ synch_array[t] # "notified"
    BY Zenon
  <2> QED BY <2>1, <2>2, SMTT(30) DEF Counts
<1>9. Remembered'
  <2>1. current = Nobody /\ ~Suspended(u)
    BY Zenon DEF Target
  <2>2. \A t \in Threads \ stale : Suspended(t) =>
          suspend_count[t] = 1 /\ t \in listed \ {u} /\ ~Left(t)
    BY <2>1, Zenon DEF Remembered
  <2>3. \A t \in Threads \ stale : ~Suspended(t)'
    BY <2>2
  <2>4. \A t \in Threads \ stale' : ~Suspended(t)'
    BY <2>3, Zenon
  <2> QED BY <2>4, Zenon DEF Remembered, Left
<1> QED
  BY <1>1, <1>2, <1>3, <1>4, <1>5, <1>6, <1>7, <1>8, <1>9, Zenon

\* The initial states: nobody is suspended, notified or at work.
LEMMA SyInitInv == SyInit => SyIInv
<1> SUFFICES ASSUME SyInit PROVE SyIInv
  BY Zenon
<1> USE SynchAssumption
    DEF SyInit, Types, Holders, Places, Working, Scanning, Targeting, OffList, Suspended
<1>1. Types
  <2>1. listed = {u \in Threads : place[u] \notin OffList}
    BY Zenon
  <2>2. \A u \in Threads : u \in Clients <=> place[u] \in {"lib", "lib_locked"}
    BY Zenon
  <2>3. place \in [Threads -> Places] /\ home \in [Threads -> {"cache", "spin"}]
    BY Zenon
  <2>4. /\ pending_synch_count \in [Threads -> Int]
        /\ synch_array \in [Threads -> {"new", "notified", "synched"}]
    OBVIOUS
  <2> QED BY <2>1, <2>2, <2>3, <2>4, Zenon
<1>5. Flags
  BY ZenonT(60) DEF Flags
<1>2. Holders /\ Target /\ Done
  BY Zenon DEF Target, Done
<1>3. Halted /\ SynchedMeansStopped
  BY Zenon DEF Halted, SynchedMeansStopped
<1>4. Counts /\ Remembered
  BY DEF Counts, Remembered, Left
<1> QED
  BY <1>1, <1>2, <1>3, <1>4, <1>5, Zenon DEF SyIInv

\* Every step preserves the invariant.
LEMMA SyNextInv == SyIInv /\ [SyNext]_syvars => SyIInv'
<1> SUFFICES ASSUME SyIInv, [SyNext]_syvars PROVE SyIInv'
  BY Zenon
<1>1. CASE UNCHANGED syvars
  <2> USE <1>1 DEF syvars, world, locks, locals, marks, history, Suspended, SyIInv
  <2>1. Types' /\ Flags' /\ Holders' /\ Target'
    BY ZenonT(60) DEF Types, Flags, Holders, Target
  <2>2. Done' /\ Counts' /\ Remembered'
    BY ZenonT(60) DEF Done, Counts, Remembered, Left
  <2>3. Halted'
    BY Zenon DEF Halted, Stopped, AtRest, ClientSafe, Left
  <2>4. SynchedMeansStopped'
    BY Zenon DEF SynchedMeansStopped, AllStopped, AtRest, ClientSafe, Left, AtLimit, Exiting, Uninit
  <2> QED
    BY <2>1, <2>2, <2>3, <2>4, Zenon
<1>2. ASSUME NEW u \in Threads,
             \/ EnterDr(u) \/ ThreadStart(u) \/ BeginExit(u) \/ BeginSynch(u)
             \/ ClientLock(u) \/ (u \in Clients /\ SetSuspendable(u))
      PROVE  SyIInv'
  BY <1>2, StrollInv, ThreadStartInv, BeginExitInv, SetSuspendableInv, Zenon
     DEF EnterDr, BeginSynch, ClientLock, Quiet
<1>3. ASSUME NEW u \in Threads, Goes(u)
      PROVE  SyIInv'
  <2>1. CASE Wait(u) \/ WaitDone(u) \/ Proceed(u) \/ EndExit(u) \/ ClientUnlock(u)
    <3>1. home[u] \in {"cache", "spin"}
      BY Zenon DEF SyIInv, Types
    <3> QED BY <2>1, <3>1, StrollInv, Zenon DEF Wait, WaitDone, Proceed, EndExit, ClientUnlock, Quiet
  <2>2. CASE EnterCache(u) \/ Spin(u)
    BY <2>2, CheckWaitInv, Zenon DEF EnterCache, Spin
  <2>3. CASE todo # {} /\ (Skip(u, NextOnList) \/ Notify(u, NextOnList))
    <3>1. NextOnList \in Threads
      BY <2>3, Zenon DEF NextOnList, SyIInv, Types
    <3> QED BY <2>3, <3>1, SkipInv, NotifyInv, Zenon
  <2>4. CASE AddThread(u) \/ RemoveThread(u) \/ TakeAllThreadsSynchLock(u) \/ BeginPass(u)
    BY <2>4, AddThreadInv, RemoveThreadInv, TakeLockInv, BeginPassInv, Zenon
  <2>5. CASE Probe(u) \/ Judge(u) \/ Settle(u) \/ NextPass(u)
    BY <2>5, ProbeInv, JudgeInv, SettleInv, NextPassInv, Zenon
  <2>6. CASE Synched(u) \/ GiveUp(u) \/ Abort(u) \/ Aborted(u) \/ EndSynch(u)
    BY <2>6, SynchedInv, GiveUpInv, AbortInv, AbortedInv, EndSynchInv, Zenon
  <2> QED
    BY <1>3, <2>1, <2>2, <2>3, <2>4, <2>5, <2>6, Zenon DEF Goes
<1> QED
  BY <1>1, <1>2, <1>3, Zenon DEF SyNext

-----------------------------------------------------------------------------
\* The inductive invariant of synch_with_all_threads holds, for any threads.
THEOREM SyInvariance == SySafety => []SyIInv
  BY SyInitInv, SyNextInv, PTL DEF SySafety

\* When synch_with_all_threads succeeds every other thread on the list is at
\* rest, however many threads there are and whatever client threads do.
THEOREM SynchStops == SySafety => []SynchedMeansStopped
<1>1. SyIInv => SynchedMeansStopped
  BY Zenon DEF SyIInv
<1> QED
  BY <1>1, SyInvariance, PTL

\* The abort path and end_synch_with_all_threads resume whomever the synch has
\* suspended, however many threads there are, whenever client threads call
\* dr_client_thread_set_suspendable and whichever suspensions fail: only a
\* left_unsuspended that an aborted synch did not reset leaves a thread behind.
THEOREM SynchResumes == SySafety => []NobodyLeftSuspended
<1>1. SyIInv => NobodyLeftSuspended
  BY SynchAssumption, Zenon DEF SyIInv, Types, Holders, Target, Remembered, NobodyLeftSuspended,
     Targeting, Working, Scanning
<1> QED
  BY <1>1, SyInvariance, PTL

\* Every notification is taken back, but for the two ways to lose one: the
\* client thread is passed over later, or the loop ends before the thread is
\* synched and the initiator does not abort.
THEOREM SynchTakesBack == SySafety => []NobodyLeftNotified
<1>1. SyIInv => NobodyLeftNotified
  BY SynchAssumption DEF SyIInv, Types, Holders, Target, Counts, NobodyLeftNotified,
     Targeting, Working, Scanning
<1> QED
  BY <1>1, SyInvariance, PTL
=============================================================================
