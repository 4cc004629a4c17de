-------------------------- MODULE Primitives_proof --------------------------
(***************************************************************************)
(* The mutex, the two locks built on it, the event and the suspension of a *)
(* thread, for any threads.                                                *)
(*                                                                         *)
(* Mutex: mutual exclusion, no lost wake-up and the refinement of Lock.    *)
(* The inductive invariant is the conjunction of the four facts Mutex      *)
(* states: that the word is free exactly when nobody owns the mutex is     *)
(* what carries mutual exclusion through the contended path.               *)
(*                                                                         *)
(* Read-write lock, for a finite set of threads, on top of the invariant   *)
(* of the mutex it contains.  The strengthening: a thread from the end of  *)
(* its drain loop to its unlock holds the mutex, and from the end of the   *)
(* drain loop no other thread is a reader.  num_readers counts exactly, so *)
(* a zero means that no thread is reading.                                 *)
(*                                                                         *)
(* Recursive lock: the owner field, which every thread reads without the   *)
(* mutex.  The strengthening says where in its calls a thread must hold    *)
(* the mutex, so that only one thread at a time may write the field.       *)
(*                                                                         *)
(* Event, on top of the abstract lock: a signal lets one waiter through    *)
(* and is not slept through.  The strengthening says where in its calls a  *)
(* thread holds the event's lock, so that no two threads change the word   *)
(* at once: between the store of a signaller and its wake nobody consumes  *)
(* the event and nobody else is about to wake.                             *)
(*                                                                         *)
(* Suspend protocol, for any finite number of controllers.  The inductive  *)
(* invariant ties the target's position to the controllers':               *)
(* suspend_count is the number of controllers that asked for a suspension, *)
(* so a first suspender finds the target running and the last resumer      *)
(* finds nobody else relying on it.                                        *)
(***************************************************************************)
EXTENDS RwLock, RecursiveLock, Event, Suspend, TLAPS, FiniteSetTheorems

Inv == TypeOK /\ MutualExclusion /\ FreeIffUnowned /\ NoLostWakeup

\* A new mutex is free.
LEMMA InitInv == Init => Inv
BY SMTT(30) DEF Init, Inv, TypeOK, MutualExclusion, FreeIffUnowned, NoLostWakeup, Owner,
       PC, LOCK_FREE_STATE

\* Every step of d_r_mutex_lock, trylock and unlock keeps the invariant.
LEMMA NextInv == Inv /\ [Next]_vars => Inv'
<1> USE DEF Inv, TypeOK, MutualExclusion, FreeIffUnowned, NoLostWakeup, Owner,
            PC, LOCK_FREE_STATE, LOCK_SET_STATE, LOCK_CONTENDED_STATE, Goto
<1> SUFFICES ASSUME Inv, [Next]_vars PROVE Inv'
  BY Zenon
<1>1. CASE UNCHANGED vars
  BY <1>1, Zenon DEF vars
<1>2. ASSUME NEW t \in Threads, MutexLock(t) PROVE Inv'
  BY <1>2, Zenon DEF MutexLock
<1>3. ASSUME NEW t \in Threads, Trylock(t) PROVE Inv'
  BY <1>3 DEF Trylock, CompareExchange
<1>4. ASSUME NEW t \in Threads, Interrupted(t) PROVE Inv'
  BY <1>4, Zenon DEF Interrupted
<1>5. ASSUME NEW t \in Threads, Unlock(t) PROVE Inv'
  BY <1>5 DEF Unlock
<1>6. ASSUME NEW t \in Threads, TryFirst(t) PROVE Inv'
  BY <1>6 DEF TryFirst, CompareExchange
<1>8. ASSUME NEW t \in Threads, LockRequest(t) PROVE Inv'
  BY <1>8 DEF LockRequest
<1>9. ASSUME NEW t \in Threads, Contend(t) PROVE Inv'
  BY <1>9 DEF Contend
<1>10. ASSUME NEW t \in Threads, FutexWait(t) PROVE Inv'
  BY <1>10 DEF FutexWait
<1>11. ASSUME NEW t \in Threads, NotifyStore(t) PROVE Inv'
  BY <1>11 DEF NotifyStore
<1>12. ASSUME NEW t \in Threads, NotifyWake(t) PROVE Inv'
  BY <1>12 DEF NotifyWake
<1> QED
  BY <1>1, <1>2, <1>3, <1>4, <1>5, <1>6, <1>8, <1>9, <1>10, <1>11, <1>12, Zenon
     DEF Next, Step

\* The four facts hold of mutex_lock, mutex_trylock and mutex_unlock by any
\* number of threads.
THEOREM Invariance == Spec => []Inv
<1>1. Init => Inv
  BY InitInv, Zenon
<1>2. Inv /\ [Next]_vars => Inv'
  BY NextInv, Zenon
<1> QED
  BY <1>1, <1>2, PTL DEF Spec

\* d_r_mutex_lock excludes: for any number of threads, two of them never own
\* the mutex at once.
THEOREM MutexExcludes == Spec => []MutualExclusion
<1>1. Inv => MutualExclusion
  BY Zenon DEF Inv
<1> QED
  BY <1>1, Invariance, PTL

\* mutex_testlock is exact: the word reads free exactly while unowned.
THEOREM MutexWordExact == Spec => []FreeIffUnowned
<1>1. Inv => FreeIffUnowned
  BY Zenon DEF Inv
<1> QED
  BY <1>1, Invariance, PTL

\* mutex_wait_contended_lock never sleeps with nobody left to wake it.
THEOREM MutexNoLostWakeup == Spec => []NoLostWakeup
<1>1. Inv => NoLostWakeup
  BY Zenon DEF Inv
<1> QED
  BY <1>1, Invariance, PTL

-----------------------------------------------------------------------------
\* A new mutex is a free lock.
LEMMA InitRefines == Init => L!LockInit
BY Zenon DEF Init, L!LockInit, Phase, Owner

\* The lock is free at the abstract level exactly when the word says so.
LEMMA FreeMapped == Inv => (L!Free <=> lock_requests = LOCK_FREE_STATE)
BY Zenon DEF Inv, FreeIffUnowned, L!Free, Phase, Owner, TypeOK, PC

\* Every step is a step of Lock or leaves the phases alone.
LEMMA NextRefines == Inv /\ Inv' /\ [Next]_vars => [L!LockNext]_[t \in Threads |-> Phase(t)]
<1> DEFINE ph == [t \in Threads |-> Phase(t)]
<1> SUFFICES ASSUME Inv, Inv', [Next]_vars PROVE L!LockNext \/ ph' = ph
  BY Zenon
<1> USE DEF Inv, TypeOK, PC, Phase, Owner, Goto
<1>1. CASE UNCHANGED vars
  BY <1>1, Zenon DEF vars
<1>2. ASSUME NEW t \in Threads, MutexLock(t) PROVE L!LockNext
  <2>1. L!Request(t)
    BY <1>2, Zenon DEF MutexLock, L!Request
  <2> QED BY <2>1, Zenon DEF L!LockNext
<1>3. ASSUME NEW t \in Threads, pc[t] \in {"idle", "try", "request", "contend"},
             lock_requests = LOCK_FREE_STATE, Goto(t, "holding")
      PROVE  L!LockNext
  <2>1. L!Free
    BY <1>3, FreeMapped, Zenon
  <2>2. L!Acquire(t)
    BY <1>3, <2>1, Zenon DEF L!Acquire
  <2> QED BY <2>2, Zenon DEF L!LockNext
<1>4. ASSUME NEW t \in Threads, Trylock(t) PROVE L!LockNext \/ ph' = ph
  <2>1. CASE lock_requests = LOCK_FREE_STATE
    BY <1>3, <1>4, <2>1, Zenon DEF Trylock, CompareExchange
  <2>2. CASE lock_requests # LOCK_FREE_STATE
    BY <1>4, <2>2, Zenon DEF Trylock, CompareExchange
  <2> QED BY <2>1, <2>2, Zenon
<1>5. ASSUME NEW t \in Threads, Interrupted(t) \/ FutexWait(t)
      PROVE  ph' = ph
  BY <1>5, Zenon DEF Interrupted, FutexWait
<1>6. ASSUME NEW t \in Threads, Unlock(t) PROVE L!LockNext \/ ph' = ph
  <2>1. CASE lock_requests = LOCK_SET_STATE
    <3>1. L!Release(t)
      BY <1>6, <2>1, Zenon DEF Unlock, L!Release
    <3> QED BY <3>1, Zenon DEF L!LockNext
  <2>2. CASE lock_requests # LOCK_SET_STATE
    BY <1>6, <2>2, Zenon DEF Unlock
  <2> QED BY <2>1, <2>2, Zenon
<1>7. ASSUME NEW t \in Threads, TryFirst(t) PROVE L!LockNext \/ ph' = ph
  <2>1. CASE lock_requests = LOCK_FREE_STATE
    BY <1>3, <1>7, <2>1, Zenon DEF TryFirst, CompareExchange
  <2>2. CASE lock_requests # LOCK_FREE_STATE
    BY <1>7, <2>2, Zenon DEF TryFirst, CompareExchange
  <2> QED BY <2>1, <2>2, Zenon
<1>8. ASSUME NEW t \in Threads, LockRequest(t) \/ Contend(t)
      PROVE  L!LockNext \/ ph' = ph
  <2>1. CASE lock_requests = LOCK_FREE_STATE
    BY <1>3, <1>8, <2>1, Zenon DEF LockRequest, Contend
  <2>2. CASE lock_requests # LOCK_FREE_STATE
    BY <1>8, <2>2, Zenon DEF LockRequest, Contend
  <2> QED BY <2>1, <2>2, Zenon
<1>9. ASSUME NEW t \in Threads, NotifyStore(t) PROVE L!LockNext
  <2>1. L!Release(t)
    BY <1>9, Zenon DEF NotifyStore, L!Release
  <2> QED BY <2>1, Zenon DEF L!LockNext
<1>10. ASSUME NEW t \in Threads, NotifyWake(t) PROVE ph' = ph
  BY <1>10, Zenon DEF NotifyWake
<1> QED
  BY <1>1, <1>2, <1>4, <1>5, <1>6, <1>7, <1>8, <1>9, <1>10, Zenon DEF Next, Step

\* The futex-based mutex implements the abstract lock, for any number of
\* threads and any -spinlock_count.
THEOREM MutexImplementsLock == Spec => ImplementsLock
<1>1. Init => L!LockInit
  BY InitRefines, Zenon
<1>2. Inv /\ Inv' /\ [Next]_vars => [L!LockNext]_[t \in Threads |-> Phase(t)]
  BY NextRefines, Zenon
<1> QED
  BY <1>1, <1>2, Invariance, PTL DEF Spec, ImplementsLock, L!LockSpec
-----------------------------------------------------------------------------
\* Every step of the read-write lock is a step of its mutex or leaves it alone.
LEMMA RwStepsMutex == RwNext => [Next]_vars
BY Zenon DEF RwNext, RwStep, ReadLock, WriterReads, WriteLock, WriteTrylock, WriteUnlock,
       RwInterrupted, ReadTest, ReadInc, ReadRecheck, ReadUndo, ReadUnlock, RwMutexStep,
       Drained, TrylockCheck, SetWriter, RwUnlock, Next, vars

\* From the drain loop's end to the unlock the writer holds the mutex.
HoldsMutex ==
  \A t \in Threads :
    rw[t] \in {"tried", "own", "writing", "both", "unlock", "downgrade"} => pc[t] = "holding"

\* Once a writer has seen zero readers nobody else gets to read.
NoReaders ==
  \A t, u \in Threads :
    t # u /\ rw[t] \in {"own", "writing", "both"} => rw[u] # "reading"

RwTypeOK == rw \in [Threads -> RW]

RwInv == Inv /\ RwTypeOK /\ HoldsMutex /\ NoReaders /\ ReadersCounted

\* The readers can be counted.
LEMMA CountedFinite == IsFiniteSet(Counted) /\ Cardinality(Counted) \in Nat
<1>1. Counted \subseteq Threads
  BY Zenon DEF Counted
<1>2. IsFiniteSet(Counted)
  BY <1>1, ThreadsFinite, FS_Subset, Zenon
<1> QED
  BY <1>2, FS_CardinalityType, Zenon

\* num_readers is zero only if nobody is reading.
LEMMA CountedZero == Cardinality(Counted) = 0 => Counted = {}
BY CountedFinite, FS_EmptySet, Zenon

\* A thread that starts to be counted, or stops, changes the cardinality by one.
LEMMA CountUp ==
  ASSUME NEW t \in Threads, t \notin Counted, Counted' = Counted \cup {t}
  PROVE  Cardinality(Counted') = Cardinality(Counted) + 1
BY CountedFinite, FS_AddElement, Zenon

\* A reader that leaves counts one less.
LEMMA CountDown ==
  ASSUME NEW t \in Threads, t \in Counted, Counted' = Counted \ {t}
  PROVE  Cardinality(Counted') = Cardinality(Counted) - 1
BY CountedFinite, FS_RemoveElement, Zenon

\* A mutex step takes the mutex away from nobody.
LEMMA StepKeepsHolders ==
  ASSUME NEW t \in Threads, TypeOK, Step(t) \/ Interrupted(t) \/ MutexLock(t) \/ Trylock(t)
  PROVE  \A u \in Threads : pc[u] = "holding" => pc'[u] = "holding"
BY Zenon DEF Step, Interrupted, MutexLock, Trylock, TryFirst, CompareExchange, LockRequest, Contend,
       FutexWait, NotifyStore, NotifyWake, Goto, TypeOK

\* A new read/write lock has no users ...
LEMMA RwInitInv == Init /\ RwInit => RwInv
<1> SUFFICES ASSUME Init, RwInit PROVE RwInv
  BY Zenon
<1>1. Inv
  BY InitInv, Zenon
<1>2. RwTypeOK /\ HoldsMutex /\ NoReaders
  BY Zenon DEF RwInit, RwTypeOK, HoldsMutex, NoReaders, RW
<1>3. Counted = {}
  BY Zenon DEF RwInit, Counted
<1>4. ReadersCounted
  BY <1>3, FS_EmptySet, Zenon DEF RwInit, ReadersCounted
<1> QED
  BY <1>1, <1>2, <1>4, Zenon DEF RwInv

\* The calls that do not touch the counter keep it exact.
LEMMA CountSame ==
  ASSUME ReadersCounted, num_readers' = num_readers, Counted' = Counted
  PROVE  ReadersCounted'
BY Zenon DEF ReadersCounted

\* ... and each of its operations keeps readers and writers apart.
LEMMA RwNextInv == RwInv /\ [RwNext]_<<vars, rwvars>> => RwInv'
<1> SUFFICES ASSUME RwInv, [RwNext]_<<vars, rwvars>> PROVE RwInv'
  BY Zenon
<1> USE DEF RwInv
<1>a. Inv'
  <2>1. [Next]_vars
    BY RwStepsMutex, Zenon DEF vars
  <2> QED BY <2>1, NextInv, Zenon
<1>b. TypeOK /\ MutualExclusion /\ FreeIffUnowned
  BY Zenon DEF Inv
<1> USE <1>a, <1>b DEF RwTypeOK, RW, RwGoto
<1>1. CASE UNCHANGED <<vars, rwvars>>
  <2>1. Counted' = Counted
    BY <1>1, Zenon DEF Counted, rwvars
  <2> QED BY <1>1, <2>1, CountSame, Zenon DEF HoldsMutex, NoReaders, vars, rwvars
<1>2. ASSUME NEW t \in Threads, ReadLock(t) \/ ReadTest(t) \/ ReadRecheck(t) PROVE RwInv'
  <2>1. Counted' = Counted
    BY <1>2, Zenon DEF ReadLock, ReadTest, ReadRecheck, Counted
  <2>2. ReadersCounted'
    BY <1>2, <2>1, CountSame, Zenon DEF ReadLock, ReadTest, ReadRecheck
  <2>3. RwTypeOK' /\ HoldsMutex'
    BY <1>2, Zenon DEF ReadLock, ReadTest, ReadRecheck, HoldsMutex, vars
  <2>4. NoReaders'
    BY <1>2 DEF ReadLock, ReadTest, ReadRecheck, HoldsMutex, NoReaders, FreeIffUnowned, Owner
  <2> QED BY <2>2, <2>3, <2>4, Zenon
<1>3. ASSUME NEW t \in Threads, WriterReads(t) \/ ReadInc(t) PROVE RwInv'
  <2>1. t \notin Counted /\ Counted' = Counted \cup {t}
    BY <1>3, Zenon DEF WriterReads, ReadInc, Counted
  <2>2. ReadersCounted'
    BY <1>3, <2>1, CountUp, Zenon DEF WriterReads, ReadInc, ReadersCounted
  <2>3. RwTypeOK' /\ HoldsMutex' /\ NoReaders'
    BY <1>3 DEF WriterReads, ReadInc, HoldsMutex, NoReaders, vars
  <2> QED BY <2>2, <2>3, Zenon
<1>4. ASSUME NEW t \in Threads, ReadUndo(t) \/ ReadUnlock(t) PROVE RwInv'
  <2>1. t \in Counted /\ Counted' = Counted \ {t}
    BY <1>4, Zenon DEF ReadUndo, ReadUnlock, Counted
  <2>2. ReadersCounted'
    BY <1>4, <2>1, CountDown, Zenon DEF ReadUndo, ReadUnlock, ReadersCounted
  <2>3. RwTypeOK' /\ HoldsMutex' /\ NoReaders'
    BY <1>4 DEF ReadUndo, ReadUnlock, HoldsMutex, NoReaders, vars
  <2> QED BY <2>2, <2>3, Zenon
<1>5. ASSUME NEW t \in Threads, WriteLock(t) \/ WriteTrylock(t) \/ RwInterrupted(t) \/ RwMutexStep(t)
      PROVE  RwInv'
  <2>1. Counted' = Counted
    BY <1>5, Zenon DEF WriteLock, WriteTrylock, RwInterrupted, RwMutexStep, Counted, rwvars
  <2>2. ReadersCounted'
    BY <1>5, <2>1, CountSame, Zenon DEF WriteLock, WriteTrylock, RwInterrupted, RwMutexStep, rwvars
  <2>3. \A u \in Threads : pc[u] = "holding" => pc'[u] = "holding"
    BY <1>5, StepKeepsHolders, Zenon DEF WriteLock, WriteTrylock, RwInterrupted, RwMutexStep
  <2>4. RwTypeOK' /\ HoldsMutex' /\ NoReaders'
    BY <1>5, <2>3
       DEF WriteLock, WriteTrylock, RwInterrupted, RwMutexStep, HoldsMutex, NoReaders, rwvars
  <2> QED BY <2>2, <2>4, Zenon
<1>6. ASSUME NEW t \in Threads, Drained(t) \/ TrylockCheck(t) PROVE RwInv'
  <2>1. Counted' = Counted
    BY <1>6, Zenon DEF Drained, TrylockCheck, Counted
  <2>2. ReadersCounted'
    BY <1>6, <2>1, CountSame, Zenon DEF Drained, TrylockCheck
  <2>3. rw'[t] = "own" => \A u \in Threads : rw[u] # "reading"
    BY <1>6, CountedZero, Zenon DEF Drained, TrylockCheck, ReadersCounted, Counted
  <2>4. RwTypeOK' /\ HoldsMutex' /\ NoReaders'
    BY <1>6, <2>3 DEF Drained, TrylockCheck, HoldsMutex, NoReaders, vars
  <2> QED BY <2>2, <2>4, Zenon
<1>7. ASSUME NEW t \in Threads, SetWriter(t) \/ WriteUnlock(t) PROVE RwInv'
  <2>1. Counted' = Counted
    BY <1>7, Zenon DEF SetWriter, WriteUnlock, Counted
  <2>2. ReadersCounted'
    BY <1>7, <2>1, CountSame, Zenon DEF SetWriter, WriteUnlock
  <2>3. RwTypeOK' /\ HoldsMutex' /\ NoReaders'
    BY <1>7 DEF SetWriter, WriteUnlock, HoldsMutex, NoReaders, vars
  <2> QED BY <2>2, <2>3, Zenon
<1>8. ASSUME NEW t \in Threads, RwUnlock(t) PROVE RwInv'
  <2>1. Counted' = Counted
    BY <1>8, Zenon DEF RwUnlock, Counted
  <2>2. ReadersCounted'
    BY <1>8, <2>1, CountSame, Zenon DEF RwUnlock
  <2>3. \A u \in Threads \ {t} : pc[u] # "holding" /\ pc'[u] = pc[u]
    BY <1>8, Zenon DEF RwUnlock, Unlock, Goto, MutualExclusion, Owner, TypeOK
  <2>4. RwTypeOK' /\ HoldsMutex' /\ NoReaders'
    BY <1>8, <2>3, Zenon DEF RwUnlock, HoldsMutex, NoReaders
  <2> QED BY <2>2, <2>4, Zenon
<1> QED
  BY <1>1, <1>2, <1>3, <1>4, <1>5, <1>6, <1>7, <1>8, Zenon DEF RwNext, RwStep

\* The invariant of the read/write lock and of the mutex inside it holds in
\* every interleaving of readers and writers.
THEOREM RwInvariance == RwSpec => []RwInv
<1>1. Init /\ RwInit => RwInv
  BY RwInitInv, Zenon
<1>2. RwInv /\ [RwNext]_<<vars, rwvars>> => RwInv'
  BY RwNextInv, Zenon
<1> QED
  BY <1>1, <1>2, PTL DEF RwSpec

\* d_r_write_lock and d_r_write_trylock exclude readers and other writers, for
\* any finite number of threads.
THEOREM RwExcludes == RwSpec => []WriterAlone
<1>1. RwInv => WriterAlone
  BY Zenon DEF RwInv, Inv, WriterAlone, Writing, HoldsMutex, NoReaders, MutualExclusion, Owner
<1> QED
  BY <1>1, RwInvariance, PTL

\* num_readers never drifts from the number of readers.
THEOREM RwCounts == RwSpec => []ReadersCounted
<1>1. RwInv => ReadersCounted
  BY Zenon DEF RwInv
<1> QED
  BY <1>1, RwInvariance, PTL
-----------------------------------------------------------------------------
\* Every step of the recursive lock is a step of its mutex or leaves it alone.
LEMMA RecStepsMutex == RecNext => [Next]_vars
BY Zenon DEF RecNext, RecStep, AcquireAgain, AcquireRecursive, TryRecursive, RecInterrupted,
       ReleaseRecursive, RecMutexStep, OwnRecursive, RecUnlock, Next, vars

RecTypeOK ==
  /\ rec \in [Threads -> {"out", "acquire", "unlock"}]
  /\ nested \in [Threads -> Nat]
  /\ count \in Int

\* A thread with acquisitions to give back is outside the two windows in which
\* it holds the mutex and is not the recorded owner.
OwnerHolds ==
  \A t \in Threads :
    /\ nested[t] > 0 => rec[t] = "out" /\ pc[t] = "holding"
    /\ rec[t] = "unlock" => pc[t] = "holding"

RecInv == Inv /\ RecTypeOK /\ OwnerHolds /\ RecursiveOwnership

\* A new recursive lock has no owner.
LEMMA RecInitInv == Init /\ RecInit => RecInv
<1> SUFFICES ASSUME Init, RecInit PROVE RecInv
  BY Zenon
<1>1. Inv
  BY InitInv, Zenon
<1>2. RecTypeOK /\ OwnerHolds /\ RecursiveOwnership
  BY InvalidAssumption, SMTT(30) DEF RecInit, RecTypeOK, OwnerHolds, RecursiveOwnership
<1> QED
  BY <1>1, <1>2, Zenon DEF RecInv

\* One step per operation of recursive_lock_t.
LEMMA RecNextInv == RecInv /\ [RecNext]_<<vars, recvars>> => RecInv'
<1> SUFFICES ASSUME RecInv, [RecNext]_<<vars, recvars>> PROVE RecInv'
  BY Zenon
<1> USE DEF RecInv
<1>a. Inv'
  <2>1. [Next]_vars
    BY RecStepsMutex, Zenon DEF vars
  <2> QED BY <2>1, NextInv, Zenon
<1>b. TypeOK /\ MutualExclusion
  BY Zenon DEF Inv
<1> USE <1>a, <1>b DEF RecTypeOK, OwnerHolds, RecursiveOwnership, Owner
<1>1. CASE UNCHANGED <<vars, recvars>>
  BY <1>1, Zenon DEF vars, recvars
<1>2. ASSUME NEW t \in Threads, AcquireAgain(t) PROVE RecInv'
  BY <1>2 DEF AcquireAgain, vars
<1>3. ASSUME NEW t \in Threads,
             AcquireRecursive(t) \/ TryRecursive(t) \/ RecInterrupted(t) \/ RecMutexStep(t)
      PROVE  RecInv'
  <2>1. \A u \in Threads : pc[u] = "holding" => pc'[u] = "holding"
    BY <1>3, StepKeepsHolders, Zenon DEF AcquireRecursive, TryRecursive, RecInterrupted, RecMutexStep
  <2>2. RecTypeOK' /\ OwnerHolds' /\ RecursiveOwnership'
    BY <1>3, <2>1, Zenon DEF AcquireRecursive, TryRecursive, RecInterrupted, RecMutexStep, recvars
  <2> QED BY <2>2, Zenon
<1>4. ASSUME NEW t \in Threads, OwnRecursive(t) PROVE RecInv'
  <2>1. \A u \in Threads \ {t} : pc[u] # "holding" /\ nested[u] = 0
    BY <1>4 DEF OwnRecursive, MutualExclusion
  <2> QED BY <1>4, <2>1 DEF OwnRecursive, vars
<1>5. ASSUME NEW t \in Threads, ReleaseRecursive(t) PROVE RecInv'
  <2>1. \A u \in Threads \ {t} : nested[u] = 0 /\ owner = t
    BY <1>5 DEF ReleaseRecursive
  <2> QED BY <1>5, <2>1, InvalidAssumption DEF ReleaseRecursive, vars
<1>6. ASSUME NEW t \in Threads, RecUnlock(t) PROVE RecInv'
  <2>1. \A u \in Threads \ {t} : pc[u] # "holding" /\ pc'[u] = pc[u]
    BY <1>6, Zenon DEF RecUnlock, Unlock, Goto, MutualExclusion, TypeOK
  <2> QED BY <1>6, <2>1, Zenon DEF RecUnlock
<1> QED
  BY <1>1, <1>2, <1>3, <1>4, <1>5, <1>6, Zenon DEF RecNext, RecStep

\* recursive_lock_t keeps its books: for any number of threads the recorded
\* owner, who alone is told that it owns the lock, holds the mutex and the
\* count is what it still has to give back.
THEOREM RecursiveOwned == RecSpec => []RecursiveOwnership
<1>1. Init /\ RecInit => RecInv
  BY RecInitInv, Zenon
<1>2. RecInv /\ [RecNext]_<<vars, recvars>> => RecInv'
  BY RecNextInv, Zenon
<1>3. RecInv => RecursiveOwnership
  BY Zenon DEF RecInv
<1> QED
  BY <1>1, <1>2, <1>3, PTL DEF RecSpec

-----------------------------------------------------------------------------

EvTypeOK ==
  /\ phase \in [Clients -> {"idle", "trying", "holding"}]
  /\ signaled \in {0, 1}
  /\ broadcast \in BOOLEAN
  /\ ev \in [Clients -> {"out", "signal", "wake", "unlock", "reset", "check", "wait",
                         "take", "beaten", "asleep"}]
  /\ credit \in Int

\* The event's lock excludes, and every step that changes the word has it.
EvHolds ==
  /\ \A t, u \in Clients : phase[t] = "holding" /\ phase[u] = "holding" => t = u
  /\ \A t \in Clients : ev[t] \in {"wake", "unlock", "beaten"} => phase[t] = "holding"

EvInv == EvTypeOK /\ EvHolds /\ OneWaiterPerSignal /\ SignalNotMissed

\* A new event is not signaled.
LEMMA EvInitInv == EvInit => EvInv
BY SMTT(30) DEF EvInit, LockInit, EvInv, EvTypeOK, EvHolds, OneWaiterPerSignal, SignalNotMissed,
       Sleepers

\* One step per operation of event_t.
LEMMA EvNextInv == EvInv /\ [EvNext]_<<phase, evvars>> => EvInv'
<1> USE DEF EvInv, EvTypeOK, EvHolds, OneWaiterPerSignal, SignalNotMissed, Sleepers, EvGoto
<1> SUFFICES ASSUME EvInv, [EvNext]_<<phase, evvars>> PROVE EvInv'
  BY Zenon
<1>1. CASE UNCHANGED <<phase, evvars>>
  BY <1>1, Zenon DEF evvars
<1>2. ASSUME NEW t \in Clients, SignalEvent(t) \/ ResetEvent(t) PROVE EvInv'
  BY <1>2 DEF SignalEvent, ResetEvent, Request
<1>3. ASSUME NEW t \in Clients, SetSignaled(t) PROVE EvInv'
  BY <1>3 DEF SetSignaled
<1>4. ASSUME NEW t \in Clients, SignalWake(t) PROVE EvInv'
  BY <1>4 DEF SignalWake
<1>5. ASSUME NEW t \in Clients, ResetSignaled(t) PROVE EvInv'
  BY <1>5 DEF ResetSignaled
<1>6. ASSUME NEW t \in Clients, WaitForEvent(t) \/ EvInterrupted(t) PROVE EvInv'
  BY <1>6 DEF WaitForEvent, EvInterrupted
<1>7. ASSUME NEW t \in Clients, CheckSignaled(t) PROVE EvInv'
  BY <1>7 DEF CheckSignaled, Request
<1>8. ASSUME NEW t \in Clients, EvFutexWait(t) PROVE EvInv'
  BY <1>8 DEF EvFutexWait
<1>9. ASSUME NEW t \in Clients, Take(t) PROVE EvInv'
  BY <1>9 DEF Take
<1>10. ASSUME NEW t \in Clients, EvUnlock(t) PROVE EvInv'
  BY <1>10, Zenon DEF EvUnlock, Release
<1>11. ASSUME NEW t \in Clients, EvLocked(t) PROVE EvInv'
  BY <1>11, Zenon DEF EvLocked, Acquire, Free, evvars
<1> QED
  BY <1>1, <1>2, <1>3, <1>4, <1>5, <1>6, <1>7, <1>8, <1>9, <1>10, <1>11, ZenonT(60)
     DEF EvNext, EvStep

\* The invariant holds in every interleaving of signal_event, reset_event and
\* wait_for_event.
THEOREM EvInvariance == EvSpec => []EvInv
<1>1. EvInit => EvInv
  BY EvInitInv, Zenon
<1>2. EvInv /\ [EvNext]_<<phase, evvars>> => EvInv'
  BY EvNextInv, Zenon
<1> QED
  BY <1>1, <1>2, PTL DEF EvSpec

\* wait_for_event on an auto-reset event returns to at most one waiter per
\* signal_event, for any number of waiters and signallers.
THEOREM EventOneWaiter == EvSpec => []OneWaiterPerSignal
<1>1. EvInv => OneWaiterPerSignal
  BY Zenon DEF EvInv
<1> QED
  BY <1>1, EvInvariance, PTL

\* No thread of wait_for_event sleeps on a set word with nobody on the way to
\* wake it or to consume the signal.
THEOREM EventNotMissed == EvSpec => []SignalNotMissed
<1>1. EvInv => SignalNotMissed
  BY Zenon DEF EvInv
<1> QED
  BY <1>1, EvInvariance, PTL

-----------------------------------------------------------------------------
\* Controllers the count stands for.
Suspenders == {c \in Controllers : cp[c] \in {"send", "await", "suspended", "kill", "killed"}}

\* Controllers that rely on a signal sent, by themselves or by another.
Relying == {c \in Controllers : cp[c] \in {"await", "suspended", "kill", "killed"}}

Resumers == {c \in Controllers : cp[c] \in {"wakeup", "resuming"}}

SusTypeOK ==
  /\ signals \in Nat
  /\ suspended \in {0, 1} /\ wakeup \in {0, 1} /\ resumed \in {0, 1}
  /\ terminate \in {0, 1} /\ terminated \in {0, 1} /\ sigcxt \in {0, 1}
  /\ cp \in [Controllers -> {"out", "send", "await", "suspended", "wakeup", "resuming",
                             "kill", "killed"}]
  /\ tp \in {"running", "handler", "parked", "waking", "leaving", "dead"}

CountExact == suspend_count = Cardinality(Suspenders)

LockExact ==
  \A c \in Controllers : holder = c <=> cp[c] \in {"send", "wakeup", "resuming"}

\* While a target is being resumed nobody else has asked for it.
ResumeAlone == Resumers # {} => Suspenders = {}

WakeupExact == wakeup = 1 <=> \E c \in Controllers : cp[c] = "resuming"

\* What each position of the target says about the words and the controllers.
TargetState ==
  /\ tp = "running" =>
       /\ suspended = 0 /\ sigcxt = 0 /\ terminate = 0
       /\ \A c \in Controllers : cp[c] \notin {"suspended", "kill", "killed", "wakeup"}
       /\ resumed = 1 => signals = 0 /\ Resumers # {}
       /\ resumed = 0 => Resumers = {}
       /\ signals > 0 => signals = 1 /\ Relying # {}
       /\ signals = 0 => Relying = {}
  /\ tp = "handler" =>
       /\ suspended = 0 /\ sigcxt = 1 /\ terminate = 0 /\ signals = 0 /\ resumed = 0
       /\ Relying # {} /\ Resumers = {}
       /\ \A c \in Controllers : cp[c] \notin {"suspended", "kill", "killed"}
  /\ tp = "parked" =>
       /\ suspended = 1 /\ sigcxt = 1 /\ resumed = 0
       /\ Relying # {} \/ Resumers # {}
       /\ terminate = 0 => signals = 0
  /\ tp \in {"waking", "leaving"} =>
       /\ wakeup = 1 /\ resumed = 0 /\ sigcxt = 0 /\ terminate = 0 /\ signals = 0
       /\ tp = "leaving" => suspended = 0
  /\ tp = "dead" => terminate = 1 /\ suspended = 1 /\ sigcxt = 1 /\ resumed = 0
  /\ terminate = 1 => \E c \in Controllers : cp[c] \in {"kill", "killed"}
  /\ terminate = 1 => tp \in {"parked", "dead"}

SusInv == SusTypeOK /\ CountExact /\ LockExact /\ ResumeAlone /\ WakeupExact /\ TargetState

\* The controllers that have suspended the thread can be counted.
LEMMA SuspendersFinite == IsFiniteSet(Suspenders) /\ Cardinality(Suspenders) \in Nat
<1>1. Suspenders \subseteq Controllers
  BY Zenon DEF Suspenders
<1>2. IsFiniteSet(Suspenders)
  BY <1>1, ControllersAssumption, FS_Subset, Zenon
<1> QED
  BY <1>2, FS_CardinalityType, Zenon

\* One more controller counts one more.
LEMMA CountSuspender ==
  ASSUME NEW c, c \notin Suspenders, Suspenders' = Suspenders \cup {c}
  PROVE  Cardinality(Suspenders') = Cardinality(Suspenders) + 1
BY SuspendersFinite, FS_AddElement, Zenon

\* A controller that resumes counts one less.
LEMMA DropSuspender ==
  ASSUME NEW c, c \in Suspenders, Suspenders' = Suspenders \ {c}
  PROVE  Cardinality(Suspenders') = Cardinality(Suspenders) - 1
BY SuspendersFinite, FS_RemoveElement, Zenon

\* A count of one means a single suspender.
LEMMA OneSuspender ==
  ASSUME NEW c, c \in Suspenders
  PROVE  /\ Cardinality(Suspenders) >= 1
         /\ (Cardinality(Suspenders) = 1) <=> (Suspenders = {c})
<1>1. Cardinality(Suspenders) # 0
  BY SuspendersFinite, FS_EmptySet, Zenon
<1>2. Cardinality(Suspenders) = 1 => \E x : Suspenders = {x}
  BY SuspendersFinite, FS_Singleton, Zenon
<1>3. Cardinality({c}) = 1
  BY FS_Singleton, ZenonT(60)
<1> QED
  BY <1>1, <1>2, <1>3, SuspendersFinite

\* A new thread is not suspended.
LEMMA SusInitInv == SusInit => SusInv
<1> SUFFICES ASSUME SusInit PROVE SusInv
  BY Zenon
<1>1. Suspenders = {} /\ Relying = {} /\ Resumers = {}
  BY Zenon DEF SusInit, Suspenders, Relying, Resumers
<1>2. CountExact
  BY <1>1, FS_EmptySet, Zenon DEF SusInit, CountExact
<1>3. SusTypeOK /\ LockExact /\ ResumeAlone /\ WakeupExact /\ TargetState
  BY <1>1, ControllersAssumption
     DEF SusInit, SusTypeOK, LockExact, ResumeAlone, WakeupExact, TargetState
<1> QED
  BY <1>2, <1>3, Zenon DEF SusInv

\* Every step of a controller or of the target keeps the invariant.
LEMMA SusNextInv == SusInv /\ [SusNext]_susvars => SusInv'
<1> SUFFICES ASSUME SusInv, [SusNext]_susvars PROVE SusInv'
  BY Zenon
<1> USE ControllersAssumption DEF SusInv, SusTypeOK, CGoto
<1>s. ASSUME suspend_count' = suspend_count, Suspenders' = Suspenders PROVE CountExact'
  BY <1>s, Zenon DEF CountExact
<1>1. CASE UNCHANGED susvars
  <2>1. Suspenders' = Suspenders /\ Relying' = Relying /\ Resumers' = Resumers
    BY <1>1, Zenon DEF susvars, Suspenders, Relying, Resumers
  <2> QED
    BY <1>1, <1>s, <2>1 DEF susvars, LockExact, ResumeAlone, WakeupExact, TargetState
<1>2. ASSUME NEW c \in Controllers, SuspendBegin(c) PROVE SusInv'
  <2> USE <1>2 DEF SuspendBegin
  <2>1. /\ c \notin Suspenders /\ Suspenders' = Suspenders \cup {c}
        /\ Relying' = Relying /\ Resumers' = Resumers /\ Resumers = {}
    BY Zenon DEF Suspenders, Relying, Resumers, LockExact
  <2>2. CountExact'
    BY <2>1, CountSuspender, Zenon DEF CountExact
  <2>3. SusTypeOK' /\ LockExact' /\ ResumeAlone' /\ WakeupExact'
    BY <2>1, Zenon DEF LockExact, ResumeAlone, WakeupExact
  <2>4. TargetState'
    BY <2>1, Zenon DEF TargetState
  <2> QED BY <2>2, <2>3, <2>4, Zenon
<1>3. ASSUME NEW c \in Controllers, Send(c) PROVE SusInv'
  <2> USE <1>3 DEF Send
  <2>1. /\ c \in Suspenders /\ Suspenders' = Suspenders
        /\ Relying' = Relying \cup {c} /\ Resumers' = Resumers /\ Resumers = {}
    BY Zenon DEF Suspenders, Relying, Resumers, LockExact, ResumeAlone
  <2>2. CountExact' /\ SusTypeOK' /\ LockExact' /\ ResumeAlone' /\ WakeupExact'
    BY <1>s, <2>1 DEF LockExact, ResumeAlone, WakeupExact
  <2>3. Relying = Suspenders \ {c}
    BY Zenon DEF Relying, Suspenders, LockExact
  <2>4. CASE suspend_count = 1
    <3>1. Relying = {}
      BY <2>1, <2>3, <2>4, OneSuspender, Zenon DEF CountExact
    <3>2. \A d \in Controllers : cp[d] \notin {"kill", "killed", "resuming"}
      BY <2>1, <3>1, Zenon DEF Relying, Resumers
    <3>3. tp = "running" /\ signals = 0
      BY <2>1, <3>1, <3>2, SMTT(30) DEF TargetState, WakeupExact
    <3> QED BY <2>1, <2>2, <2>4, <3>2, <3>3, SMTT(30) DEF TargetState
  <2>5. CASE suspend_count # 1
    <3>1. Relying # {}
      BY <2>1, <2>3, <2>5, OneSuspender, SMTT(30) DEF CountExact
    <3> QED BY <2>1, <2>2, <2>5, <3>1, Zenon DEF TargetState
  <2> QED BY <2>4, <2>5, Zenon
<1>4. ASSUME NEW c \in Controllers, SendFails(c) PROVE SusInv'
  <2> USE <1>4 DEF SendFails
  <2>1. /\ c \in Suspenders /\ Suspenders' = Suspenders \ {c}
        /\ Relying' = Relying /\ Resumers' = Resumers /\ Resumers = {}
    BY Zenon DEF Suspenders, Relying, Resumers, LockExact, ResumeAlone
  <2>2. CountExact'
    BY <2>1, DropSuspender, SMTT(30) DEF CountExact
  <2>3. SusTypeOK' /\ LockExact' /\ ResumeAlone' /\ WakeupExact' /\ TargetState'
    BY <2>1, Zenon DEF LockExact, ResumeAlone, WakeupExact, TargetState
  <2> QED BY <2>2, <2>3, Zenon
<1>5. ASSUME NEW c \in Controllers, AwaitSuspended(c) PROVE SusInv'
  <2> USE <1>5 DEF AwaitSuspended
  <2>1. Suspenders' = Suspenders /\ Relying' = Relying /\ Resumers' = Resumers
    BY Zenon DEF Suspenders, Relying, Resumers
  <2>2. Resumers = {}
    BY Zenon DEF ResumeAlone, Suspenders
  <2>3. suspended = 1 => tp \in {"parked", "dead"}
    BY <2>2, Zenon DEF TargetState, WakeupExact, Resumers
  <2>4. CASE suspended = 1
    BY <1>s, <2>1, <2>3, <2>4, SMTT(30) DEF LockExact, ResumeAlone, WakeupExact, TargetState
  <2>5. CASE suspended # 1
    BY <1>s, <2>1, <2>5, Zenon DEF LockExact, ResumeAlone, WakeupExact, TargetState
  <2> QED BY <2>4, <2>5, Zenon
<1>6. ASSUME NEW c \in Controllers, ResumeBegin(c) PROVE SusInv'
  <2> USE <1>6 DEF ResumeBegin
  <2>1. /\ c \in Suspenders /\ Suspenders' = Suspenders \ {c} /\ Resumers = {}
        /\ Relying' = Relying \ {c} /\ Relying = Suspenders
    BY Zenon DEF Suspenders, Relying, Resumers, LockExact
  <2>2. CountExact'
    BY <2>1, DropSuspender, Zenon DEF CountExact
  <2>3. CASE suspend_count > 1
    <3>1. Suspenders # {c}
      BY <2>1, <2>3, OneSuspender, SMTT(30) DEF CountExact
    <3>2. Resumers' = {} /\ Relying' # {}
      BY <2>1, <2>3, <3>1, Zenon DEF Resumers
    <3> QED
      BY <2>1, <2>2, <2>3, <3>2, Zenon DEF LockExact, ResumeAlone, WakeupExact, TargetState
  <2>4. CASE ~(suspend_count > 1)
    <3>1. Suspenders = {c}
      BY <2>1, <2>4, OneSuspender, SuspendersFinite, SMTT(30) DEF CountExact
    <3>2. terminate = 0 /\ tp = "parked"
      BY <2>1, <3>1, Zenon DEF TargetState, Suspenders, WakeupExact, Resumers
    <3>3. Resumers' = {c} /\ Suspenders' = {}
      BY <2>1, <2>4, <3>1, Zenon DEF Resumers
    <3> QED
      BY <2>1, <2>2, <2>4, <3>2, <3>3, Zenon DEF LockExact, ResumeAlone, WakeupExact, TargetState
  <2> QED BY <2>3, <2>4, Zenon
<1>7. ASSUME NEW c \in Controllers, Wakeup(c) PROVE SusInv'
  <2> USE <1>7 DEF Wakeup
  <2>1. Suspenders' = Suspenders /\ Relying' = Relying /\ Resumers' = Resumers /\ Resumers # {}
    BY Zenon DEF Suspenders, Relying, Resumers
  <2>2. tp = "parked"
    BY <2>1, Zenon DEF TargetState, WakeupExact, LockExact, ResumeAlone, Suspenders
  <2> QED
    BY <1>s, <2>1, <2>2, Zenon DEF LockExact, ResumeAlone, WakeupExact, TargetState
<1>8. ASSUME NEW c \in Controllers, ResumeFinish(c) PROVE SusInv'
  <2> USE <1>8 DEF ResumeFinish
  <2>1. /\ Suspenders' = Suspenders /\ Relying' = Relying /\ Resumers = {c} /\ Resumers' = {}
        /\ Relying = {}
    BY Zenon DEF Suspenders, Relying, Resumers, LockExact, ResumeAlone
  <2>2. tp = "running"
    BY SMTT(30) DEF TargetState
  <2> QED
    BY <1>s, <2>1, <2>2, Zenon DEF LockExact, ResumeAlone, WakeupExact, TargetState, Resumers
<1>9. ASSUME NEW c \in Controllers, Terminate(c) PROVE SusInv'
  <2> USE <1>9 DEF Terminate
  <2>1. /\ Suspenders' = Suspenders /\ Relying' = Relying /\ Resumers' = Resumers
        /\ Resumers = {} /\ c \in Relying
    BY Zenon DEF Suspenders, Relying, Resumers, ResumeAlone
  <2>2. tp = "parked"
    BY <2>1, Zenon DEF TargetState, WakeupExact, Resumers
  <2> QED
    BY <1>s, <2>1, <2>2, SMTT(30) DEF LockExact, ResumeAlone, WakeupExact, TargetState
<1>10. ASSUME NEW c \in Controllers, AwaitTerminated(c) PROVE SusInv'
  <2> USE <1>10 DEF AwaitTerminated
  <2>1. Suspenders' = Suspenders /\ Relying' = Relying /\ Resumers' = Resumers
    BY Zenon DEF Suspenders, Relying, Resumers
  <2> QED
    BY <1>s, <2>1, SMTT(30) DEF LockExact, ResumeAlone, WakeupExact, TargetState
<1>11. CASE TargetStep
  <2>1. cp' = cp /\ suspend_count' = suspend_count /\ holder' = holder /\ wakeup' = wakeup
    BY <1>11, Zenon DEF TargetStep, HandleSuspendSignal, Park, Awake, ResetSuspended, NotifyResumed
  <2>2. Suspenders' = Suspenders /\ Relying' = Relying /\ Resumers' = Resumers
    BY <2>1, Zenon DEF Suspenders, Relying, Resumers
  <2>3. CountExact' /\ LockExact' /\ ResumeAlone' /\ WakeupExact'
    BY <1>s, <2>1, <2>2, Zenon DEF LockExact, ResumeAlone, WakeupExact
  <2>4. Relying \subseteq Suspenders
    BY Zenon DEF Relying, Suspenders
  <2>5. Suspenders # {} => suspend_count # 0
    BY OneSuspender DEF CountExact
  <2>6. ASSUME HandleSuspendSignal PROVE SusTypeOK' /\ TargetState'
    <3>1. CASE terminate = 1
      BY <2>1, <2>2, <2>6, <3>1, SMTT(30) DEF HandleSuspendSignal, TargetState
    <3>2. CASE terminate = 0
      BY <2>1, <2>2, <2>4, <2>5, <2>6, <3>2, SMTT(30)
         DEF HandleSuspendSignal, TargetState, ResumeAlone
    <3> QED BY <3>1, <3>2, Zenon
  <2>7. ASSUME Park PROVE SusTypeOK' /\ TargetState'
    BY <2>1, <2>2, <2>7, Zenon DEF Park, TargetState
  <2>8. ASSUME Awake PROVE SusTypeOK' /\ TargetState'
    <3>1. Suspenders = {}
      BY <2>8, Zenon DEF Awake, WakeupExact, ResumeAlone, Resumers
    <3>2. terminate = 0
      BY <3>1, Zenon DEF TargetState, Suspenders
    <3> QED BY <2>1, <2>2, <2>8, <3>2, SMTT(30) DEF Awake, TargetState
  <2>9. ASSUME ResetSuspended PROVE SusTypeOK' /\ TargetState'
    BY <2>1, <2>2, <2>9, Zenon DEF ResetSuspended, TargetState
  <2>10. ASSUME NotifyResumed PROVE SusTypeOK' /\ TargetState'
    <3>1. Resumers # {} /\ Suspenders = {} /\ Relying = {}
      BY <2>4, <2>10, Zenon DEF NotifyResumed, TargetState, WakeupExact, ResumeAlone, Resumers
    <3>2. \A c \in Controllers : cp[c] \notin {"suspended", "kill", "killed", "wakeup"}
      BY <2>10, <3>1, Zenon DEF NotifyResumed, TargetState, WakeupExact, Suspenders, LockExact
    <3> QED BY <2>1, <2>2, <2>10, <3>1, <3>2, SMTT(30) DEF NotifyResumed, TargetState
  <2> QED
    BY <1>11, <2>3, <2>6, <2>7, <2>8, <2>9, <2>10, ZenonT(60) DEF TargetStep
<1> QED
  BY <1>1, <1>2, <1>3, <1>4, <1>5, <1>6, <1>7, <1>8, <1>9, <1>10, <1>11, Zenon
     DEF SusNext, ControllerStep

\* The invariant holds in every interleaving of os_thread_suspend,
\* os_thread_resume and the handler of the suspend signal.
THEOREM SusInvariance == SusSpec => []SusInv
<1>1. SusInit => SusInv
  BY SusInitInv, Zenon
<1>2. SusInv /\ [SusNext]_susvars => SusInv'
  BY SusNextInv, Zenon
<1> QED
  BY <1>1, <1>2, PTL DEF SusSpec

\* A thread os_thread_suspend has reported suspended stays stopped, for any
\* number of concurrent suspenders.
THEOREM SuspendSafe == SusSpec => []SuspendedMeansParked
<1>1. SusInv => SuspendedMeansParked
  <2> SUFFICES ASSUME SusInv, NEW c \in Controllers, cp[c] \in {"suspended", "kill", "killed"}
               PROVE  /\ tp = "parked" \/ (terminate = 1 /\ tp = "dead")
                      /\ sigcxt = 1 /\ suspended = 1
    BY Zenon DEF SuspendedMeansParked
  <2>1. Resumers = {}
    BY Zenon DEF SusInv, ResumeAlone, Suspenders
  <2>2. wakeup # 1
    BY <2>1, Zenon DEF SusInv, WakeupExact, Resumers
  <2> QED BY <2>2, Zenon DEF SusInv, SusTypeOK, TargetState
<1> QED
  BY <1>1, SusInvariance, PTL

\* handle_suspend_signal is never re-entered by a second suspension.
THEOREM SuspendNoReentry == SusSpec => []NoReentry
<1>1. SusInv => NoReentry
  BY DEF SusInv, SusTypeOK, TargetState, NoReentry
<1> QED
  BY <1>1, SusInvariance, PTL
=============================================================================
