---------------------------- MODULE Flush_proof ----------------------------
(***************************************************************************)
(* Flushes and delayed deletion, for any threads and fragments, in three   *)
(* parts.                                                                  *)
(*                                                                         *)
(* FlushSynch: a stopped thread stays stopped, for any number of threads   *)
(* and flushes.                                                            *)
(*                                                                         *)
(* SharedDeletion: what the operations on the pending and the lazy list do *)
(* to the lists, and that they keep SdInv.  A thread that uses a fragment  *)
(* on a list has not signed the entry off, the count of the entry covers   *)
(* it, and the lists are in order of time.                                 *)
(*                                                                         *)
(* Flush: its threads stop and go as those of FlushSynch do, whatever they *)
(* delete meanwhile.  Where a thread may have a fragment in its hands at   *)
(* all is Hands, and who may move the lazy list is Mover.  Together with   *)
(* the invariant of FlushSynch this is inductive.                          *)
(***************************************************************************)
EXTENDS Flush, WellFoundedInduction, FiniteSetTheorems, TLAPS

Linking == {"linking", "enter", "notify", "wait_unlink"}

\* There is one flusher, the holder of the lock, and could_be_linking is where
\* the thread is.
OneFlusher ==
  /\ \A t \in Threads : pc[t] \in Stages <=> initexit = t
  /\ initexit = Nobody => todo = {}
  /\ \A u \in Threads : could_be_linking[u] <=> pc[u] \in Linking

\* What the flusher knows of the thread it waits for.
Awaiting ==
  /\ \A t \in Threads : pc[t] \in {"await", "woken"} =>
       target \in todo /\ target # t /\ could_be_linking[target]
  /\ \A t \in Threads : pc[t] = "await" => wait_for_unlink[target]
  /\ \A t \in Threads : pc[t] = "woken" =>
       pc[target] = "wait_unlink" /\ ~finished_with_unlink[target]

\* A couldbelinking thread is asked to stop only while the flusher waits for
\* it, and it answers once.
Asked ==
  \A u \in Threads :
    /\ could_be_linking[u] /\ wait_for_unlink[u] =>
         target = u /\ initexit \in Threads /\ pc[initexit] \in {"await", "woken"}
    /\ pc[u] = "notify" => wait_for_unlink[u] /\ pc[initexit] = "await"
    /\ waiting_for_unlink[u] =>
         \/ pc[u] \in {"exiting", "dead"}
         \/ /\ pc[u] = "wait_unlink" /\ ~finished_with_unlink[u]
            /\ target = u /\ initexit \in Threads /\ pc[initexit] = "await"

\* A signal to go on is meant for a thread that has been let go.
SignalIsRelease ==
  \A u \in Threads : finished_with_unlink[u] => pc[u] = "wait_unlink" /\ u \notin Synched

StaysStopped ==
  \A u \in Synched : IF could_be_linking[u] THEN pc[u] = "wait_unlink" ELSE wait_for_unlink[u]

FsIInv == FsTypeOK /\ OneFlusher /\ Awaiting /\ Asked /\ SignalIsRelease /\ StaysStopped

-----------------------------------------------------------------------------
USE NobodyAssumption

\* The invariant holds at the start ...
LEMMA FsInitInv == FsInit => FsIInv
BY ZenonT(60) DEF FsInit, FsIInv, FsTypeOK, OneFlusher, Awaiting, Asked, SignalIsRelease, StaysStopped,
       Synched, Stages, Places, Linking

\* ... and every step of every thread preserves it.
LEMMA FsNextInv == FsIInv /\ [FsNext]_fsvars => FsIInv'
<1> SUFFICES ASSUME FsIInv, [FsNext]_fsvars PROVE FsIInv'
  BY Zenon
<1> USE DEF FsIInv
<1>1. ASSUME NEW t \in Threads, ThreadInit(t) PROVE FsIInv'
  BY <1>1 DEF ThreadInit, FGoto, flags, events, flusher, Places, Stages, Linking, Synched,
    FsTypeOK, OneFlusher, Awaiting, Asked, SignalIsRelease, StaysStopped
<1>2. ASSUME NEW t \in Threads, EnterThreadexit(t) PROVE FsIInv'
  BY <1>2 DEF EnterThreadexit, FGoto, flags, events, flusher, Places, Stages, Linking,
    Synched, FsTypeOK, OneFlusher, Awaiting, Asked, SignalIsRelease, StaysStopped
<1>3. ASSUME NEW t \in Threads, NEW a \in {"cache", "nolink", "syscall", "move"},
              NEW b \in {"nolink", "syscall", "flush", "relink"}, FMove(t, a, b)
     PROVE  FsIInv'
  BY <1>3 DEF FMove, FGoto, flags, events, flusher, Places, Stages, Linking, Synched,
    FsTypeOK, OneFlusher, Awaiting, Asked, SignalIsRelease, StaysStopped
<1>4. ASSUME NEW t \in Threads, EnterCouldbelinking(t) \/ RelockAll(t) PROVE FsIInv'
  <2>1. pc[t] \in {"nolink", "relink", "relock_all"} /\ LinkOrWait(t)
    BY <1>4, Zenon DEF EnterCouldbelinking, RelockAll
  <2>2. CASE wait_for_unlink[t]
    BY <2>1, <2>2 DEF LinkOrWait, FGoto, flags, events, flusher, Places, Stages, Linking, Synched,
      FsTypeOK, OneFlusher, Awaiting, Asked, SignalIsRelease, StaysStopped
  <2>3. CASE ~wait_for_unlink[t]
    <3>1. /\ soon_to_be_linking' = [soon_to_be_linking EXCEPT ![t] = FALSE]
          /\ could_be_linking' = [could_be_linking EXCEPT ![t] = TRUE]
          /\ pc' = [pc EXCEPT ![t] = "linking"]
          /\ UNCHANGED <<wait_for_unlink, about_to_exit, at_syscall_at_flush, events, flusher,
                         listed>>
      BY <2>1, <2>3, Zenon DEF LinkOrWait, FGoto, FsTypeOK
    <3> QED
      BY <2>1, <2>3, <3>1 DEF flags, events, flusher, Places, Stages, Linking, Synched, FsTypeOK, OneFlusher,
        Awaiting, Asked, SignalIsRelease, StaysStopped
  <2> QED BY <2>2, <2>3, Zenon
<1>5. ASSUME NEW t \in Threads, WakeAll(t) PROVE FsIInv'
  BY <1>5 DEF WakeAll, FGoto, flags, events, flusher, Places, Stages, Linking, Synched,
    FsTypeOK, OneFlusher, Awaiting, Asked, SignalIsRelease, StaysStopped
<1>6. ASSUME NEW t \in Threads, LeaveLinking(t) PROVE FsIInv'
  BY <1>6 DEF LeaveLinking, FMove, FGoto, flags, events, flusher, Places, Stages, Linking,
    Synched, FsTypeOK, OneFlusher, Awaiting, Asked, SignalIsRelease, StaysStopped
<1>7. ASSUME NEW t \in Threads, NEW l \in {"cache", "relink", "flush", "move"}, EnterNolinking(t, l)
     PROVE  FsIInv'
  BY <1>7 DEF EnterNolinking, FGoto, flags, events, flusher, Places, Stages, Linking,
    Synched, FsTypeOK, OneFlusher, Awaiting, Asked, SignalIsRelease, StaysStopped
<1>8. ASSUME NEW t \in Threads, Notify(t) PROVE FsIInv'
  BY <1>8 DEF Notify, FGoto, flags, events, flusher, Places, Stages, Linking, Synched,
    FsTypeOK, OneFlusher, Awaiting, Asked, SignalIsRelease, StaysStopped
<1>9. ASSUME NEW t \in Threads, WakeUnlink(t) PROVE FsIInv'
  BY <1>9 DEF WakeUnlink, FGoto, flags, events, flusher, Places, Stages, Linking, Synched,
    FsTypeOK, OneFlusher, Awaiting, Asked, SignalIsRelease, StaysStopped
<1>10. ASSUME NEW t \in Threads, ThreadExit(t) PROVE FsIInv'
  <2>1. FsTypeOK'
    BY <1>10, Zenon DEF ThreadExit, FGoto, flags, events, flusher, Places, Stages, Linking,
      Synched, FsTypeOK, OneFlusher, Awaiting, Asked, SignalIsRelease, StaysStopped
  <2>2. OneFlusher'
    BY <1>10 DEF ThreadExit, FGoto, flags, events, flusher, Places, Stages, Linking,
      Synched, FsTypeOK, OneFlusher, Awaiting, Asked, SignalIsRelease, StaysStopped
  <2>3. Awaiting'
    BY <1>10 DEF ThreadExit, FGoto, flags, events, flusher, Places, Stages, Linking,
      Synched, FsTypeOK, OneFlusher, Awaiting, Asked, SignalIsRelease, StaysStopped
  <2>4. Asked'
    BY <1>10 DEF ThreadExit, FGoto, flags, events, flusher, Places, Stages, Linking,
      Synched, FsTypeOK, OneFlusher, Awaiting, Asked, SignalIsRelease, StaysStopped
  <2>5. SignalIsRelease'
    BY <1>10 DEF ThreadExit, FGoto, flags, events, flusher, Places, Stages, Linking,
      Synched, FsTypeOK, OneFlusher, Awaiting, Asked, SignalIsRelease, StaysStopped
  <2>6. StaysStopped'
    BY <1>10 DEF ThreadExit, FGoto, flags, events, flusher, Places, Stages, Linking,
      Synched, FsTypeOK, OneFlusher, Awaiting, Asked, SignalIsRelease, StaysStopped
  <2> QED BY <2>1, <2>2, <2>3, <2>4, <2>5, <2>6, Zenon
<1>11. ASSUME NEW t \in Threads, FlushStart(t) PROVE FsIInv'
  BY <1>11 DEF FlushStart, FGoto, flags, events, flusher, Places, Stages, Linking, Synched,
    FsTypeOK, OneFlusher, Awaiting, Asked, SignalIsRelease, StaysStopped
<1>12. ASSUME NEW t \in Threads, NEW u \in Threads, Visit(t, u) PROVE FsIInv'
  <2>1. CASE u # t /\ could_be_linking[u]
    <3>1. /\ pc[t] = "stage1" /\ u \in todo /\ initexit = t
          /\ wait_for_unlink' = [wait_for_unlink EXCEPT ![u] = TRUE]
          /\ target' = u
          /\ pc' = [pc EXCEPT ![t] = "await"]
          /\ UNCHANGED <<at_syscall_at_flush, todo, could_be_linking, soon_to_be_linking,
                         about_to_exit, events, initexit, listed>>
      BY <1>12, <2>1, Zenon DEF Visit, FGoto, OneFlusher, Stages
    <3>2. Synched' = Synched
      BY <3>1, Zenon DEF Synched, Stages, FsTypeOK, OneFlusher
    <3>3. u \notin Synched
      BY <3>1, Zenon DEF Synched, Stages, OneFlusher
    <3>4. FsTypeOK'
      BY <2>1, <3>1, <3>2, <3>3, Zenon DEF flags, events, flusher, Places, Stages, Linking, FsTypeOK, OneFlusher,
        Awaiting, Asked, SignalIsRelease, StaysStopped
    <3>5. OneFlusher'
      BY <2>1, <3>1, <3>2, <3>3 DEF flags, events, flusher, Places, Stages, Linking, FsTypeOK, OneFlusher,
        Awaiting, Asked, SignalIsRelease, StaysStopped
    <3>6. Awaiting'
      BY <2>1, <3>1, <3>2, <3>3 DEF flags, events, flusher, Places, Stages, Linking, FsTypeOK, OneFlusher,
        Awaiting, Asked, SignalIsRelease, StaysStopped
    <3>7. Asked'
      BY <2>1, <3>1, <3>2, <3>3 DEF flags, events, flusher, Places, Stages, Linking, FsTypeOK, OneFlusher,
        Awaiting, Asked, SignalIsRelease, StaysStopped
    <3>8. SignalIsRelease'
      BY <2>1, <3>1, <3>2, <3>3, ZenonT(60) DEF flags, events, flusher, Places, Stages, Linking, FsTypeOK, OneFlusher,
        Awaiting, Asked, SignalIsRelease, StaysStopped
    <3>9. StaysStopped'
      BY <2>1, <3>1, <3>2, <3>3 DEF flags, events, flusher, Places, Stages, Linking, FsTypeOK, OneFlusher,
        Awaiting, Asked, SignalIsRelease, StaysStopped
    <3> QED BY <3>4, <3>5, <3>6, <3>7, <3>8, <3>9, Zenon
  <2>2. CASE u # t /\ ~could_be_linking[u]
    <3>1. /\ pc[t] = "stage1" /\ u \in todo
          /\ at_syscall_at_flush' \in [Threads -> BOOLEAN]
          /\ wait_for_unlink' = [wait_for_unlink EXCEPT ![u] = TRUE]
          /\ todo' = todo \ {u}
          /\ UNCHANGED <<pc, target, could_be_linking, soon_to_be_linking, about_to_exit,
                         events, initexit, listed>>
      BY <1>12, <2>2, Zenon DEF Visit, Stopped, FsTypeOK
    <3> QED
      BY <2>2, <3>1 DEF flags, events, flusher, Places, Stages, Linking, Synched, FsTypeOK, OneFlusher,
        Awaiting, Asked, SignalIsRelease, StaysStopped
  <2>3. CASE u = t
    <3>1. FsTypeOK'
      BY <1>12, <2>3 DEF Visit, Stopped, FGoto, flags, events, flusher, Places, Stages, Linking, Synched,
        FsTypeOK, OneFlusher, Awaiting, Asked, SignalIsRelease, StaysStopped
    <3>2. OneFlusher'
      BY <1>12, <2>3, Zenon DEF Visit, Stopped, FGoto, flags, events, flusher, Places, Stages, Linking, Synched,
        FsTypeOK, OneFlusher, Awaiting, Asked, SignalIsRelease, StaysStopped
    <3>3. Awaiting'
      BY <1>12, <2>3, Zenon DEF Visit, Stopped, FGoto, flags, events, flusher, Places, Stages, Linking, Synched,
        FsTypeOK, OneFlusher, Awaiting, Asked, SignalIsRelease, StaysStopped
    <3>4. Asked'
      BY <1>12, <2>3 DEF Visit, Stopped, FGoto, flags, events, flusher, Places, Stages, Linking, Synched,
        FsTypeOK, OneFlusher, Awaiting, Asked, SignalIsRelease, StaysStopped
    <3>5. SignalIsRelease'
      BY <1>12, <2>3, SMTT(30) DEF Visit, Stopped, FGoto, flags, events, flusher, Places, Stages, Linking, Synched,
        FsTypeOK, OneFlusher, Awaiting, Asked, SignalIsRelease, StaysStopped
    <3>6. StaysStopped'
      BY <1>12, <2>3, SMTT(30) DEF Visit, Stopped, FGoto, flags, events, flusher, Places, Stages, Linking, Synched,
        FsTypeOK, OneFlusher, Awaiting, Asked, SignalIsRelease, StaysStopped
    <3> QED BY <3>1, <3>2, <3>3, <3>4, <3>5, <3>6, Zenon
  <2> QED BY <2>1, <2>2, <2>3, Zenon
<1>13. ASSUME NEW t \in Threads, AwaitWake(t) PROVE FsIInv'
  BY <1>13 DEF AwaitWake, FGoto, flags, events, flusher, Places, Stages, Linking, Synched,
    FsTypeOK, OneFlusher, Awaiting, Asked, SignalIsRelease, StaysStopped
<1>14. ASSUME NEW t \in Threads, Resynch(t) PROVE FsIInv'
  <2>1. FsTypeOK'
    BY <1>14, Zenon DEF Resynch, Stopped, FGoto, flags, events, flusher, Places, Stages, Linking,
      Synched, FsTypeOK, OneFlusher, Awaiting, Asked, SignalIsRelease, StaysStopped
  <2>2. OneFlusher'
    BY <1>14 DEF Resynch, Stopped, FGoto, flags, events, flusher, Places, Stages, Linking,
      Synched, FsTypeOK, OneFlusher, Awaiting, Asked, SignalIsRelease, StaysStopped
  <2>3. Awaiting'
    BY <1>14, SMTT(30) DEF Resynch, Stopped, FGoto, flags, events, flusher, Places, Stages, Linking,
      Synched, FsTypeOK, OneFlusher, Awaiting, Asked, SignalIsRelease, StaysStopped
  <2>4. Asked'
    BY <1>14, SMTT(30) DEF Resynch, Stopped, FGoto, flags, events, flusher, Places, Stages, Linking,
      Synched, FsTypeOK, OneFlusher, Awaiting, Asked, SignalIsRelease, StaysStopped
  <2>5. SignalIsRelease'
    BY <1>14, SMTT(30) DEF Resynch, Stopped, FGoto, flags, events, flusher, Places, Stages, Linking,
      Synched, FsTypeOK, OneFlusher, Awaiting, Asked, SignalIsRelease, StaysStopped
  <2>6. StaysStopped'
    BY <1>14, SMTT(30) DEF Resynch, Stopped, FGoto, flags, events, flusher, Places, Stages, Linking,
      Synched, FsTypeOK, OneFlusher, Awaiting, Asked, SignalIsRelease, StaysStopped
  <2> QED BY <2>1, <2>2, <2>3, <2>4, <2>5, <2>6, Zenon
<1>15. ASSUME NEW t \in Threads, UnlinkShared(t) PROVE FsIInv'
  BY <1>15 DEF UnlinkShared, FGoto, flags, events, flusher, Places, Stages, Linking,
    Synched, FsTypeOK, OneFlusher, Awaiting, Asked, SignalIsRelease, StaysStopped
<1>16. ASSUME NEW t \in Threads, NEW u \in Threads, Release(t, u) PROVE FsIInv'
  <2>1. FsTypeOK'
    BY <1>16, Zenon DEF Release, FGoto, flags, events, flusher, Places, Stages, Linking, Synched,
      FsTypeOK, OneFlusher, Awaiting, Asked, SignalIsRelease, StaysStopped
  <2>2. OneFlusher'
    BY <1>16, Zenon DEF Release, FGoto, flags, events, flusher, Places, Stages, Linking, Synched,
      FsTypeOK, OneFlusher, Awaiting, Asked, SignalIsRelease, StaysStopped
  <2>3. Awaiting'
    BY <1>16, ZenonT(60) DEF Release, FGoto, flags, events, flusher, Places, Stages, Linking, Synched,
      FsTypeOK, OneFlusher, Awaiting, Asked, SignalIsRelease, StaysStopped
  <2>4. Asked'
    BY <1>16, SMTT(30) DEF Release, FGoto, flags, events, flusher, Places, Stages, Linking, Synched,
      FsTypeOK, OneFlusher, Awaiting, Asked, SignalIsRelease, StaysStopped
  <2>5. SignalIsRelease'
    BY <1>16, SMTT(30) DEF Release, FGoto, flags, events, flusher, Places, Stages, Linking, Synched,
      FsTypeOK, OneFlusher, Awaiting, Asked, SignalIsRelease, StaysStopped
  <2>6. StaysStopped'
    BY <1>16 DEF Release, FGoto, flags, events, flusher, Places, Stages, Linking, Synched,
      FsTypeOK, OneFlusher, Awaiting, Asked, SignalIsRelease, StaysStopped
  <2> QED BY <2>1, <2>2, <2>3, <2>4, <2>5, <2>6, Zenon
<1>17. ASSUME NEW t \in Threads, NEW l \in {"relink", "syscall", "cache"}, FlushEnd(t, l) PROVE FsIInv'
  BY <1>17 DEF FlushEnd, FGoto, flags, events, flusher, Places, Stages, Linking, Synched,
    FsTypeOK, OneFlusher, Awaiting, Asked, SignalIsRelease, StaysStopped
<1>18. CASE UNCHANGED fsvars
  BY <1>18, SMTT(30) DEF fsvars, flags, events, flusher, FsTypeOK, OneFlusher, Awaiting, Asked,
              SignalIsRelease, StaysStopped, Synched
<1> QED
  BY <1>1, <1>2, <1>3, <1>4, <1>5, <1>6, <1>7, <1>8, <1>9, <1>10,
     <1>11, <1>12, <1>13, <1>14, <1>15, <1>16, <1>17, <1>18, Zenon
  DEF FsNext, Elsewhere, LockedMove, FsProgress

\* Where a thread can be that was at a system call when the flusher came to it,
\* until the flusher lets it go.
AtCall == {"syscall", "nolink", "wait_all", "relock_all", "flush", "exiting"}

AtSyscall == \A u \in Threads : at_syscall_at_flush[u] => u \in Synched /\ pc[u] \in AtCall

\* flush_fragments_end_synch finds at_syscall_at_flush set only for threads that
\* have not touched a fragment since the flusher came to them.
LEMMA AtSyscallStep == FsIInv /\ AtSyscall /\ [FsNext]_fsvars => AtSyscall'
<1> SUFFICES ASSUME FsIInv, AtSyscall, [FsNext]_fsvars,
                    NEW u \in Threads, at_syscall_at_flush'[u]
             PROVE  u \in Synched' /\ pc'[u] \in AtCall
  BY Zenon DEF AtSyscall
<1> USE DEF FsIInv
<1>a. u \in Synched => initexit \in Threads /\ (could_be_linking[u] \/ wait_for_unlink[u])
  BY Zenon DEF Synched, OneFlusher, StaysStopped, Stages
<1>b. at_syscall_at_flush[u] =>
        u \in Synched /\ pc[u] \in AtCall /\ initexit \in Threads /\ wait_for_unlink[u]
        /\ ~could_be_linking[u] /\ initexit # Nobody
  BY <1>a, Zenon DEF AtSyscall, OneFlusher, AtCall, Linking
<1>1. ASSUME NEW t \in Threads, ThreadInit(t) \/ ThreadExit(t) \/ FlushStart(t)
      PROVE  u \in Synched' /\ pc'[u] \in AtCall
  <2>1. initexit = Nobody /\ UNCHANGED at_syscall_at_flush
    BY <1>1, Zenon DEF ThreadInit, ThreadExit, FlushStart, flags
  <2> QED BY <1>b, <2>1, Zenon
<1>2. ASSUME NEW t \in Threads, UNCHANGED <<todo, initexit, listed, at_syscall_at_flush>>,
             \A v \in Threads \ {t} : pc'[v] = pc[v],
             t = u => pc'[t] \in AtCall,
             pc[t] \notin Stages
      PROVE  u \in Synched' /\ pc'[u] \in AtCall
  BY <1>2, <1>b, Zenon DEF Synched, Stages
<1>3. ASSUME NEW t \in Threads, EnterThreadexit(t) \/ Elsewhere(t) \/ EnterCouldbelinking(t)
                               \/ RelockAll(t) \/ WakeAll(t)
      PROVE  u \in Synched' /\ pc'[u] \in AtCall
  <2>1. /\ UNCHANGED <<todo, initexit, listed, at_syscall_at_flush>>
        /\ \A v \in Threads \ {t} : pc'[v] = pc[v]
        /\ pc[t] \notin Stages
    BY <1>3, Zenon DEF EnterThreadexit, Elsewhere, EnterCouldbelinking, RelockAll, WakeAll, LinkOrWait,
      FMove, FGoto, FsTypeOK, Stages, flags, flusher
  <2>2. t = u => pc'[t] \in AtCall
    BY <1>3, <1>b, <2>1, ZenonT(60) DEF EnterThreadexit, Elsewhere, EnterCouldbelinking, RelockAll, WakeAll,
      LinkOrWait, FMove, FGoto, FsTypeOK, AtCall
  <2> QED BY <1>2, <2>1, <2>2, Zenon
<1>4. ASSUME NEW t \in Threads,
             LeaveLinking(t) \/ (\E l \in {"cache", "relink", "flush", "move"} : EnterNolinking(t, l))
             \/ Notify(t) \/ WakeUnlink(t) \/ LockedMove(t)
      PROVE  u \in Synched' /\ pc'[u] \in AtCall
  <2>1. /\ UNCHANGED <<todo, initexit, listed, at_syscall_at_flush>>
        /\ \A v \in Threads \ {t} : pc'[v] = pc[v]
        /\ pc[t] \notin Stages \cup AtCall
    BY <1>4, Zenon DEF LeaveLinking, EnterNolinking, Notify, WakeUnlink, LockedMove, FMove, FGoto,
      FsTypeOK, Stages, AtCall, flags, flusher
  <2>2. t # u
    BY <1>b, <2>1, Zenon
  <2> QED BY <1>2, <2>1, <2>2, Zenon
<1>5. ASSUME NEW t \in Threads, NEW v \in Threads, Visit(t, v)
      PROVE  u \in Synched' /\ pc'[u] \in AtCall
  <2>1. /\ pc[t] = "stage1" /\ initexit = t /\ v \in todo /\ v \in listed
        /\ UNCHANGED <<initexit, listed>>
    BY <1>5, Zenon DEF Visit, OneFlusher, Stages, FsTypeOK
  <2>2. CASE v # t /\ could_be_linking[v]
    <3>1. UNCHANGED <<at_syscall_at_flush, todo>> /\ pc' = [pc EXCEPT ![t] = "await"]
      BY <1>5, <2>2, Zenon DEF Visit, FGoto
    <3> QED BY <1>b, <2>1, <3>1, Zenon DEF Synched, Stages, FsTypeOK, AtCall
  <2>3. CASE ~(v # t /\ could_be_linking[v])
    <3>1. /\ at_syscall_at_flush' =
               [at_syscall_at_flush EXCEPT ![v] = ~about_to_exit[v] /\ pc[v] = "syscall"]
          /\ todo' = todo \ {v} /\ UNCHANGED pc
      BY <1>5, <2>3, Zenon DEF Visit, Stopped
    <3>2. CASE u = v
      BY <2>1, <3>1, <3>2, Zenon DEF Synched, Stages, FsTypeOK, AtCall
    <3>3. CASE u # v
      BY <1>b, <2>1, <3>1, <3>3, Zenon DEF Synched, Stages, FsTypeOK
    <3> QED BY <3>2, <3>3, Zenon
  <2> QED BY <2>2, <2>3, Zenon
<1>6. ASSUME NEW t \in Threads, AwaitWake(t) \/ Resynch(t)
      PROVE  u \in Synched' /\ pc'[u] \in AtCall
  <2>1. /\ pc[t] \in {"await", "woken"} /\ initexit = t /\ UNCHANGED <<initexit, listed>>
        /\ pc'[t] \in {"stage1", "woken"} /\ \A v \in Threads \ {t} : pc'[v] = pc[v]
        /\ todo' \subseteq todo
    BY <1>6 DEF AwaitWake, Resynch, Stopped, FGoto, OneFlusher, Stages, FsTypeOK, flusher
  <2>2. at_syscall_at_flush[u]
    <3>1. CASE AwaitWake(t)
      BY <3>1, Zenon DEF AwaitWake, flags
    <3>2. CASE Resynch(t)
      BY <3>2, Zenon DEF Resynch, Stopped, Awaiting, FsTypeOK
    <3> QED BY <1>6, <3>1, <3>2, Zenon
  <2> QED BY <1>b, <2>1, <2>2, Zenon DEF Synched, Stages, AtCall
<1>7. ASSUME NEW t \in Threads, UnlinkShared(t)
      PROVE  u \in Synched' /\ pc'[u] \in AtCall
  BY <1>7, <1>b, ZenonT(60) DEF UnlinkShared, FGoto, OneFlusher, Synched, Stages, FsTypeOK, AtCall, flags
<1>8. ASSUME NEW t \in Threads, NEW v \in Threads, Release(t, v)
      PROVE  u \in Synched' /\ pc'[u] \in AtCall
  <2>1. u # v /\ at_syscall_at_flush[u] /\ todo' = todo \ {v}
        /\ UNCHANGED <<initexit, listed, pc>> /\ pc[t] = "stage3" /\ initexit = t
    BY <1>8, Zenon DEF Release, FsTypeOK, OneFlusher, Stages
  <2> QED BY <1>b, <2>1, Zenon DEF Synched, Stages, OneFlusher
<1>9. ASSUME NEW t \in Threads, NEW l \in {"relink", "syscall", "cache"}, FlushEnd(t, l)
      PROVE  u \in Synched' /\ pc'[u] \in AtCall
  BY <1>9, <1>b, Zenon DEF FlushEnd, FGoto, OneFlusher, Synched, Stages, FsTypeOK, flags
<1>10. CASE UNCHANGED fsvars
  BY <1>10, <1>b, Zenon DEF fsvars, flags, flusher, Synched
<1> QED
  BY <1>1, <1>3, <1>4, <1>5, <1>6, <1>7, <1>8, <1>9, <1>10, Zenon DEF FsNext, FsProgress

\* The inductive invariant holds throughout.
THEOREM FsInvariance == FsSafety => []FsIInv
<1> QED BY FsInitInv, FsNextInv, PTL DEF FsSafety

\* A thread that flush_fragments_synch_priv is done with stays off the fragments
\* until flush_fragments_end_synch lets it go.
THEOREM FlushQuiescent == FsSafety => []Quiescent
<1>1. FsIInv => Quiescent
  BY Zenon DEF FsIInv, StaysStopped, Quiescent
<1> QED BY <1>1, FsInvariance, PTL

-----------------------------------------------------------------------------
\* A nonempty set of naturals has a least element.
LEMMA LeastNatural ==
  ASSUME NEW T, T \subseteq Nat, T # {}
  PROVE  \E x \in T : \A y \in T : x <= y
<1> DEFINE Less == OpToRel(<, Nat)
<1>1. IsWellFoundedOn(Less, Nat)
  BY NatLessThanWellFounded, Zenon
<1> HIDE DEF Less
<1>2. PICK x \in T : \A y \in T : ~ (<<y, x>> \in Less)
  BY <1>1, WFMin, Zenon
<1>3. \A y \in T : ~ (y < x)
  BY <1>2, Zenon DEF Less, OpToRel
<1> QED
  BY <1>3

\* The members of K that are not above i.
UpTo(K, i) == K \cap (1..i)

\* The n-th member of a set of indices, counted from below, exists.
LEMMA NthExists ==
  ASSUME NEW m \in Nat, NEW K, K \subseteq 1..m, NEW n \in 1..Cardinality(K)
  PROVE  \E i \in K : Cardinality(UpTo(K, i)) = n
<1>1. /\ IsFiniteSet(K)
      /\ Cardinality(K) \in Nat
  <2>1. IsFiniteSet(1..m)
    BY FS_Interval
  <2>2. IsFiniteSet(K)
    BY <2>1, FS_Subset, Zenon
  <2> QED BY <2>2, FS_CardinalityType, Zenon
<1>2. \A i \in Int : IsFiniteSet(UpTo(K, i)) /\ Cardinality(UpTo(K, i)) \in Nat
  BY <1>1, FS_Subset, FS_CardinalityType, Zenon DEF UpTo
<1> DEFINE T == {i \in 0..m : Cardinality(UpTo(K, i)) >= n}
<1>3. m \in T
  <2>1. UpTo(K, m) = K
    BY Zenon DEF UpTo
  <2> QED BY <1>1, <2>1
<1>4. PICK i \in T : \A y \in T : i <= y
  <2>1. T \subseteq Nat /\ T # {}
    BY <1>3
  <2> HIDE DEF T
  <2> QED BY <2>1, LeastNatural, Zenon
<1>5. i # 0
  <2>1. UpTo(K, 0) = {}
    BY DEF UpTo
  <2> QED BY <2>1, FS_EmptySet
<1>6. i - 1 \in 0..m /\ Cardinality(UpTo(K, i - 1)) < n
  BY <1>2, <1>4, <1>5
<1>7. i \in K
  <2>1. ASSUME i \notin K PROVE UpTo(K, i) = UpTo(K, i - 1)
    BY <1>4, <1>5, <2>1 DEF UpTo
  <2> QED BY <1>4, <1>6, <2>1
<1>8. UpTo(K, i) = UpTo(K, i - 1) \cup {i}
  BY <1>4, <1>5, <1>7 DEF UpTo
<1>9. Cardinality(UpTo(K, i)) <= Cardinality(UpTo(K, i - 1)) + 1
  <2> DEFINE U == UpTo(K, i - 1)
  <2>1. IsFiniteSet(U) /\ Cardinality(U) \in Nat
    BY <1>2, <1>4
  <2> HIDE DEF U
  <2>2. Cardinality(U \cup {i}) = IF i \in U THEN Cardinality(U) ELSE Cardinality(U) + 1
    BY <2>1, FS_AddElement, Zenon
  <2>3. Cardinality(U \cup {i}) <= Cardinality(U) + 1
    BY <2>1, <2>2
  <2> QED BY <1>8, <2>3, Zenon DEF U
<1> QED
  BY <1>2, <1>4, <1>6, <1>7, <1>9

\* Later members have more members up to them.
LEMMA NthOrdered ==
  ASSUME NEW m \in Nat, NEW K, K \subseteq 1..m, NEW i \in K, NEW j \in K,
         Cardinality(UpTo(K, i)) < Cardinality(UpTo(K, j))
  PROVE  i < j
<1>1. IsFiniteSet(K)
  <2>1. IsFiniteSet(1..m)
    BY FS_Interval
  <2> QED BY <2>1, FS_Subset, Zenon
<1>2. \A k \in K : IsFiniteSet(UpTo(K, k)) /\ Cardinality(UpTo(K, k)) \in Nat
  BY <1>1, FS_Subset, FS_CardinalityType, Zenon DEF UpTo
<1>3. ASSUME j <= i PROVE Cardinality(UpTo(K, j)) <= Cardinality(UpTo(K, i))
  <2>1. UpTo(K, j) \subseteq UpTo(K, i)
    BY <1>3 DEF UpTo
  <2> QED BY <1>2, <2>1, FS_Subset, Zenon
<1> QED
  BY <1>2, <1>3

-----------------------------------------------------------------------------
\* Entries of the two lists.  Nobody has signed off time 0.
PendingEntry == [frags : SUBSET Frags, ref_count : Nat \ {0}, flushtime_deleted : Nat]
LazyEntry == [f : Frags, flushtime : Nat \ {0}]

SdTypeOK ==
  /\ flushtime_global \in Nat
  /\ flushtime_last_update \in [Threads -> Nat]
  /\ shared_delete \in Seq(PendingEntry)
  /\ lazy_delete_list \in Seq(LazyEntry)
  /\ move_pending \in BOOLEAN
  /\ frag \in [Frags -> {"live", "deleted", "freed"}]
  /\ at \in [Threads -> Frags \cup {NoFrag}]
  /\ last_fragment \in [Threads -> Frags \cup {NoFrag}]

\* No thread is ahead of the global time, no entry either, and a lazily deleted
\* fragment is at most one ahead.
TimesBounded ==
  /\ \A t \in Threads : flushtime_last_update[t] <= flushtime_global
  /\ \A i \in DOMAIN shared_delete : shared_delete[i].flushtime_deleted <= flushtime_global
  /\ \A i \in DOMAIN lazy_delete_list : lazy_delete_list[i].flushtime <= flushtime_global + 1

\* The fields of a pending entry.
LEMMA PendingTypes ==
  ASSUME SdTypeOK
  PROVE  /\ Len(shared_delete) \in Nat /\ DOMAIN shared_delete = 1..Len(shared_delete)
         /\ \A i \in 1..Len(shared_delete) :
              /\ shared_delete[i] \in PendingEntry
              /\ shared_delete[i].frags \subseteq Frags
              /\ shared_delete[i].ref_count \in Nat /\ shared_delete[i].ref_count > 0
              /\ shared_delete[i].flushtime_deleted \in Nat
<1>1. \A i \in 1..Len(shared_delete) : shared_delete[i] \in PendingEntry
  BY DEF SdTypeOK
<1> QED
  BY <1>1, SMTT(30) DEF SdTypeOK, PendingEntry

\* The fields of a fragment on the lazy list.
LEMMA LazyTypes ==
  ASSUME SdTypeOK
  PROVE  /\ Len(lazy_delete_list) \in Nat
         /\ DOMAIN lazy_delete_list = 1..Len(lazy_delete_list)
         /\ \A i \in 1..Len(lazy_delete_list) :
              /\ lazy_delete_list[i] \in LazyEntry
              /\ lazy_delete_list[i].f \in Frags
              /\ lazy_delete_list[i].flushtime \in Nat /\ lazy_delete_list[i].flushtime > 0
<1>1. \A i \in 1..Len(lazy_delete_list) : lazy_delete_list[i] \in LazyEntry
  BY DEF SdTypeOK
<1> QED
  BY <1>1 DEF SdTypeOK, LazyEntry

\* The walk over the pending entries stops after exactly those that are newer
\* than the thread's last look, because the list is sorted.
LEMMA UnsignedExact ==
  ASSUME SdTypeOK, ListsSorted, NEW now \in Nat
  PROVE  /\ Unsigned(now) \in 0..Len(shared_delete)
         /\ \A i \in DOMAIN shared_delete :
              i <= Unsigned(now) <=> now < shared_delete[i].flushtime_deleted
<1> DEFINE n == Len(shared_delete)
           time(i) == shared_delete[i].flushtime_deleted
           T == {k \in 0..n : k < n => ~(now < time(k + 1))}
           P(k) == /\ \A i \in 1..k : now < time(i)
                   /\ k < n => ~(now < time(k + 1))
<1>1. n \in Nat /\ DOMAIN shared_delete = 1..n /\ \A i \in 1..n : time(i) \in Nat
  BY PendingTypes, Zenon
<1>2. PICK k \in T : \A y \in T : k <= y
  <2>1. T \subseteq Nat /\ n \in T
    BY <1>1
  <2> HIDE DEF T
  <2> QED BY <2>1, LeastNatural, Zenon
<1>3. P(k)
  <2>1. ASSUME NEW i \in 1..k PROVE now < time(i)
    <3>1. i - 1 \in 0..n /\ i - 1 < n /\ ~(k <= i - 1)
      BY <1>1, <1>2
    <3>2. i - 1 \notin T
      BY <1>2, <3>1, Zenon
    <3> QED BY <1>1, <3>1, <3>2
  <2> QED BY <1>2, <2>1, Zenon
<1>4. Unsigned(now) \in 0..n /\ P(Unsigned(now))
  <2>1. \E j \in 0..n : P(j)
    BY <1>2, <1>3, Zenon
  <2>2. Unsigned(now) = CHOOSE j \in 0..n : P(j)
    BY Zenon DEF Unsigned
  <2> HIDE DEF P
  <2> QED BY <2>1, <2>2, Zenon
<1>5. ASSUME NEW i \in 1..n, i > Unsigned(now) PROVE ~(now < time(i))
  <2>1. Unsigned(now) + 1 \in 1..n /\ ~(now < time(Unsigned(now) + 1))
    BY <1>1, <1>4, <1>5
  <2>2. time(i) <= time(Unsigned(now) + 1)
    BY <1>1, <1>4, <1>5, <2>1 DEF ListsSorted
  <2> QED BY <1>1, <2>1, <2>2
<1> QED
  BY <1>1, <1>4, <1>5

\* check_lazy_deletion_list takes a head of the list whose times have come.
LEMMA LazyExpiredBound ==
  ASSUME SdTypeOK, NEW time \in Nat
  PROVE  /\ LazyExpired(time) \in 0..Len(lazy_delete_list)
         /\ \A i \in 1..LazyExpired(time) : lazy_delete_list[i].flushtime <= time
<1> DEFINE n == Len(lazy_delete_list)
           T == {k \in 0..n : k < n => lazy_delete_list[k + 1].flushtime > time}
           P(k) == /\ \A i \in 1..k : lazy_delete_list[i].flushtime <= time
                   /\ k < n => lazy_delete_list[k + 1].flushtime > time
<1>1. n \in Nat /\ \A i \in 1..n : lazy_delete_list[i].flushtime \in Nat
  BY LazyTypes, Zenon
<1>2. PICK k \in T : \A y \in T : k <= y
  <2>1. T \subseteq Nat /\ n \in T
    BY <1>1
  <2> HIDE DEF T
  <2> QED BY <2>1, LeastNatural, Zenon
<1>3. P(k)
  <2>1. ASSUME NEW i \in 1..k PROVE lazy_delete_list[i].flushtime <= time
    <3>1. i - 1 \in 0..n /\ i - 1 < n /\ ~(k <= i - 1)
      BY <1>1, <1>2
    <3>2. i - 1 \notin T
      BY <1>2, <3>1, Zenon
    <3> QED BY <1>1, <3>1, <3>2
  <2> QED BY <1>2, <2>1, Zenon
<1>4. \E j \in 0..n : P(j)
  BY <1>2, <1>3, Zenon
<1>5. LazyExpired(time) = CHOOSE j \in 0..n : P(j)
  BY Zenon DEF LazyExpired
<1>6. LazyExpired(time) \in 0..n /\ P(LazyExpired(time))
  <2> HIDE DEF P
  <2> QED BY <1>4, <1>5, Zenon
<1> QED
  BY <1>6, Zenon

\* Taking out the entries nobody refers to keeps the others and their order.
LEMMA ReferencedInOrder ==
  ASSUME NEW S, NEW l \in Seq(S)
  PROVE  \E g \in [1..Len(Referenced(l)) -> 1..Len(l)] :
           /\ Referenced(l) \in Seq(S)
           /\ \A k \in 1..Len(Referenced(l)) :
                Referenced(l)[k] = l[g[k]] /\ l[g[k]].ref_count # 0
           /\ \A j, k \in 1..Len(Referenced(l)) : j < k => g[j] < g[k]
<1> DEFINE kept == {i \in DOMAIN l : l[i].ref_count # 0}
           m == Cardinality(kept)
           nth(n) == CHOOSE i \in kept : Cardinality(UpTo(kept, i)) = n
           g == [n \in 1..m |-> nth(n)]
<1>1. Len(l) \in Nat /\ kept \subseteq 1..Len(l)
  OBVIOUS
<1>2. m \in Nat
  <2>1. IsFiniteSet(1..Len(l))
    BY <1>1, FS_Interval
  <2> HIDE DEF kept
  <2>2. IsFiniteSet(kept)
    BY <1>1, <2>1, FS_Subset, Zenon
  <2> QED BY <2>2, FS_CardinalityType, Zenon
<1>3. Referenced(l) = [n \in 1..m |-> l[nth(n)]]
  BY Zenon DEF Referenced, UpTo
<1>4. \A n \in 1..m : nth(n) \in kept /\ Cardinality(UpTo(kept, nth(n))) = n
  <2> SUFFICES ASSUME NEW n \in 1..m PROVE nth(n) \in kept /\ Cardinality(UpTo(kept, nth(n))) = n
    BY Zenon
  <2> HIDE DEF kept
  <2>1. \E i \in kept : Cardinality(UpTo(kept, i)) = n
    BY <1>1, NthExists, Zenon
  <2> QED BY <2>1, Zenon
<1>5. \A j, k \in 1..m : j < k => nth(j) < nth(k)
  <2> SUFFICES ASSUME NEW j \in 1..m, NEW k \in 1..m, j < k PROVE nth(j) < nth(k)
    BY Zenon
  <2>1. /\ nth(j) \in kept /\ nth(k) \in kept
        /\ Cardinality(UpTo(kept, nth(j))) < Cardinality(UpTo(kept, nth(k)))
    BY <1>4, Zenon
  <2> HIDE DEF kept, nth
  <2> QED BY <1>1, <2>1, NthOrdered, Zenon
<1>6. \A n \in 1..m : nth(n) \in 1..Len(l) /\ l[nth(n)].ref_count # 0 /\ l[nth(n)] \in S
  <2> HIDE DEF nth
  <2> QED BY <1>4
<1> HIDE DEF nth, kept
<1>7. Referenced(l) \in Seq(S) /\ Len(Referenced(l)) = m
  BY <1>2, <1>3, <1>6
<1>8. g \in [1..m -> 1..Len(l)]
  BY <1>6, Zenon
<1>9. \A k \in 1..m : g[k] = nth(k) /\ Referenced(l)[k] = l[g[k]]
  BY <1>3, Zenon
<1>10. /\ \A k \in 1..m : Referenced(l)[k] = l[g[k]] /\ l[g[k]].ref_count # 0
       /\ \A j, k \in 1..m : j < k => g[j] < g[k]
  BY <1>5, <1>6, <1>9, Zenon
<1> HIDE DEF g, m
<1> QED
  BY <1>7, <1>8, <1>10, Zenon

\* Thread t has not signed off the entry p.
Due(t, p) == flushtime_last_update[t] < p.flushtime_deleted

\* What vm_area_check_shared_pending subtracts for thread t.
SignedOffIs(t, p) == IF Due(t, p) THEN p.ref_count - 1 ELSE p.ref_count

\* The last reference to an entry is t's, and the entry takes f with it.
FreedBy(t, f) ==
  \E j \in 1..Len(shared_delete) :
    /\ Due(t, shared_delete[j]) /\ shared_delete[j].ref_count = 1
    /\ \/ f \in shared_delete[j].frags
       \/ \E i \in 1..Len(lazy_delete_list) :
            /\ lazy_delete_list[i].f = f
            /\ lazy_delete_list[i].flushtime <= shared_delete[j].flushtime_deleted

\* The list after thread t has signed off, before anything is unlinked.
LEMMA SignedOffEntries ==
  ASSUME SdTypeOK, ListsSorted, NEW t \in Threads
  PROVE  LET l == SignedOff(flushtime_last_update[t])
         IN  /\ l \in Seq([frags : SUBSET Frags, ref_count : Nat, flushtime_deleted : Nat])
             /\ Len(l) = Len(shared_delete) /\ DOMAIN l = 1..Len(shared_delete)
             /\ \A i \in 1..Len(shared_delete) :
                  /\ l[i].frags = shared_delete[i].frags
                  /\ l[i].flushtime_deleted = shared_delete[i].flushtime_deleted
                  /\ l[i].ref_count = SignedOffIs(t, shared_delete[i])
<1> DEFINE now == flushtime_last_update[t]
           n == Len(shared_delete)
           l == SignedOff(now)
<1>1. now \in Nat
  BY Zenon DEF SdTypeOK
<1>2. \A i \in 1..n : i <= Unsigned(now) <=> Due(t, shared_delete[i])
  BY <1>1, UnsignedExact, PendingTypes, Zenon DEF Due
<1>3. l = [i \in 1..n |-> IF Due(t, shared_delete[i])
                          THEN [shared_delete[i] EXCEPT !.ref_count = @ - 1]
                          ELSE shared_delete[i]]
  BY <1>2, Zenon DEF SignedOff
<1>4. \A i \in 1..n :
        /\ l[i] \in [frags : SUBSET Frags, ref_count : Nat, flushtime_deleted : Nat]
        /\ l[i].frags = shared_delete[i].frags
        /\ l[i].flushtime_deleted = shared_delete[i].flushtime_deleted
        /\ l[i].ref_count = SignedOffIs(t, shared_delete[i])
  <2> SUFFICES ASSUME NEW i \in 1..n
               PROVE  /\ l[i] \in [frags : SUBSET Frags, ref_count : Nat, flushtime_deleted : Nat]
                      /\ l[i].frags = shared_delete[i].frags
                      /\ l[i].flushtime_deleted = shared_delete[i].flushtime_deleted
                      /\ l[i].ref_count = SignedOffIs(t, shared_delete[i])
    BY Zenon
  <2>1. shared_delete[i] \in [frags : SUBSET Frags, ref_count : Nat \ {0}, flushtime_deleted : Nat]
    BY PendingTypes, Zenon DEF PendingEntry
  <2> QED BY <1>3, <2>1 DEF SignedOffIs
<1>5. n \in Nat
  BY PendingTypes, Zenon
<1>6. DOMAIN l = 1..n
  BY <1>3, Zenon
<1>7. l \in Seq([frags : SUBSET Frags, ref_count : Nat, flushtime_deleted : Nat]) /\ Len(l) = n
  <2> DEFINE R == [frags : SUBSET Frags, ref_count : Nat, flushtime_deleted : Nat]
  <2>1. \A i \in 1..n : l[i] \in R
    BY <1>4, Zenon
  <2>2. l = [i \in 1..n |-> l[i]]
    BY <1>3, Zenon
  <2> HIDE DEF R, l
  <2>3. l \in Seq(R) /\ Len(l) = n
    BY <1>5, <2>1, <2>2
  <2> QED BY <2>3, Zenon DEF R
<1> HIDE DEF l
<1> QED
  BY <1>4, <1>6, <1>7, Zenon DEF l

\* The time handed to check_lazy_deletion_list is that of an entry being freed,
\* or 0 when none is.
LEMMA NewestFreed ==
  ASSUME NEW n \in Nat, NEW K, K \subseteq 1..n, NEW time \in [1..n -> Nat],
         \A i, j \in 1..n : i < j => time[i] >= time[j],
         NEW S, 0 \in S, \A i \in K : time[i] \in S,
         \A x \in S : x = 0 \/ \E i \in K : x = time[i]
  PROVE  Max(S) \in S
<1>1. \E x \in S : \A y \in S : x >= y
  <2>1. CASE K = {}
    BY <2>1
  <2>2. CASE K # {}
    <3>1. K \subseteq Nat
      OBVIOUS
    <3>2. PICK k \in K : \A i \in K : k <= i
      BY <2>2, <3>1, LeastNatural, Zenon
    <3>3. \A i \in K : time[k] >= time[i]
      BY <3>2
    <3>4. \A y \in S : time[k] >= y
      BY <3>2, <3>3
    <3> QED BY <3>2, <3>4, Zenon
  <2> QED BY <2>1, <2>2, Zenon
<1> QED
  BY <1>1, Zenon DEF Max

\* What a look at the queue by thread t does: it signs off the entries that are
\* due and keeps those still referred to, drops a head of the lazy list, and
\* frees only fragments of an entry whose last reference was t's, or fragments
\* lazily deleted no later than such an entry.
LEMMA CheckEffect ==
  ASSUME SdTypeOK, ListsSorted, NEW t \in Threads, CheckSharedPending(t)
  PROVE  /\ \E g \in [1..Len(shared_delete') -> 1..Len(shared_delete)] :
              /\ shared_delete' \in Seq(PendingEntry)
              /\ \A k \in 1..Len(shared_delete') :
                   /\ shared_delete'[k].frags = shared_delete[g[k]].frags
                   /\ shared_delete'[k].flushtime_deleted = shared_delete[g[k]].flushtime_deleted
                   /\ shared_delete'[k].ref_count = SignedOffIs(t, shared_delete[g[k]])
              /\ \A j, k \in 1..Len(shared_delete') : j < k => g[j] < g[k]
         /\ \E m \in 0..Len(lazy_delete_list) :
              /\ lazy_delete_list' \in Seq(LazyEntry)
              /\ Len(lazy_delete_list') = Len(lazy_delete_list) - m
              /\ \A i \in 1..Len(lazy_delete_list') :
                   lazy_delete_list'[i] = lazy_delete_list[i + m]
         /\ frag' \in [Frags -> {"live", "deleted", "freed"}]
         /\ \A f \in Frags : frag'[f] # frag[f] => frag'[f] = "freed" /\ FreedBy(t, f)
<1> DEFINE n == Len(shared_delete)
           R == [frags : SUBSET Frags, ref_count : Nat, flushtime_deleted : Nat]
           l == SignedOff(flushtime_last_update[t])
           tofree == {i \in DOMAIN l : l[i].ref_count = 0}
           newest == Max({l[i].flushtime_deleted : i \in tofree} \cup {0})
           lazies == LazyExpired(newest)
           gone == (UNION {l[i].frags : i \in tofree}) \cup {lazy_delete_list[i].f : i \in 1..lazies}
<1>a. /\ shared_delete' = Referenced(l)
      /\ lazy_delete_list' = SubSeq(lazy_delete_list, lazies + 1, Len(lazy_delete_list))
      /\ frag' = [f \in Frags |-> IF f \in gone THEN "freed" ELSE frag[f]]
  BY Zenon DEF CheckSharedPending
<1>b. /\ l \in Seq(R) /\ Len(l) = n /\ DOMAIN l = 1..n
      /\ \A i \in 1..n :
           /\ l[i].frags = shared_delete[i].frags
           /\ l[i].flushtime_deleted = shared_delete[i].flushtime_deleted
           /\ l[i].ref_count = SignedOffIs(t, shared_delete[i])
  BY SignedOffEntries, Zenon
<1>c. /\ n \in Nat
      /\ \A i \in 1..n : /\ shared_delete[i].frags \subseteq Frags
                         /\ shared_delete[i].ref_count \in Nat /\ shared_delete[i].ref_count > 0
                         /\ shared_delete[i].flushtime_deleted \in Nat
  BY PendingTypes, Zenon
<1> HIDE DEF l
<1>1. \E g \in [1..Len(shared_delete') -> 1..Len(shared_delete)] :
        /\ shared_delete' \in Seq(PendingEntry)
        /\ \A k \in 1..Len(shared_delete') :
             /\ shared_delete'[k].frags = shared_delete[g[k]].frags
             /\ shared_delete'[k].flushtime_deleted = shared_delete[g[k]].flushtime_deleted
             /\ shared_delete'[k].ref_count = SignedOffIs(t, shared_delete[g[k]])
        /\ \A j, k \in 1..Len(shared_delete') : j < k => g[j] < g[k]
  <2> DEFINE s == Referenced(l)
  <2>1. PICK g \in [1..Len(s) -> 1..n] :
          /\ s \in Seq(R)
          /\ \A k \in 1..Len(s) : s[k] = l[g[k]] /\ l[g[k]].ref_count # 0
          /\ \A j, k \in 1..Len(s) : j < k => g[j] < g[k]
    <3> HIDE DEF R
    <3> QED BY <1>b, ReferencedInOrder, Zenon
  <2> HIDE DEF s, R
  <2>2. \A k \in 1..Len(s) : s[k] \in PendingEntry
    <3> SUFFICES ASSUME NEW k \in 1..Len(s) PROVE s[k] \in PendingEntry
      BY Zenon
    <3>1. s[k] \in R /\ s[k].ref_count # 0
      BY <2>1
    <3> QED BY <3>1, Zenon DEF R, PendingEntry
  <2>3. s \in Seq(PendingEntry)
    BY <2>1, <2>2
  <2>4. \A k \in 1..Len(s) : /\ s[k].frags = shared_delete[g[k]].frags
                             /\ s[k].flushtime_deleted = shared_delete[g[k]].flushtime_deleted
                             /\ s[k].ref_count = SignedOffIs(t, shared_delete[g[k]])
    BY <1>b, <2>1, Zenon
  <2>5. shared_delete' = s
    BY <1>a, Zenon DEF s
  <2> QED BY <2>1, <2>3, <2>4, <2>5, Zenon
<1>2. tofree = {i \in 1..n : Due(t, shared_delete[i]) /\ shared_delete[i].ref_count = 1}
  <2>1. \A i \in 1..n : l[i].ref_count = 0 <=> Due(t, shared_delete[i]) /\ shared_delete[i].ref_count = 1
    BY <1>b, <1>c DEF SignedOffIs
  <2> QED BY <1>b, <2>1, Zenon
<1>3. newest \in Nat /\ (newest = 0 \/ \E i \in tofree : newest = shared_delete[i].flushtime_deleted)
  <2> DEFINE time == [i \in 1..n |-> shared_delete[i].flushtime_deleted]
  <2>1. /\ time \in [1..n -> Nat] /\ tofree \subseteq 1..n
        /\ \A i, j \in 1..n : i < j => time[i] >= time[j]
    BY <1>2, <1>c, PendingTypes, Zenon DEF ListsSorted
  <2> HIDE DEF tofree
  <2> DEFINE S == {l[i].flushtime_deleted : i \in tofree} \cup {0}
  <2>2. \A i \in tofree : time[i] = l[i].flushtime_deleted /\ time[i] = shared_delete[i].flushtime_deleted
    BY <1>b, <2>1, Zenon
  <2>3. /\ 0 \in S /\ \A i \in tofree : time[i] \in S
        /\ \A x \in S : x = 0 \/ \E i \in tofree : x = time[i]
    BY <2>2, Zenon
  <2>4. newest = Max(S)
    BY Zenon
  <2> HIDE DEF S, time, newest
  <2>5. newest \in S
    <3>1. n \in Nat
      BY <1>c, Zenon
    <3> HIDE DEF n
    <3>2. Max(S) \in S
      BY <2>1, <2>3, <3>1, NewestFreed, ZenonT(60)
    <3> QED BY <2>4, <3>2, Zenon
  <2>6. newest = 0 \/ \E i \in tofree : newest = time[i]
    BY <2>3, <2>5, Zenon
  <2> QED BY <1>c, <2>1, <2>2, <2>6
<1> HIDE DEF newest, tofree
<1>4. /\ lazies \in 0..Len(lazy_delete_list)
      /\ \A i \in 1..lazies : lazy_delete_list[i].flushtime <= newest
  BY <1>3, LazyExpiredBound, Zenon
<1> HIDE DEF lazies
<1>5. \E m \in 0..Len(lazy_delete_list) :
        /\ lazy_delete_list' \in Seq(LazyEntry)
        /\ Len(lazy_delete_list') = Len(lazy_delete_list) - m
        /\ \A i \in 1..Len(lazy_delete_list') : lazy_delete_list'[i] = lazy_delete_list[i + m]
  <2>1. lazy_delete_list \in Seq(LazyEntry)
    BY Zenon DEF SdTypeOK
  <2>2. /\ lazy_delete_list' \in Seq(LazyEntry)
        /\ Len(lazy_delete_list') = Len(lazy_delete_list) - lazies
        /\ \A i \in 1..Len(lazy_delete_list') : lazy_delete_list'[i] = lazy_delete_list[i + lazies]
    BY <1>a, <1>4, <2>1
  <2> QED BY <1>4, <2>2, Zenon
<1>6. frag' \in [Frags -> {"live", "deleted", "freed"}]
  BY <1>a, Zenon DEF SdTypeOK
<1>7. ASSUME NEW f \in Frags, frag'[f] # frag[f]
      PROVE  frag'[f] = "freed" /\ FreedBy(t, f)
  <2>1. frag'[f] = "freed" /\ f \in gone
    BY <1>a, <1>7, Zenon
  <2>2. CASE \E j \in tofree : f \in l[j].frags
    BY <1>2, <1>b, <2>1, <2>2, Zenon DEF FreedBy
  <2>3. CASE \E i \in 1..lazies : f = lazy_delete_list[i].f
    <3>1. PICK i \in 1..lazies : f = lazy_delete_list[i].f
      BY <2>3, Zenon
    <3>2. i \in 1..Len(lazy_delete_list) /\ lazy_delete_list[i].flushtime <= newest
      BY <1>4
    <3>3. newest # 0
      BY <1>3, <3>2, LazyTypes
    <3>4. PICK j \in tofree : newest = shared_delete[j].flushtime_deleted
      BY <1>3, <3>3, Zenon
    <3> QED BY <1>2, <2>1, <3>1, <3>2, <3>4, Zenon DEF FreedBy
  <2> QED BY <2>1, <2>2, <2>3, Zenon
<1> QED
  BY <1>1, <1>5, <1>6, <1>7, Zenon

-----------------------------------------------------------------------------
\* The fragments thread t executes, is about to execute or remembers.
Uses(t) == {at[t], last_fragment[t]} \ {NoFrag}

\* A fragment on either list can no longer be reached.
Unreachable ==
  /\ \A i \in DOMAIN shared_delete : \A f \in shared_delete[i].frags : frag[f] # "live"
  /\ \A i \in DOMAIN lazy_delete_list : frag[lazy_delete_list[i].f] # "live"

\* A thread that uses a fragment on one of the lists has not signed it off.
UsersOwe ==
  \A t \in listed : \A f \in Uses(t) :
    /\ \A i \in DOMAIN shared_delete : f \in shared_delete[i].frags => Due(t, shared_delete[i])
    /\ \A i \in DOMAIN lazy_delete_list :
         lazy_delete_list[i].f = f => flushtime_last_update[t] < lazy_delete_list[i].flushtime

\* What holds of the two lists and the threads that use fragments.
SdInv ==
  /\ SdTypeOK /\ TimesBounded /\ ListsSorted /\ RefCountCovers
  /\ Unreachable /\ UsersOwe /\ NoUseAfterFree

\* The threads that owe a sign-off of an entry can be counted.
LEMMA OwingFinite ==
  ASSUME listed \subseteq Threads, NEW p
  PROVE  IsFiniteSet(Owing(p)) /\ Cardinality(Owing(p)) \in Nat
<1>1. Owing(p) \subseteq Threads
  BY Zenon DEF Owing
<1>2. IsFiniteSet(Owing(p))
  BY <1>1, FlushAssumption, FS_Subset, Zenon
<1> QED
  BY <1>2, FS_CardinalityType, Zenon

\* The last reference to an entry is that of the only thread that owes it.
LEMMA LastReference ==
  ASSUME SdInv, listed \subseteq Threads, NEW t \in listed, NEW j \in 1..Len(shared_delete),
         Due(t, shared_delete[j]), shared_delete[j].ref_count = 1
  PROVE  \A u \in listed : Due(u, shared_delete[j]) => u = t
<1> DEFINE O == Owing(shared_delete[j])
<1>1. t \in O /\ IsFiniteSet(O) /\ Cardinality(O) \in Nat
  BY OwingFinite, Zenon DEF Owing, Due
<1>2. Cardinality(O) <= 1
  BY PendingTypes, Zenon DEF SdInv, RefCountCovers
<1>3. \A u \in listed : Due(u, shared_delete[j]) => u \in O
  BY Zenon DEF Owing, Due
<1> HIDE DEF O
<1>4. Cardinality(O \ {t}) = Cardinality(O) - 1 /\ IsFiniteSet(O \ {t})
  BY <1>1, FS_RemoveElement, Zenon
<1>5. O \ {t} = {}
  <2>1. Cardinality(O \ {t}) \in Nat
    BY <1>4, FS_CardinalityType, Zenon
  <2>2. Cardinality(O \ {t}) = 0
    BY <1>1, <1>2, <1>4, <2>1
  <2> QED BY <1>4, <2>2, FS_EmptySet, Zenon
<1> QED
  BY <1>3, <1>5, Zenon

\* A look at the queue by thread t, or one on its behalf, keeps all of it, if t
\* goes on with no fragment or with one that is still reachable.
LEMMA CheckKeeps ==
  ASSUME SdInv, listed \subseteq Threads, NEW t \in listed, CheckSharedPending(t),
         listed' = listed \/ listed' = listed \ {t}, build' = build,
         at' \in [Threads -> Frags \cup {NoFrag}],
         \A u \in Threads \ {t} : at'[u] = at[u],
         at'[t] = NoFrag \/ (at'[t] = at[t] /\ frag[at[t]] = "live")
  PROVE  SdInv'
<1> USE DEF SdInv
<1>t. t \in Threads
  BY Zenon
<1>a. /\ flushtime_global' = flushtime_global /\ move_pending' = move_pending
      /\ flushtime_last_update' = [flushtime_last_update EXCEPT ![t] = flushtime_global]
      /\ last_fragment' = [last_fragment EXCEPT ![t] =
                             IF WasDeleted(last_fragment[t]) THEN NoFrag ELSE last_fragment[t]]
  BY Zenon DEF CheckSharedPending
<1>b. PICK g \in [1..Len(shared_delete') -> 1..Len(shared_delete)] :
        /\ shared_delete' \in Seq(PendingEntry)
        /\ \A k \in 1..Len(shared_delete') :
             /\ shared_delete'[k].frags = shared_delete[g[k]].frags
             /\ shared_delete'[k].flushtime_deleted = shared_delete[g[k]].flushtime_deleted
             /\ shared_delete'[k].ref_count = SignedOffIs(t, shared_delete[g[k]])
        /\ \A j, k \in 1..Len(shared_delete') : j < k => g[j] < g[k]
  BY <1>t, CheckEffect, Zenon
<1>c. PICK m \in 0..Len(lazy_delete_list) :
        /\ lazy_delete_list' \in Seq(LazyEntry)
        /\ Len(lazy_delete_list') = Len(lazy_delete_list) - m
        /\ \A i \in 1..Len(lazy_delete_list') : lazy_delete_list'[i] = lazy_delete_list[i + m]
  BY <1>t, CheckEffect, Zenon
<1>d. /\ frag' \in [Frags -> {"live", "deleted", "freed"}]
      /\ \A f \in Frags : frag'[f] # frag[f] => frag'[f] = "freed" /\ FreedBy(t, f)
  BY <1>t, CheckEffect, Zenon
<1>e. /\ DOMAIN shared_delete = 1..Len(shared_delete) /\ Len(shared_delete) \in Nat
      /\ \A i \in 1..Len(shared_delete) : /\ shared_delete[i].frags \subseteq Frags
                                          /\ shared_delete[i].ref_count \in Nat
                                          /\ shared_delete[i].flushtime_deleted \in Nat
  BY PendingTypes, Zenon
<1>f. /\ DOMAIN lazy_delete_list = 1..Len(lazy_delete_list) /\ Len(lazy_delete_list) \in Nat
      /\ \A i \in 1..Len(lazy_delete_list) : /\ lazy_delete_list[i].f \in Frags
                                             /\ lazy_delete_list[i].flushtime \in Nat
  BY LazyTypes, Zenon
<1>g. /\ DOMAIN shared_delete' = 1..Len(shared_delete') /\ Len(shared_delete') \in Nat
      /\ DOMAIN lazy_delete_list' = 1..Len(lazy_delete_list') /\ Len(lazy_delete_list') \in Nat
  BY <1>b, <1>c
<1>h. \A i \in 1..Len(lazy_delete_list') : i + m \in 1..Len(lazy_delete_list)
  BY <1>c, <1>f, <1>g
<1>1. SdTypeOK'
  BY <1>a, <1>b, <1>c, <1>d, Zenon DEF SdTypeOK
<1>2. TimesBounded'
  <2>1. \A u \in Threads : flushtime_last_update'[u] <= flushtime_global'
    BY <1>a DEF TimesBounded, SdTypeOK
  <2>2. \A k \in 1..Len(shared_delete') : shared_delete'[k].flushtime_deleted <= flushtime_global'
    BY <1>a, <1>b, <1>e, Zenon DEF TimesBounded
  <2>3. \A i \in 1..Len(lazy_delete_list') : lazy_delete_list'[i].flushtime <= flushtime_global' + 1
    BY <1>a, <1>c, <1>f, <1>h, Zenon DEF TimesBounded
  <2> QED BY <1>g, <2>1, <2>2, <2>3, Zenon DEF TimesBounded
<1>3. ListsSorted'
  <2>1. \A j, k \in 1..Len(shared_delete') :
          j < k => shared_delete'[j].flushtime_deleted >= shared_delete'[k].flushtime_deleted
    <3> SUFFICES ASSUME NEW j \in 1..Len(shared_delete'), NEW k \in 1..Len(shared_delete'), j < k
                 PROVE  shared_delete'[j].flushtime_deleted >= shared_delete'[k].flushtime_deleted
      BY Zenon
    <3>1. g[j] \in 1..Len(shared_delete) /\ g[k] \in 1..Len(shared_delete) /\ g[j] < g[k]
      BY <1>b, Zenon
    <3>2. shared_delete[g[j]].flushtime_deleted >= shared_delete[g[k]].flushtime_deleted
      BY <1>e, <3>1, Zenon DEF ListsSorted
    <3> QED BY <1>b, <3>2, Zenon
  <2>2. \A i, j \in 1..Len(lazy_delete_list') :
          i < j => lazy_delete_list'[i].flushtime <= lazy_delete_list'[j].flushtime
    <3> SUFFICES ASSUME NEW i \in 1..Len(lazy_delete_list'), NEW j \in 1..Len(lazy_delete_list'), i < j
                 PROVE  lazy_delete_list'[i].flushtime <= lazy_delete_list'[j].flushtime
      BY Zenon
    <3>1. /\ i + m \in 1..Len(lazy_delete_list) /\ j + m \in 1..Len(lazy_delete_list)
          /\ i + m < j + m
      <4>1. i + m \in 1..Len(lazy_delete_list) /\ j + m \in 1..Len(lazy_delete_list)
        BY <1>h, Zenon
      <4>2. \A x, y, z \in Int : x < y => x + z < y + z
        BY SMT
      <4>3. i \in Int /\ j \in Int /\ m \in Int
        BY SMT
      <4> QED BY <4>1, <4>2, <4>3, Zenon
    <3>2. lazy_delete_list[i + m].flushtime <= lazy_delete_list[j + m].flushtime
      BY <1>f, <3>1, Zenon DEF ListsSorted
    <3> QED BY <1>c, <3>2, Zenon
  <2> QED BY <1>g, <2>1, <2>2, Zenon DEF ListsSorted
<1>4. RefCountCovers'
  <2> SUFFICES ASSUME NEW k \in 1..Len(shared_delete')
               PROVE  /\ shared_delete'[k].ref_count >= Cardinality(Owing(shared_delete[k])')
                      /\ build' = "debug" =>
                           shared_delete'[k].ref_count = Cardinality(Owing(shared_delete[k])')
    BY <1>g, Zenon DEF RefCountCovers
  <2> DEFINE p == shared_delete[g[k]]
             O == Owing(p)
  <2>1. g[k] \in 1..Len(shared_delete)
    BY <1>b, Zenon
  <2>2. Owing(shared_delete[k])' = O \ {t}
    <3>1. p.flushtime_deleted \in Nat /\ p.flushtime_deleted <= flushtime_global
      BY <1>e, <2>1, Zenon DEF TimesBounded
    <3>2. shared_delete'[k].flushtime_deleted = p.flushtime_deleted
      BY <1>b, Zenon
    <3> HIDE DEF p
    <3> QED BY <1>a, <3>1, <3>2 DEF Owing, SdTypeOK
  <2>3. t \in O <=> Due(t, p)
    BY Zenon DEF Owing, Due
  <2>4. IsFiniteSet(O) /\ Cardinality(O) \in Nat
    BY OwingFinite, Zenon
  <2>5. /\ p.ref_count >= Cardinality(O) /\ p.ref_count \in Nat
        /\ build = "debug" => p.ref_count = Cardinality(O)
    BY <1>e, <2>1, Zenon DEF RefCountCovers
  <2>6. shared_delete'[k].ref_count = IF t \in O THEN p.ref_count - 1 ELSE p.ref_count
    BY <1>b, <2>3, Zenon DEF SignedOffIs
  <2> HIDE DEF p, O
  <2>7. Cardinality(O \ {t}) = IF t \in O THEN Cardinality(O) - 1 ELSE Cardinality(O)
    BY <2>4, FS_RemoveElement, Zenon
  <2> QED BY <2>2, <2>4, <2>5, <2>6, <2>7
<1>5. \A f \in Frags : frag[f] # "live" => frag'[f] # "live"
  BY <1>d, Zenon
<1>6. Unreachable'
  <2>1. \A k \in 1..Len(shared_delete') : \A f \in shared_delete'[k].frags : frag'[f] # "live"
    <3> SUFFICES ASSUME NEW k \in 1..Len(shared_delete'), NEW f \in shared_delete'[k].frags
                 PROVE  frag'[f] # "live"
      BY Zenon
    <3>1. g[k] \in 1..Len(shared_delete) /\ f \in shared_delete[g[k]].frags
      BY <1>b, Zenon
    <3>2. f \in Frags /\ frag[f] # "live"
      BY <1>e, <3>1, Zenon DEF Unreachable
    <3> QED BY <1>5, <3>2, Zenon
  <2>2. \A i \in 1..Len(lazy_delete_list') : frag'[lazy_delete_list'[i].f] # "live"
    <3> SUFFICES ASSUME NEW i \in 1..Len(lazy_delete_list')
                 PROVE  frag'[lazy_delete_list'[i].f] # "live"
      BY Zenon
    <3>1. i + m \in 1..Len(lazy_delete_list) /\ lazy_delete_list'[i] = lazy_delete_list[i + m]
      BY <1>c, <1>h, Zenon
    <3>2. lazy_delete_list[i + m].f \in Frags /\ frag[lazy_delete_list[i + m].f] # "live"
      BY <1>f, <3>1, Zenon DEF Unreachable
    <3> QED BY <1>5, <3>1, <3>2, Zenon
  <2> QED BY <1>g, <2>1, <2>2, Zenon DEF Unreachable
<1>7. \A f \in Frags : FreedBy(t, f) => frag[f] # "live"
  BY <1>e, <1>f, Zenon DEF FreedBy, Unreachable
<1>8. \A f \in Uses(t)' : f \in Frags /\ frag[f] = "live"
  BY <1>a, FlushAssumption DEF Uses, WasDeleted, SdTypeOK
<1>9. \A u \in listed' : u # t =>
        /\ u \in listed /\ Uses(u)' = Uses(u) /\ Uses(u) \subseteq Frags
        /\ flushtime_last_update'[u] = flushtime_last_update[u]
        /\ flushtime_last_update[u] \in Nat
  BY <1>a DEF Uses, SdTypeOK
<1>10. UsersOwe'
  <2> SUFFICES ASSUME NEW u \in listed', NEW f \in Uses(u)'
               PROVE  /\ \A k \in 1..Len(shared_delete') :
                           f \in shared_delete'[k].frags => Due(u, shared_delete[k])'
                      /\ \A i \in 1..Len(lazy_delete_list') :
                           lazy_delete_list'[i].f = f =>
                             flushtime_last_update'[u] < lazy_delete_list'[i].flushtime
    BY <1>g, Zenon DEF UsersOwe
  <2>1. CASE u = t
    <3>1. f \in Frags /\ frag[f] = "live"
      BY <1>8, <2>1, ZenonT(60)
    <3>2. \A k \in 1..Len(shared_delete') : f \notin shared_delete'[k].frags
      BY <1>b, <1>e, <3>1, SMTT(30) DEF Unreachable
    <3>3. \A i \in 1..Len(lazy_delete_list') : lazy_delete_list'[i].f # f
      <4>1. \A i \in 1..Len(lazy_delete_list) : lazy_delete_list[i].f # f
        BY <1>f, <3>1, Zenon DEF Unreachable
      <4> QED BY <1>c, <1>h, <4>1, Zenon
    <3> QED BY <3>2, <3>3, Zenon
  <2>2. CASE u # t
    <3>1. /\ u \in listed /\ f \in Uses(u)
          /\ flushtime_last_update'[u] = flushtime_last_update[u]
      BY <1>9, <2>2, Zenon
    <3>2. \A k \in 1..Len(shared_delete') :
            f \in shared_delete'[k].frags => Due(u, shared_delete[k])'
      <4>1. \A i \in 1..Len(shared_delete) : f \in shared_delete[i].frags =>
              flushtime_last_update[u] < shared_delete[i].flushtime_deleted
        BY <1>e, <3>1, Zenon DEF UsersOwe, Due
      <4>2. \A k \in 1..Len(shared_delete') : f \in shared_delete'[k].frags =>
              flushtime_last_update[u] < shared_delete'[k].flushtime_deleted
        BY <1>b, <4>1, Zenon
      <4> QED BY <3>1, <4>2, Zenon DEF Due
    <3>3. \A i \in 1..Len(lazy_delete_list') :
            lazy_delete_list'[i].f = f => flushtime_last_update'[u] < lazy_delete_list'[i].flushtime
      <4>1. \A i \in 1..Len(lazy_delete_list) : lazy_delete_list[i].f = f =>
              flushtime_last_update[u] < lazy_delete_list[i].flushtime
        BY <1>f, <3>1, Zenon DEF UsersOwe
      <4> QED BY <1>c, <1>h, <3>1, <4>1, Zenon
    <3> QED BY <3>2, <3>3, Zenon
  <2> QED BY <2>1, <2>2, Zenon
<1>11. NoUseAfterFree'
  <2> SUFFICES ASSUME NEW u \in listed', NEW f \in Uses(u)' PROVE frag'[f] # "freed"
    BY Zenon DEF NoUseAfterFree, Uses
  <2>1. CASE u = t
    BY <1>7, <1>8, <1>d, <2>1, Zenon
  <2>2. CASE u # t
    <3>1. u \in listed /\ f \in Uses(u) /\ f \in Frags /\ flushtime_last_update[u] \in Nat
      BY <1>9, <2>2, Zenon
    <3>2. frag[f] # "freed"
      BY <3>1, Zenon DEF NoUseAfterFree, Uses
    <3>3. ASSUME FreedBy(t, f) PROVE FALSE
      <4>1. PICK j \in 1..Len(shared_delete) :
              /\ Due(t, shared_delete[j]) /\ shared_delete[j].ref_count = 1
              /\ \/ f \in shared_delete[j].frags
                 \/ \E i \in 1..Len(lazy_delete_list) :
                      /\ lazy_delete_list[i].f = f
                      /\ lazy_delete_list[i].flushtime <= shared_delete[j].flushtime_deleted
        BY <3>3, Zenon DEF FreedBy
      <4>2. Due(u, shared_delete[j])
        <5>1. CASE f \in shared_delete[j].frags
          BY <1>e, <3>1, <5>1, ZenonT(60) DEF UsersOwe
        <5>2. ASSUME NEW i \in 1..Len(lazy_delete_list), lazy_delete_list[i].f = f,
                     lazy_delete_list[i].flushtime <= shared_delete[j].flushtime_deleted
              PROVE  Due(u, shared_delete[j])
          <6>1. flushtime_last_update[u] < lazy_delete_list[i].flushtime
            BY <1>f, <3>1, <5>2, Zenon DEF UsersOwe
          <6>2. lazy_delete_list[i].flushtime \in Nat /\ shared_delete[j].flushtime_deleted \in Nat
            BY <1>e, <1>f, Zenon
          <6> QED BY <3>1, <5>2, <6>1, <6>2, SMTT(30) DEF Due
        <5> QED BY <4>1, <5>1, <5>2, Zenon
      <4> QED BY <2>2, <3>1, <4>1, <4>2, LastReference, Zenon
    <3> QED BY <1>d, <3>1, <3>2, <3>3, Zenon
  <2> QED BY <2>1, <2>2, Zenon
<1> QED
  BY <1>1, <1>2, <1>3, <1>4, <1>6, <1>10, <1>11, Zenon

\* New entries go in front, with the next time and a reference for each listed
\* thread; none of them has seen that time, so all of them owe the entries.
LEMMA PrependKeeps ==
  ASSUME SdInv, listed \subseteq Threads, NEW new \in Seq(PendingEntry),
         shared_delete' = new \o shared_delete,
         flushtime_global' = flushtime_global + 1,
         lazy_delete_list' = lazy_delete_list \/ lazy_delete_list' = <<>>,
         move_pending' \in BOOLEAN,
         UNCHANGED <<flushtime_last_update, last_fragment, at, listed, build>>,
         frag' \in [Frags -> {"live", "deleted", "freed"}],
         \A f \in Frags : frag'[f] = frag[f] \/ frag'[f] = "deleted",
         \A i \in 1..Len(new) :
           /\ new[i].ref_count = Cardinality(listed)
           /\ new[i].flushtime_deleted = flushtime_global + 1
           /\ \A f \in new[i].frags : frag'[f] # "live"
  PROVE  SdInv'
<1> USE DEF SdInv
<1> DEFINE n == Len(new)
           m == Len(shared_delete)
<1>a. /\ DOMAIN shared_delete = 1..m /\ m \in Nat
      /\ \A i \in 1..m : /\ shared_delete[i].frags \subseteq Frags
                         /\ shared_delete[i].ref_count \in Nat
                         /\ shared_delete[i].flushtime_deleted \in Nat
                         /\ shared_delete[i].flushtime_deleted <= flushtime_global
  BY PendingTypes, Zenon DEF TimesBounded
<1>b. /\ DOMAIN lazy_delete_list = 1..Len(lazy_delete_list) /\ Len(lazy_delete_list) \in Nat
      /\ \A i \in 1..Len(lazy_delete_list) : /\ lazy_delete_list[i].f \in Frags
                                             /\ lazy_delete_list[i].flushtime \in Nat
  BY LazyTypes, ZenonT(60)
<1>c. n \in Nat /\ flushtime_global \in Nat
  BY DEF SdTypeOK
<1>d. /\ shared_delete' \in Seq(PendingEntry) /\ Len(shared_delete') = n + m
      /\ DOMAIN shared_delete' = 1..(n + m)
      /\ \A k \in 1..(n + m) : shared_delete'[k] = IF k <= n THEN new[k] ELSE shared_delete[k - n]
  BY DEF SdTypeOK
<1>e. \A t \in Threads : flushtime_last_update[t] \in Nat /\ flushtime_last_update[t] <= flushtime_global
  BY Zenon DEF SdTypeOK, TimesBounded
<1>f. \A k \in 1..(n + m) :
        \/ /\ k \in 1..n /\ shared_delete'[k] = new[k]
        \/ /\ k > n /\ k - n \in 1..m /\ shared_delete'[k] = shared_delete[k - n]
  BY <1>a, <1>c, <1>d
<1>g. DOMAIN lazy_delete_list' = {} \/ lazy_delete_list' = lazy_delete_list
  OBVIOUS
<1>1. SdTypeOK'
  <2>1. lazy_delete_list' \in Seq(LazyEntry)
    <3>1. <<>> \in Seq(LazyEntry)
      OBVIOUS
    <3> QED BY <3>1, Zenon DEF SdTypeOK
  <2>2. flushtime_global' \in Nat
    BY <1>c
  <2> QED BY <1>d, <2>1, <2>2, Zenon DEF SdTypeOK
<1>2. TimesBounded'
  <2>1. \A t \in Threads : flushtime_last_update'[t] <= flushtime_global'
    BY <1>c, <1>e
  <2>2. \A k \in 1..(n + m) : shared_delete'[k].flushtime_deleted <= flushtime_global'
    <3> SUFFICES ASSUME NEW k \in 1..(n + m)
                 PROVE  shared_delete'[k].flushtime_deleted <= flushtime_global'
      BY Zenon
    <3>1. CASE k \in 1..n /\ shared_delete'[k] = new[k]
      BY <1>c, <3>1, SMTT(30)
    <3>2. CASE k - n \in 1..m /\ shared_delete'[k] = shared_delete[k - n]
      BY <1>a, <1>c, <3>2, SMTT(30)
    <3> QED BY <1>f, <3>1, <3>2, Zenon
  <2>3. \A i \in DOMAIN lazy_delete_list' : lazy_delete_list'[i].flushtime <= flushtime_global' + 1
    <3> SUFFICES ASSUME NEW i \in DOMAIN lazy_delete_list'
                 PROVE  lazy_delete_list'[i].flushtime <= flushtime_global' + 1
      BY Zenon
    <3>1. i \in DOMAIN lazy_delete_list /\ lazy_delete_list'[i] = lazy_delete_list[i]
      BY <1>g, Zenon
    <3>2. /\ lazy_delete_list[i].flushtime \in Nat
          /\ lazy_delete_list[i].flushtime <= flushtime_global + 1
      BY <1>b, <3>1, Zenon DEF TimesBounded
    <3> QED BY <1>c, <3>1, <3>2
  <2> QED BY <1>d, <2>1, <2>2, <2>3, ZenonT(60) DEF TimesBounded
<1>3. ListsSorted'
  <2>1. ASSUME NEW j \in 1..(n + m), NEW k \in 1..(n + m), j < k
        PROVE  shared_delete'[j].flushtime_deleted >= shared_delete'[k].flushtime_deleted
    <3>1. CASE j \in 1..n
      BY <1>a, <1>c, <1>f, <3>1
    <3>2. CASE j > n
      <4>1. j - n \in 1..m /\ k - n \in 1..m /\ j - n < k - n
        BY <1>a, <1>c, <2>1, <3>2, SMTT(30)
      <4>2. shared_delete'[j] = shared_delete[j - n] /\ shared_delete'[k] = shared_delete[k - n]
        BY <1>c, <1>d, <2>1, <3>2
      <4> QED BY <1>a, <4>1, <4>2, ZenonT(60) DEF ListsSorted
    <3> QED BY <1>c, <3>1, <3>2, SMTT(30)
  <2>2. \A i, j \in DOMAIN lazy_delete_list' :
          i < j => lazy_delete_list'[i].flushtime <= lazy_delete_list'[j].flushtime
    BY <1>g, Zenon DEF ListsSorted
  <2> QED BY <1>d, <2>1, <2>2, ZenonT(60) DEF ListsSorted
<1>4. RefCountCovers'
  <2> SUFFICES ASSUME NEW k \in 1..(n + m)
               PROVE  /\ shared_delete'[k].ref_count >= Cardinality(Owing(shared_delete[k])')
                      /\ build' = "debug" =>
                           shared_delete'[k].ref_count = Cardinality(Owing(shared_delete[k])')
    BY <1>d, Zenon DEF RefCountCovers
  <2>1. CASE k \in 1..n
    <3>1. /\ shared_delete'[k].ref_count = Cardinality(listed)
          /\ shared_delete'[k].flushtime_deleted = flushtime_global + 1
      BY <1>d, <2>1, SMTT(30)
    <3>2. Owing(shared_delete[k])' = listed
      BY <1>c, <1>e, <3>1 DEF Owing
    <3>3. Cardinality(listed) \in Nat
      BY FlushAssumption, FS_Subset, FS_CardinalityType, Zenon
    <3> QED BY <3>1, <3>2, <3>3, SMTT(30)
  <2>2. CASE k > n
    <3>1. k - n \in 1..m /\ shared_delete'[k] = shared_delete[k - n]
      BY <1>f, <2>2
    <3>2. Owing(shared_delete[k])' = Owing(shared_delete[k - n])
      BY <3>1, Zenon DEF Owing
    <3> QED BY <1>a, <3>1, <3>2, Zenon DEF RefCountCovers
  <2> QED BY <1>f, <2>1, <2>2, Zenon
<1>5. \A f \in Frags : frag[f] # "live" => frag'[f] # "live"
  BY Zenon
<1>6. Unreachable'
  <2>1. ASSUME NEW k \in 1..(n + m), NEW f \in shared_delete'[k].frags PROVE frag'[f] # "live"
    <3>1. CASE k \in 1..n
      BY <1>d, <2>1, <3>1
    <3>2. CASE k > n
      <4>1. k - n \in 1..m /\ f \in shared_delete[k - n].frags
        BY <1>f, <2>1, <3>2
      <4>2. f \in Frags /\ frag[f] # "live"
        BY <1>a, <4>1, Zenon DEF Unreachable
      <4> QED BY <1>5, <4>2, ZenonT(60)
    <3> QED BY <1>f, <3>1, <3>2, ZenonT(60)
  <2>2. \A i \in DOMAIN lazy_delete_list' : frag'[lazy_delete_list'[i].f] # "live"
    BY <1>b, <1>g, <1>5, Zenon DEF Unreachable
  <2> QED BY <1>d, <2>1, <2>2, Zenon DEF Unreachable
<1>7. \A t \in listed : Uses(t)' = Uses(t) /\ Uses(t) \subseteq Frags
  BY DEF Uses, SdTypeOK
<1>8. UsersOwe'
  <2> SUFFICES ASSUME NEW t \in listed, NEW f \in Uses(t)
               PROVE  /\ \A k \in 1..(n + m) :
                           f \in shared_delete'[k].frags =>
                             flushtime_last_update[t] < shared_delete'[k].flushtime_deleted
                      /\ \A i \in DOMAIN lazy_delete_list' :
                           lazy_delete_list'[i].f = f =>
                             flushtime_last_update[t] < lazy_delete_list'[i].flushtime
    BY <1>d, <1>7, ZenonT(60) DEF UsersOwe, Due
  <2>1. ASSUME NEW k \in 1..(n + m), f \in shared_delete'[k].frags
        PROVE  flushtime_last_update[t] < shared_delete'[k].flushtime_deleted
    <3>1. CASE k \in 1..n
      <4>1. shared_delete'[k].flushtime_deleted = flushtime_global + 1
        BY <1>d, <3>1
      <4> QED BY <1>c, <1>e, <4>1
    <3>2. CASE k > n
      <4>1. k - n \in 1..m /\ shared_delete'[k] = shared_delete[k - n]
        BY <1>f, <3>2
      <4> QED BY <1>a, <2>1, <4>1, Zenon DEF UsersOwe, Due
    <3> QED BY <1>f, <3>1, <3>2, Zenon
  <2>2. \A i \in DOMAIN lazy_delete_list' : lazy_delete_list'[i].f = f =>
          flushtime_last_update[t] < lazy_delete_list'[i].flushtime
    BY <1>g, Zenon DEF UsersOwe
  <2> QED BY <2>1, <2>2, Zenon
<1>9. NoUseAfterFree'
  <2>1. \A t \in listed : \A f \in Uses(t) : frag[f] # "freed"
    BY Zenon DEF NoUseAfterFree, Uses
  <2>2. \A t \in listed : \A f \in Uses(t)' : frag'[f] # "freed"
    BY <1>7, <2>1, Zenon
  <2> QED BY <2>2, Zenon DEF NoUseAfterFree, Uses
<1> QED
  BY <1>1, <1>2, <1>3, <1>4, <1>6, <1>8, <1>9, Zenon

\* AreaOrder lists elements of a finite set.
LEMMA AreaOrderElements ==
  ASSUME NEW S, IsFiniteSet(S)
  PROVE  /\ Cardinality(S) \in Nat
         /\ \A i \in 1..Cardinality(S) : AreaOrder(S)[i] \in S
<1>1. Cardinality(S) \in Nat /\ ExistsBijection(1..Cardinality(S), S)
  BY FS_CardinalityType, Zenon
<1>2. \E f \in [1..Cardinality(S) -> S] : IsInjective(f)
  BY <1>1, Zenon DEF ExistsBijection, Bijection, Injection, IsInjective
<1>3. AreaOrder(S) \in [1..Cardinality(S) -> S]
  BY <1>2, Zenon DEF AreaOrder
<1> QED
  BY <1>1, <1>3, Zenon

\* Stage 2 of a flush keeps all of it.
LEMMA UnlinkKeeps ==
  ASSUME SdInv, listed \subseteq Threads, listed # {}, NEW fs \in SUBSET Live,
         UnlinkFragments(fs, Cardinality(listed)), UNCHANGED <<at, listed, build>>
  PROVE  SdInv'
<1> DEFINE c == Cardinality(listed)
           new == [i \in 1..Cardinality(fs) |-> Entry({AreaOrder(fs)[i]}, c, flushtime_global')]
<1>a. /\ flushtime_global' = flushtime_global + 1 /\ flushtime_global \in Nat
      /\ shared_delete' = new \o shared_delete
      /\ frag' = [f \in Frags |-> IF f \in fs THEN "deleted" ELSE frag[f]]
      /\ UNCHANGED <<flushtime_last_update, lazy_delete_list, move_pending, last_fragment>>
  BY Zenon DEF UnlinkFragments, SdInv, SdTypeOK
<1>b. fs \subseteq Frags /\ IsFiniteSet(fs)
  BY FlushAssumption, FS_Subset, Zenon DEF Live
<1>c. c \in Nat \ {0}
  <2>1. IsFiniteSet(listed)
    BY FlushAssumption, FS_Subset, Zenon
  <2> QED BY <2>1, FS_CardinalityType, FS_EmptySet, Zenon
<1>d. Cardinality(fs) \in Nat /\ \A i \in 1..Cardinality(fs) : AreaOrder(fs)[i] \in fs
  BY <1>b, AreaOrderElements, ZenonT(60)
<1> HIDE DEF c
<1>e. \A i \in 1..Cardinality(fs) : /\ new[i] \in PendingEntry /\ new[i].ref_count = c
                                    /\ new[i].flushtime_deleted = flushtime_global + 1
                                    /\ new[i].frags \subseteq fs
  BY <1>a, <1>b, <1>c, <1>d DEF Entry, PendingEntry
<1>f. new \in Seq(PendingEntry) /\ Len(new) = Cardinality(fs)
  <2> DEFINE k == Cardinality(fs)
             e(i) == Entry({AreaOrder(fs)[i]}, c, flushtime_global')
  <2>1. k \in Nat /\ \A i \in 1..k : e(i) \in PendingEntry
    BY <1>d, <1>e, Zenon
  <2> HIDE DEF k, e
  <2>2. [i \in 1..k |-> e(i)] \in Seq(PendingEntry) /\ Len([i \in 1..k |-> e(i)]) = k
    BY <2>1
  <2> QED BY <2>2, Zenon DEF k, e
<1> HIDE DEF new
<1>g. \A i \in 1..Len(new) :
        /\ new[i].ref_count = Cardinality(listed)
        /\ new[i].flushtime_deleted = flushtime_global + 1
        /\ \A f \in new[i].frags : frag'[f] # "live"
  BY <1>a, <1>b, <1>e, <1>f, Zenon DEF c
<1>h. /\ frag' \in [Frags -> {"live", "deleted", "freed"}]
      /\ \A f \in Frags : frag'[f] = frag[f] \/ frag'[f] = "deleted"
  BY <1>a, Zenon DEF SdInv, SdTypeOK
<1>i. move_pending' \in BOOLEAN
  BY <1>a, Zenon DEF SdInv, SdTypeOK
<1> QED
  BY <1>a, <1>f, <1>g, <1>h, <1>i, PrependKeeps, Zenon

\* Moving the lazy list keeps all of it: its fragments get a time that nobody
\* has signed off either.
LEMMA MoveKeeps ==
  ASSUME SdInv, listed \subseteq Threads, listed # {},
         MoveLazyList(Cardinality(listed)), UNCHANGED <<at, listed, build>>
  PROVE  SdInv'
<1> DEFINE c == Cardinality(listed)
           fs == {x.f : x \in Range(lazy_delete_list)}
           e == Entry(fs, c, flushtime_global + 1)
<1>a. /\ flushtime_global' = flushtime_global + 1 /\ flushtime_global \in Nat
      /\ shared_delete' = <<e>> \o shared_delete
      /\ lazy_delete_list' = <<>> /\ move_pending' = FALSE
      /\ UNCHANGED <<flushtime_last_update, frag, last_fragment>>
  BY Zenon DEF MoveLazyList, SdInv, SdTypeOK
<1>b. c \in Nat \ {0}
  <2>1. IsFiniteSet(listed)
    BY FlushAssumption, FS_Subset, Zenon
  <2> QED BY <2>1, FS_CardinalityType, FS_EmptySet, Zenon
<1>c. fs \subseteq Frags /\ \A f \in fs : frag[f] # "live"
  BY LazyTypes, Zenon DEF Range, SdInv, Unreachable
<1> HIDE DEF c, fs
<1>d. /\ e \in PendingEntry /\ e.ref_count = c /\ e.frags = fs
      /\ e.flushtime_deleted = flushtime_global + 1
  BY <1>a, <1>b, <1>c DEF Entry, PendingEntry
<1>e. frag \in [Frags -> {"live", "deleted", "freed"}]
  BY Zenon DEF SdInv, SdTypeOK
<1> HIDE DEF e
<1> DEFINE new == <<e>>
<1>f. new \in Seq(PendingEntry) /\ Len(new) = 1 /\ new[1] = e
  BY <1>d
<1>g. shared_delete' = new \o shared_delete
  BY <1>a, Zenon
<1> HIDE DEF new
<1>h. \A i \in 1..Len(new) :
        /\ new[i].ref_count = Cardinality(listed)
        /\ new[i].flushtime_deleted = flushtime_global + 1
        /\ \A f \in new[i].frags : frag'[f] # "live"
  BY <1>a, <1>c, <1>d, <1>f DEF c
<1>i. move_pending' \in BOOLEAN
  BY <1>a, Zenon
<1> QED
  BY <1>a, <1>e, <1>f, <1>g, <1>h, <1>i, PrependKeeps, Zenon

\* A step that leaves the lists alone, after which a thread uses no other
\* fragment than before unless it is reachable.  A thread that leaves the list
\* of threads in a debug build owes nothing.
LEMMA UsesKeep ==
  ASSUME SdInv, listed \subseteq Threads, listed' \subseteq listed,
         UNCHANGED <<flushtime_global, flushtime_last_update, shared_delete, lazy_delete_list,
                     move_pending, frag, build>>,
         at' \in [Threads -> Frags \cup {NoFrag}],
         last_fragment' \in [Threads -> Frags \cup {NoFrag}],
         \A u \in listed' : Uses(u)' \subseteq Uses(u) \cup Live,
         build = "debug" =>
           \A u \in listed \ listed' : flushtime_last_update[u] = flushtime_global
  PROVE  SdInv'
<1> USE DEF SdInv
<1>a. /\ DOMAIN shared_delete = 1..Len(shared_delete)
      /\ \A i \in 1..Len(shared_delete) :
           /\ shared_delete[i].ref_count \in Nat
           /\ shared_delete[i].flushtime_deleted \in Nat
           /\ shared_delete[i].flushtime_deleted <= flushtime_global
  BY PendingTypes, Zenon DEF TimesBounded
<1>1. SdTypeOK'
  BY Zenon DEF SdTypeOK
<1>2. TimesBounded' /\ ListsSorted' /\ Unreachable'
  BY Zenon DEF TimesBounded, ListsSorted, Unreachable
<1>3. RefCountCovers'
  <2> SUFFICES ASSUME NEW k \in 1..Len(shared_delete)
               PROVE  /\ shared_delete[k].ref_count >= Cardinality(Owing(shared_delete[k])')
                      /\ build = "debug" =>
                           shared_delete[k].ref_count = Cardinality(Owing(shared_delete[k])')
    BY <1>a, Zenon DEF RefCountCovers
  <2> DEFINE O == Owing(shared_delete[k])
  <2>1. /\ IsFiniteSet(O) /\ Cardinality(O) \in Nat
        /\ shared_delete[k].ref_count >= Cardinality(O)
        /\ build = "debug" => shared_delete[k].ref_count = Cardinality(O)
    BY <1>a, OwingFinite, ZenonT(60) DEF RefCountCovers
  <2>2. O' \subseteq O /\ (build = "debug" => O' = O)
    BY <1>a DEF Owing, SdTypeOK
  <2>3. shared_delete[k].ref_count \in Nat
    BY <1>a, Zenon
  <2> HIDE DEF O
  <2>4. Cardinality(O') <= Cardinality(O) /\ Cardinality(O') \in Nat
    BY <2>1, <2>2, FS_Subset, FS_CardinalityType, ZenonT(60)
  <2>5. shared_delete[k].ref_count >= Cardinality(O')
    BY <2>1, <2>3, <2>4
  <2>6. build = "debug" => shared_delete[k].ref_count = Cardinality(O')
    BY <2>1, <2>2, Zenon
  <2> QED BY <2>5, <2>6, Zenon DEF O
<1>4. \A u \in listed' : \A f \in Uses(u)' :
        u \in listed /\ (f \in Uses(u) \/ (f \in Frags /\ frag[f] = "live"))
  BY Zenon DEF Live
<1>5. UsersOwe'
  <2>1. \A u \in listed' : \A f \in Uses(u)' : \A i \in DOMAIN shared_delete :
          f \in shared_delete[i].frags => Due(u, shared_delete[i])
    BY <1>4, Zenon DEF UsersOwe, Unreachable
  <2>2. \A u \in listed' : \A f \in Uses(u)' : \A i \in DOMAIN lazy_delete_list :
          lazy_delete_list[i].f = f => flushtime_last_update[u] < lazy_delete_list[i].flushtime
    BY <1>4, ZenonT(60) DEF UsersOwe, Unreachable
  <2> QED BY <2>1, <2>2, Zenon DEF UsersOwe, Due
<1>6. NoUseAfterFree'
  <2>1. \A u \in listed' : \A f \in Uses(u)' : frag[f] # "freed"
    BY <1>4, Zenon DEF NoUseAfterFree, Uses
  <2> QED BY <2>1, Zenon DEF NoUseAfterFree, Uses
<1> QED
  BY <1>1, <1>2, <1>3, <1>5, <1>6, Zenon

\* A new thread signs on at the present time, with nothing in its hands.
LEMMA JoinKeeps ==
  ASSUME SdInv, listed \subseteq Threads, NEW t \in Threads \ listed,
         JoinAtCurrentTime(t), listed' = listed \cup {t}, UNCHANGED <<at, build>>,
         Uses(t) = {}
  PROVE  SdInv'
<1> USE DEF SdInv
<1>a. /\ flushtime_last_update' = [flushtime_last_update EXCEPT ![t] = flushtime_global]
      /\ UNCHANGED <<flushtime_global, shared_delete, lazy_delete_list, move_pending, frag,
                     last_fragment>>
  BY Zenon DEF JoinAtCurrentTime
<1>b. \A u \in Threads \ {t} : flushtime_last_update'[u] = flushtime_last_update[u]
  BY <1>a, Zenon DEF SdTypeOK
<1>c. \A u \in Threads : Uses(u)' = Uses(u)
  BY <1>a, Zenon DEF Uses
<1>1. SdTypeOK'
  BY <1>a, Zenon DEF SdTypeOK
<1>2. TimesBounded' /\ ListsSorted' /\ Unreachable'
  <2>1. flushtime_last_update'[t] = flushtime_global /\ flushtime_global <= flushtime_global
    BY <1>a DEF SdTypeOK
  <2>2. \A u \in Threads : flushtime_last_update'[u] <= flushtime_global
    BY <1>b, <2>1, Zenon DEF TimesBounded
  <2>3. TimesBounded'
    BY <1>a, <2>2, Zenon DEF TimesBounded
  <2>4. ListsSorted' /\ Unreachable'
    BY <1>a, Zenon DEF ListsSorted, Unreachable
  <2> QED BY <2>3, <2>4, Zenon
<1>3. RefCountCovers'
  <2> SUFFICES ASSUME NEW k \in DOMAIN shared_delete
               PROVE  Owing(shared_delete[k])' = Owing(shared_delete[k])
    BY <1>a, Zenon DEF RefCountCovers
  <2>1. /\ shared_delete[k].flushtime_deleted \in Nat /\ flushtime_global \in Nat
        /\ shared_delete[k].flushtime_deleted <= flushtime_global
    BY PendingTypes, Zenon DEF TimesBounded, SdTypeOK
  <2>2. flushtime_last_update'[t] = flushtime_global
    BY <1>a, Zenon DEF SdTypeOK
  <2>3. ~(flushtime_last_update'[t] < shared_delete[k].flushtime_deleted)
    BY <2>1, <2>2
  <2>4. \A u \in listed : flushtime_last_update'[u] = flushtime_last_update[u]
    BY <1>b, Zenon
  <2> QED BY <1>a, <2>3, <2>4, Zenon DEF Owing
<1>4. UsersOwe'
  <2>1. \A u \in listed' : \A f \in Uses(u)' :
          u \in listed /\ f \in Uses(u) /\ flushtime_last_update'[u] = flushtime_last_update[u]
    BY <1>b, <1>c, Zenon
  <2> QED BY <1>a, <2>1 DEF UsersOwe, Due
<1>5. NoUseAfterFree'
  <2>1. \A u \in listed' : \A f \in Uses(u)' : frag'[f] # "freed"
    BY <1>a, <1>c, Zenon DEF NoUseAfterFree, Uses
  <2> QED BY <2>1, Zenon DEF NoUseAfterFree, Uses
<1> QED
  BY <1>1, <1>2, <1>3, <1>4, <1>5, Zenon

\* fragment_remove_shared_no_flush makes a fragment unreachable that is on
\* neither list.
LEMMA RemoveKeeps ==
  ASSUME SdInv, listed \subseteq Threads, NEW t \in Threads, NEW f \in Live,
         RemoveShared(f), Hold(t, f), UNCHANGED <<listed, build>>
  PROVE  SdInv'
<1> USE DEF SdInv
<1>a. /\ frag' = [frag EXCEPT ![f] = "deleted"] /\ at' = [at EXCEPT ![t] = f]
      /\ UNCHANGED <<flushtime_global, flushtime_last_update, shared_delete, lazy_delete_list,
                     move_pending, last_fragment>>
  BY Zenon DEF RemoveShared, Hold
<1>b. f \in Frags /\ frag[f] = "live"
  BY Zenon DEF Live
<1>c. /\ \A i \in DOMAIN shared_delete : f \notin shared_delete[i].frags
      /\ \A i \in DOMAIN lazy_delete_list : lazy_delete_list[i].f # f
  BY <1>b, Zenon DEF Unreachable
<1>d. \A u \in Threads : Uses(u)' \subseteq Uses(u) \cup {f}
  BY <1>a, Zenon DEF Uses, SdTypeOK
<1>1. SdTypeOK'
  BY <1>a, <1>b, Zenon DEF SdTypeOK
<1>2. TimesBounded' /\ ListsSorted' /\ RefCountCovers'
  BY <1>a, Zenon DEF TimesBounded, ListsSorted, RefCountCovers, Owing
<1>3. Unreachable'
  <2>1. \A g : frag[g] # "live" => frag'[g] # "live"
    BY <1>a, <1>b, SMTT(30) DEF SdTypeOK
  <2> QED BY <1>a, <2>1, Zenon DEF Unreachable
<1>4. UsersOwe'
  <2>1. \A u \in listed : \A h \in Uses(u)' : h = f \/ h \in Uses(u)
    BY <1>d, Zenon
  <2> QED BY <1>a, <1>c, <2>1 DEF UsersOwe, Due
<1>5. NoUseAfterFree'
  <2>1. \A u \in listed : \A h \in Uses(u) : h \in Frags /\ frag[h] # "freed"
    BY DEF NoUseAfterFree, Uses, SdTypeOK
  <2>2. \A u \in listed : \A h \in Uses(u)' : frag'[h] # "freed"
    BY <1>a, <1>b, <1>d, <2>1, ZenonT(60) DEF SdTypeOK
  <2> QED BY <1>a, <2>2, Zenon DEF NoUseAfterFree, Uses
<1> QED
  BY <1>1, <1>2, <1>3, <1>4, <1>5, Zenon

\* add_to_lazy_deletion_list: nobody has signed off the time it uses.
LEMMA LazyKeeps ==
  ASSUME SdInv, listed \subseteq Threads, NEW t \in Threads, NEW f \in Frags,
         frag[f] # "live", AddToLazyDeletionList(f), Hold(t, NoFrag), UNCHANGED <<listed, build>>
  PROVE  SdInv'
<1> USE DEF SdInv
<1> DEFINE e == [f |-> f, flushtime |-> flushtime_global + 1]
           n == Len(lazy_delete_list)
<1>a. /\ lazy_delete_list' = Append(lazy_delete_list, e) /\ at' = [at EXCEPT ![t] = NoFrag]
      /\ UNCHANGED <<flushtime_global, flushtime_last_update, shared_delete, frag, last_fragment>>
  BY Zenon DEF AddToLazyDeletionList, Hold
<1>b. /\ flushtime_global \in Nat /\ n \in Nat
      /\ \A i \in 1..n : /\ lazy_delete_list[i].flushtime \in Nat
                         /\ lazy_delete_list[i].flushtime <= flushtime_global + 1
  BY LazyTypes, ZenonT(60) DEF SdTypeOK, TimesBounded
<1>c. /\ e \in LazyEntry /\ e.f = f /\ e.flushtime = flushtime_global + 1
  BY <1>b, SMTT(30) DEF LazyEntry
<1> HIDE DEF e
<1>d. /\ lazy_delete_list' \in Seq(LazyEntry) /\ DOMAIN lazy_delete_list' = 1..(n + 1)
      /\ DOMAIN lazy_delete_list = 1..n
      /\ \A i \in 1..n : lazy_delete_list'[i] = lazy_delete_list[i]
      /\ lazy_delete_list'[n + 1] = e
  BY <1>a, <1>b, <1>c, SMTT(30) DEF SdTypeOK
<1> HIDE DEF n
<1>e. \A i \in 1..(n + 1) :
        (i \in 1..n /\ lazy_delete_list'[i] = lazy_delete_list[i]) \/ (i = n + 1 /\ lazy_delete_list'[i] = e)
  <2>1. \A i \in 1..(n + 1) : i \in 1..n \/ i = n + 1
    BY <1>b
  <2> QED BY <1>d, <2>1, Zenon
<1>f. \A u \in Threads : Uses(u)' \subseteq Uses(u)
  BY <1>a, Zenon DEF Uses, SdTypeOK
<1>1. SdTypeOK'
  <2>1. move_pending' \in BOOLEAN
    BY Zenon DEF AddToLazyDeletionList, SdTypeOK
  <2>2. at' \in [Threads -> Frags \cup {NoFrag}]
    BY <1>a, Zenon DEF SdTypeOK
  <2> QED BY <1>a, <1>d, <2>1, <2>2, Zenon DEF SdTypeOK
<1>2. TimesBounded'
  <2>1. \A i \in 1..(n + 1) : lazy_delete_list'[i].flushtime <= flushtime_global + 1
    <3> SUFFICES ASSUME NEW i \in 1..(n + 1)
                 PROVE  lazy_delete_list'[i].flushtime <= flushtime_global + 1
      BY Zenon
    <3>1. CASE i \in 1..n /\ lazy_delete_list'[i] = lazy_delete_list[i]
      BY <1>b, <3>1, ZenonT(60)
    <3>2. CASE i = n + 1 /\ lazy_delete_list'[i] = e
      BY <1>b, <1>c, <3>2
    <3> QED BY <1>e, <3>1, <3>2, Zenon
  <2> QED BY <1>a, <1>d, <2>1, Zenon DEF TimesBounded
<1>3. ListsSorted'
  <2>1. \A i, j \in 1..(n + 1) : i < j => lazy_delete_list'[i].flushtime <= lazy_delete_list'[j].flushtime
    <3> SUFFICES ASSUME NEW i \in 1..(n + 1), NEW j \in 1..(n + 1), i < j
                 PROVE  lazy_delete_list'[i].flushtime <= lazy_delete_list'[j].flushtime
      BY Zenon
    <3>1. i \in 1..n /\ (j \in 1..n \/ j = n + 1)
      BY <1>b
    <3>2. lazy_delete_list'[i] = lazy_delete_list[i]
      BY <1>d, <3>1, Zenon
    <3>3. CASE j \in 1..n
      BY <1>d, <3>1, <3>2, <3>3, Zenon DEF ListsSorted
    <3>4. CASE j = n + 1
      BY <1>b, <1>c, <1>d, <3>1, <3>2, <3>4, Zenon
    <3> QED BY <3>1, <3>3, <3>4, Zenon
  <2> QED BY <1>a, <1>d, <2>1, Zenon DEF ListsSorted
<1>4. RefCountCovers'
  BY <1>a, Zenon DEF RefCountCovers, Owing
<1>5. Unreachable'
  BY <1>a, <1>c, <1>d, <1>e, ZenonT(60) DEF Unreachable
<1>6. UsersOwe'
  <2> SUFFICES ASSUME NEW u \in listed, NEW h \in Uses(u), NEW i \in 1..(n + 1), lazy_delete_list'[i].f = h
               PROVE  flushtime_last_update[u] < lazy_delete_list'[i].flushtime
    BY <1>a, <1>d, <1>f, ZenonT(60) DEF UsersOwe, Due
  <2>1. CASE i \in 1..n
    BY <1>d, <2>1, Zenon DEF UsersOwe
  <2>2. CASE i = n + 1
    <3>1. flushtime_last_update[u] \in Nat /\ flushtime_last_update[u] <= flushtime_global
      BY Zenon DEF SdTypeOK, TimesBounded
    <3> QED BY <1>b, <1>c, <1>d, <2>2, <3>1
  <2> QED BY <1>b, <2>1, <2>2
<1>7. NoUseAfterFree'
  <2>1. \A u \in listed : \A h \in Uses(u)' : frag[h] # "freed"
    BY <1>f, Zenon DEF NoUseAfterFree, Uses
  <2> QED BY <1>a, <2>1, Zenon DEF NoUseAfterFree, Uses
<1> QED
  BY <1>1, <1>2, <1>3, <1>4, <1>5, <1>6, <1>7, Zenon

-----------------------------------------------------------------------------
AfterOK == after \in [Threads -> {"relink", "syscall", "cache"}]

\* A thread goes on after its flush to one of three places.
LEMMA AfterStep == AfterOK /\ [FlushNext]_flushvars => AfterOK'
BY ZenonT(60) DEF AfterOK, FlushNext, flushvars, Unmap, EndFlush, GoNolinking

\* Every step of Flush is a step of FlushSynch, or leaves its variables alone.
LEMMA FlushStep == FsTypeOK /\ AfterOK /\ [FlushNext]_flushvars => [FsNext]_fsvars
<1> SUFFICES ASSUME FsTypeOK, AfterOK, FlushNext PROVE FsNext \/ UNCHANGED fsvars
  BY Zenon DEF flushvars
<1> USE DEF FsNext, FsProgress
<1>1. ASSUME NEW t \in Threads,
             Join(t) \/ CacheExit(t) \/ Syscall(t) \/ SyscallReturn(t) \/ Unmap(t) \/ BeginExit(t)
      PROVE  FsNext
  BY <1>1, Zenon DEF Join, CacheExit, Syscall, SyscallReturn, Unmap, BeginExit, Elsewhere
<1>2. ASSUME NEW t \in Threads, GoNolinking(t) PROVE FsNext
  BY <1>2, Zenon DEF GoNolinking
<1>3. ASSUME NEW t \in Threads, BecomeLinking(t) \/ MoveLazy(t) \/ Wait(t) \/ FinishExit(t)
      PROVE  FsNext
  BY <1>3, Zenon DEF BecomeLinking, MoveLazy, Wait, FinishExit
<1>4. ASSUME NEW t \in Threads, Synchronise(t) \/ Unlink(t) \/ (\E u \in todo : LetGo(t, u))
      PROVE  FsNext
  <2>1. todo \subseteq Threads
    BY Zenon DEF FsTypeOK
  <2> QED BY <1>4, <2>1, Zenon DEF Synchronise, Unlink, LetGo
<1>5. ASSUME NEW t \in Threads, EndFlush(t) PROVE FsNext
  <2>1. after[t] \in {"relink", "syscall", "cache"}
    BY Zenon DEF AfterOK
  <2> QED BY <1>5, <2>1, Zenon DEF EndFlush
<1>6. ASSUME NEW t \in Threads, NEW f \in Frags,
             Run(t, f) \/ Lookup(t, f) \/ RemoveFragment(t, f)
      PROVE  FsNext \/ UNCHANGED fsvars
  BY <1>6, Zenon DEF Run, Lookup, RemoveFragment
<1>7. ASSUME NEW t \in Threads, RemoveLazily(t) PROVE FsNext \/ UNCHANGED fsvars
  BY <1>7, Zenon DEF RemoveLazily
<1> QED
  BY <1>1, <1>2, <1>3, <1>4, <1>5, <1>6, <1>7, Zenon DEF FlushNext

\* The composition implements the flush synchronisation: the flush points of
\* the dispatch loop, lazy deletion and thread exit take no other steps.
THEOREM FlushImplementsFlushSynch == FlushSpec => FollowsFlushSynch
<1> DEFINE Inv == FsIInv /\ AfterOK
<1>1. FlushInit => FsInit /\ Inv
  BY FsInitInv, Zenon DEF FlushInit, AfterOK
<1>2. Inv /\ [FlushNext]_flushvars => [FsNext]_fsvars /\ Inv'
  BY FlushStep, AfterStep, FsNextInv, Zenon DEF FsIInv
<1> QED BY <1>1, <1>2, PTL DEF FlushSpec, FollowsFlushSynch, FsSafety

\* Hence no thread is at work on fragments that a flusher deletes.
THEOREM FlushIsQuiescent == FlushSpec => []Quiescent
BY FlushImplementsFlushSynch, FlushQuiescent, PTL DEF FollowsFlushSynch

-----------------------------------------------------------------------------
\* Where a thread has no fragment in its hands.
NoHands == {"new", "nolink", "relink", "wait_all", "relock_all", "syscall", "move", "exiting", "dead"}

HandsOf(t) ==
  /\ t \in listed <=> pc[t] \notin {"new", "dead"}
  /\ pc[t] \in NoHands => at[t] = NoFrag
  /\ pc[t] = "new" => last_fragment[t] = NoFrag
  /\ pc[t] \in Stages \cup {"flush"} /\ after[t] # "cache" => at[t] = NoFrag
  /\ pc[t] = "linking" => at[t] = NoFrag \/ frag[at[t]] # "live"

\* What a thread has in its hands depends on where it is; a couldbelinking thread
\* has only a fragment that it is deleting.
Hands == \A t \in Threads : HandsOf(t)

\* Fragments do not come back, and last fragments are only forgotten.
Fades ==
  /\ \A f \in Frags : frag[f] # "live" => frag'[f] # "live"
  /\ \A u \in Threads : last_fragment'[u] \in {last_fragment[u], NoFrag}

\* vm_area_check_shared_pending revives no fragment.
LEMMA SdFades ==
  ASSUME SdTypeOK
  PROVE  /\ \A t \in Threads : CheckSharedPending(t) => Fades
         /\ \A t \in Threads : CheckFlushQueue(t) => Fades
         /\ UNCHANGED sdvars => Fades
<1>1. ASSUME NEW t \in Threads, CheckSharedPending(t) PROVE Fades
  <2>1. \A f \in Frags : frag'[f] \in {"freed", frag[f]}
    BY <1>1, Zenon DEF CheckSharedPending
  <2>2. \A u \in Threads : last_fragment'[u] \in {last_fragment[u], NoFrag}
    BY <1>1, Zenon DEF CheckSharedPending, SdTypeOK
  <2> QED BY <2>1, <2>2, Zenon DEF Fades
<1>2. UNCHANGED sdvars => Fades
  BY Zenon DEF Fades, sdvars
<1> QED
  BY <1>1, <1>2, Zenon DEF CheckFlushQueue

\* A step of thread t leaves the hands of the others as they are.
LEMMA HandsLocal ==
  ASSUME SdTypeOK, Hands, NEW t \in Threads,
         \A u \in Threads \ {t} :
           /\ pc'[u] = pc[u] /\ at'[u] = at[u] /\ after'[u] = after[u]
           /\ u \in listed' <=> u \in listed
           /\ last_fragment'[u] \in {last_fragment[u], NoFrag},
         \A f \in Frags : frag[f] # "live" => frag'[f] # "live",
         HandsOf(t)'
  PROVE  Hands'
<1> SUFFICES ASSUME NEW u \in Threads \ {t} PROVE HandsOf(u)'
  BY Zenon DEF Hands
<1>1. HandsOf(u) /\ at[u] \in Frags \cup {NoFrag}
  BY Zenon DEF Hands, SdTypeOK
<1> QED
  BY <1>1, Zenon DEF HandsOf

\* Every step keeps what the threads have in their hands.
LEMMA HandsStep ==
  ASSUME FsIInv, AfterOK, SdTypeOK, Hands, FlushNext
  PROVE  Hands'
<1> USE DEF FsIInv
<1>0. /\ pc \in [Threads -> Places] /\ listed \subseteq Threads /\ todo \subseteq Threads
      /\ at \in [Threads -> Frags \cup {NoFrag}]
      /\ last_fragment \in [Threads -> Frags \cup {NoFrag}]
      /\ after \in [Threads -> {"relink", "syscall", "cache"}]
      /\ wait_for_unlink \in [Threads -> BOOLEAN]
      /\ frag \in [Frags -> {"live", "deleted", "freed"}]
  BY Zenon DEF FsTypeOK, SdTypeOK, AfterOK
<1>a. ASSUME NEW t \in Threads PROVE HandsOf(t)
  BY Zenon DEF Hands
<1>1. ASSUME NEW t \in Threads, Join(t), UNCHANGED after PROVE Hands'
  <2>1. /\ pc' = [pc EXCEPT ![t] = "nolink"] /\ listed' = listed \cup {t} /\ pc[t] = "new"
        /\ UNCHANGED <<at, last_fragment, frag>>
    BY <1>1, Zenon DEF Join, ThreadInit, JoinAtCurrentTime, FGoto
  <2>2. HandsOf(t)'
    BY <1>0, <1>a, <1>1, <2>1, Zenon DEF HandsOf, NoHands, Stages
  <2> QED BY <1>0, <1>1, <2>1, <2>2, HandsLocal, Zenon
<1>2. ASSUME NEW t \in Threads, CacheExit(t) \/ SyscallReturn(t), UNCHANGED after PROVE Hands'
  <2>1. /\ pc' = [pc EXCEPT ![t] = "nolink"] /\ pc[t] \in {"cache", "syscall"}
        /\ at' = [at EXCEPT ![t] = NoFrag] /\ UNCHANGED <<listed, frag>>
        /\ \A u \in Threads \ {t} : last_fragment'[u] = last_fragment[u]
    BY <1>0, <1>2, <1>a DEF CacheExit, SyscallReturn, FMove, FGoto, LeaveFragment, Hold, HandsOf,
      NoHands
  <2>2. HandsOf(t)'
    BY <1>0, <1>a, <1>2, <2>1, Zenon DEF HandsOf, NoHands, Stages
  <2> QED BY <1>0, <1>2, <2>1, <2>2, HandsLocal, ZenonT(60)
<1>3. ASSUME NEW t \in Threads, Syscall(t) \/ BeginExit(t) \/ BecomeLinking(t) \/ Wait(t),
             UNCHANGED after
      PROVE  Hands'
  <2>1. /\ \A u \in Threads \ {t} : pc'[u] = pc[u]
        /\ UNCHANGED <<listed, at>>
        /\ pc[t] \in {"nolink", "relink", "relock_all", "wait_all"} =>
             pc'[t] \in {"syscall", "exiting", "linking", "wait_all", "relock_all"}
        /\ pc[t] \in {"notify", "wait_unlink"} => pc'[t] \in {"enter", "wait_unlink"}
        /\ pc[t] \in {"nolink", "relink", "relock_all", "wait_all", "notify", "wait_unlink"}
    BY <1>0, <1>3, Zenon DEF Syscall, BeginExit, BecomeLinking, Wait, FMove, FGoto, EnterThreadexit,
      EnterCouldbelinking, RelockAll, LinkOrWait, Notify, WakeUnlink, WakeAll
  <2>2. Fades
    BY <1>3, SdFades, Zenon DEF Syscall, BeginExit, BecomeLinking, Wait
  <2>3. HandsOf(t)'
    BY <1>0, <1>a, <1>3, <2>1, <2>2, Zenon DEF HandsOf, NoHands, Stages, Fades
  <2> QED BY <1>3, <2>1, <2>2, <2>3, HandsLocal, Zenon DEF Fades
<1>4. ASSUME NEW t \in Threads, NEW f \in Frags, Run(t, f) \/ Lookup(t, f) \/ RemoveFragment(t, f),
             UNCHANGED after
      PROVE  Hands'
  <2>1. /\ at' = [at EXCEPT ![t] = f] /\ UNCHANGED <<listed, last_fragment>>
        /\ \A h \in Frags : frag[h] # "live" => frag'[h] # "live"
        /\ \A u \in Threads \ {t} : pc'[u] = pc[u]
        /\ pc[t] \in {"cache", "linking"} /\ pc'[t] \in {"cache", "enter", "linking"}
        /\ pc'[t] = "linking" => frag'[f] # "live"
    BY <1>0, <1>4, Zenon DEF Run, Lookup, RemoveFragment, Hold, LeaveLinking, FMove, FGoto, RemoveShared,
      fsvars, sdvars
  <2>2. HandsOf(t)'
    BY <1>0, <1>a, <2>1, Zenon DEF HandsOf, NoHands, Stages
  <2> QED BY <1>0, <1>4, <2>1, <2>2, HandsLocal, Zenon
<1>5. ASSUME NEW t \in Threads, RemoveLazily(t), UNCHANGED after PROVE Hands'
  <2>1. /\ at' = [at EXCEPT ![t] = NoFrag] /\ UNCHANGED <<listed, last_fragment, frag>>
        /\ \A u \in Threads \ {t} : pc'[u] = pc[u]
        /\ pc[t] = "linking" /\ pc'[t] \in {"enter", "linking"}
    BY <1>0, <1>5, Zenon DEF RemoveLazily, Hold, LeaveLinking, FMove, FGoto, AddToLazyDeletionList, fsvars
  <2>2. HandsOf(t)'
    BY <1>0, <1>a, <2>1, Zenon DEF HandsOf, NoHands, Stages
  <2> QED BY <1>0, <1>5, <2>1, <2>2, HandsLocal, Zenon
<1>6. ASSUME NEW t \in Threads, MoveLazy(t) \/ Synchronise(t) \/ Unlink(t), UNCHANGED after
      PROVE  Hands'
  <2>1. /\ UNCHANGED <<listed, at, last_fragment>>
        /\ \A u \in Threads \ {t} : pc'[u] = pc[u]
        /\ (pc[t] = "move" /\ pc'[t] = "relink") \/ (pc[t] \in Stages \cup {"flush"} /\ pc'[t] \in Stages)
    BY <1>0, <1>6, Zenon DEF MoveLazy, LockedMove, Synchronise, Unlink, FMove, FGoto, FlushStart, Visit,
      AwaitWake, Resynch, UnlinkShared, MoveLazyList, UnlinkFragments, sdvars, Stages, flusher
  <2>2. \A h \in Frags : frag[h] # "live" => frag'[h] # "live"
    BY <1>0, <1>6, Zenon DEF MoveLazy, Synchronise, Unlink, MoveLazyList, UnlinkFragments, sdvars
  <2>3. HandsOf(t)'
    BY <1>0, <1>a, <1>6, <2>1, Zenon DEF HandsOf, NoHands, Stages
  <2> QED BY <1>0, <1>6, <2>1, <2>2, <2>3, HandsLocal, Zenon
<1>7. ASSUME NEW t \in Threads, NEW u \in todo, LetGo(t, u), UNCHANGED after PROVE Hands'
  <2>1. Fades /\ UNCHANGED <<listed, at, pc>>
    BY <1>0, <1>7, SdFades, Zenon DEF LetGo, Release
  <2>2. HandsOf(t)'
    BY <1>0, <1>a, <1>7, <2>1, Zenon DEF HandsOf, Fades
  <2> QED BY <1>0, <1>7, <2>1, <2>2, HandsLocal, Zenon DEF Fades
<1>8. ASSUME NEW t \in Threads, FinishExit(t), UNCHANGED after PROVE Hands'
  <2>1. /\ Fades /\ UNCHANGED at /\ pc[t] = "exiting" /\ pc' = [pc EXCEPT ![t] = "dead"]
        /\ listed' = listed \ {t}
    BY <1>0, <1>8, SdFades, Zenon DEF FinishExit, ThreadExit, FGoto
  <2>2. HandsOf(t)'
    BY <1>0, <1>a, <2>1, Zenon DEF HandsOf, NoHands, Stages
  <2> QED BY <1>0, <1>8, <2>1, <2>2, HandsLocal, Zenon DEF Fades
<1>9. ASSUME NEW t \in Threads, Unmap(t) \/ EndFlush(t) PROVE Hands'
  <2>1. /\ UNCHANGED <<listed, at, last_fragment, frag>>
        /\ \A u \in Threads \ {t} : pc'[u] = pc[u] /\ after'[u] = after[u]
        /\ \/ pc[t] = "nolink" /\ pc'[t] = "flush"
           \/ pc[t] = "stage3" /\ pc'[t] = after[t]
    BY <1>0, <1>9, Zenon DEF Unmap, EndFlush, FMove, FlushEnd, FGoto, sdvars
  <2>2. HandsOf(t)'
    <3>1. after[t] \in {"relink", "syscall", "cache"}
      BY <1>0, Zenon
    <3> QED BY <1>a, <2>1, <3>1, Zenon DEF HandsOf, NoHands, Stages
  <2> QED BY <1>0, <2>1, <2>2, HandsLocal, Zenon
<1>10. ASSUME NEW t \in Threads, GoNolinking(t) PROVE Hands'
  <2>1. PICK l \in {"cache", "relink", "flush", "move"}, next \in {"cache", "relink"} :
          /\ l = "move" <=> at[t] = NoFrag
          /\ l = "flush" => ~wait_for_unlink[t]
          /\ l # "flush" => next = "relink"
          /\ after' = [after EXCEPT ![t] = next]
          /\ EnterNolinking(t, l)
          /\ IF "cache" \in {l, next} \/ wait_for_unlink[t] THEN UNCHANGED at ELSE Hold(t, NoFrag)
    BY <1>10, Zenon DEF GoNolinking
  <2>2. Fades
    BY <1>10, SdFades, Zenon DEF GoNolinking
  <2>3. /\ UNCHANGED listed /\ pc[t] = "enter"
        /\ pc' = [pc EXCEPT ![t] = IF wait_for_unlink[t] THEN "notify" ELSE l]
    BY <2>1, Zenon DEF EnterNolinking, FGoto
  <2>4. /\ \A u \in Threads \ {t} : pc'[u] = pc[u] /\ after'[u] = after[u] /\ at'[u] = at[u]
        /\ pc'[t] = (IF wait_for_unlink[t] THEN "notify" ELSE l) /\ after'[t] = next
        /\ at'[t] = IF "cache" \in {l, next} \/ wait_for_unlink[t] THEN at[t] ELSE NoFrag
    BY <1>0, <2>1, <2>3, ZenonT(60) DEF Hold
  <2>5. HandsOf(t)'
    BY <1>a, <2>1, <2>3, <2>4 DEF HandsOf, NoHands, Stages
  <2> QED BY <2>2, <2>3, <2>4, <2>5, HandsLocal, Zenon DEF Fades
<1> QED
  BY <1>1, <1>2, <1>3, <1>4, <1>5, <1>6, <1>7, <1>8, <1>9, <1>10, ZenonT(60) DEF FlushNext

\* A thread that was at a system call when the flusher came has no fragment in
\* its hands, even if it asks for a flush of its own meanwhile.
CallHands == \A u \in Threads : at_syscall_at_flush[u] /\ pc[u] = "flush" => at[u] = NoFrag

\* ... and no step gives it one.
LEMMA CallHandsStep ==
  ASSUME FsIInv, AtSyscall, Hands, CallHands, AfterOK, SdTypeOK, FlushNext
  PROVE  CallHands'
<1> SUFFICES ASSUME NEW u \in Threads, at_syscall_at_flush'[u], pc'[u] = "flush"
             PROVE  at'[u] = NoFrag
  BY Zenon DEF CallHands
<1> USE DEF FsIInv
<1>0. /\ pc \in [Threads -> Places] /\ at \in [Threads -> Frags \cup {NoFrag}]
      /\ after \in [Threads -> {"relink", "syscall", "cache"}]
      /\ at_syscall_at_flush \in [Threads -> BOOLEAN]
  BY Zenon DEF FsTypeOK, SdTypeOK, AfterOK
<1>1. ASSUME pc[u] = "flush", at_syscall_at_flush[u], at'[u] = at[u] PROVE at'[u] = NoFrag
  BY <1>1, Zenon DEF CallHands
<1>2. ASSUME NEW t \in Threads, Unmap(t) PROVE at'[u] = NoFrag
  <2>1. UNCHANGED <<at, at_syscall_at_flush>> /\ pc[t] = "nolink" /\ pc' = [pc EXCEPT ![t] = "flush"]
    BY <1>2, Zenon DEF Unmap, FMove, FGoto, flags
  <2>2. CASE u = t
    BY <2>1, <2>2, Zenon DEF Hands, HandsOf, NoHands
  <2> QED BY <1>0, <1>1, <2>1, <2>2, Zenon
<1>3. ASSUME NEW t \in Threads, GoNolinking(t) PROVE at'[u] = NoFrag
  <2>1. /\ UNCHANGED at_syscall_at_flush /\ pc[t] = "enter"
        /\ \A v \in Threads \ {t} : pc'[v] = pc[v] /\ at'[v] = at[v]
    BY <1>0, <1>3, ZenonT(60) DEF GoNolinking, EnterNolinking, FGoto, Hold
  <2>2. u # t
    BY <2>1, Zenon DEF AtSyscall, AtCall
  <2> QED BY <1>1, <2>1, <2>2, Zenon
<1>4. ASSUME NEW t \in Threads, Join(t) \/ CacheExit(t) \/ Syscall(t) \/ SyscallReturn(t) \/ EndFlush(t)
      PROVE  at'[u] = NoFrag
  <2>1. UNCHANGED at_syscall_at_flush /\ pc'[t] # "flush"
        /\ \A v \in Threads \ {t} : pc'[v] = pc[v] /\ at'[v] = at[v]
    BY <1>0, <1>4, Zenon DEF Join, ThreadInit, CacheExit, Syscall, SyscallReturn, EndFlush, FlushEnd, FMove,
      FGoto, Hold, flags
  <2> QED BY <1>1, <2>1, Zenon
<1>5. ASSUME NEW t \in Threads, BeginExit(t) \/ BecomeLinking(t) \/ Wait(t) \/ FinishExit(t) \/ MoveLazy(t)
      PROVE  at'[u] = NoFrag
  <2>1. UNCHANGED <<at, at_syscall_at_flush>> /\ pc'[t] # "flush"
        /\ \A v \in Threads \ {t} : pc'[v] = pc[v]
    BY <1>0, <1>5, Zenon DEF BeginExit, EnterThreadexit, BecomeLinking, EnterCouldbelinking, RelockAll,
      LinkOrWait, Wait, Notify, WakeUnlink, WakeAll, FinishExit, ThreadExit, MoveLazy, LockedMove,
      FMove, FGoto, flags
  <2> QED BY <1>1, <2>1, Zenon
<1>6. ASSUME NEW t \in Threads, NEW f \in Frags,
             RemoveLazily(t) \/ Run(t, f) \/ Lookup(t, f) \/ RemoveFragment(t, f)
      PROVE  at'[u] = NoFrag
  <2>1. UNCHANGED at_syscall_at_flush /\ pc'[t] # "flush"
        /\ \A v \in Threads \ {t} : pc'[v] = pc[v] /\ at'[v] = at[v]
    BY <1>0, <1>6, Zenon DEF RemoveLazily, Run, Lookup, RemoveFragment, LeaveLinking, FMove, FGoto, Hold,
      fsvars, flags
  <2> QED BY <1>1, <2>1, Zenon
<1>7. ASSUME NEW t \in Threads, Synchronise(t) \/ Unlink(t) \/ \E v \in todo : LetGo(t, v)
      PROVE  at'[u] = NoFrag
  <2>1. /\ UNCHANGED at /\ pc[u] = "flush"
        /\ at_syscall_at_flush'[u] =>
             at_syscall_at_flush[u] \/ pc[u] = "syscall"
    BY <1>0, <1>7, ZenonT(60) DEF Synchronise, FlushStart, Visit, Stopped, AwaitWake, Resynch, Unlink,
      UnlinkShared, LetGo, Release, FGoto, flags
  <2> QED BY <1>1, <2>1, Zenon
<1> QED
  <2>1. \E f \in Frags : TRUE
    BY FlushAssumption, Zenon
  <2> QED BY <1>2, <1>3, <1>4, <1>5, <1>6, <1>7, <2>1, Zenon DEF FlushNext

-----------------------------------------------------------------------------
\* The thread that is to move the lazy list.
Claims(t) == pc[t] \in {"enter", "notify", "wait_unlink", "move"} /\ at[t] = NoFrag

\* The move is pending exactly when one thread has claimed it.
Mover ==
  /\ move_pending <=> \E t \in Threads : Claims(t)
  /\ \A t, u \in Threads : Claims(t) /\ Claims(u) => t = u

\* A step that leaves the claims alone.
LEMMA MoverSame ==
  ASSUME Mover, move_pending' = move_pending, \A u \in Threads : Claims(u)' <=> Claims(u)
  PROVE  Mover'
<1>1. move_pending' <=> \E t \in Threads : Claims(t)'
  BY Zenon DEF Mover
<1>2. \A t, u \in Threads : Claims(t)' /\ Claims(u)' => t = u
  BY Zenon DEF Mover
<1> QED
  BY <1>1, <1>2, Zenon DEF Mover

\* move_pending is set by the thread that will move the lazy list, and reset when
\* it does.
LEMMA MoverStep ==
  ASSUME FsIInv, AfterOK, SdTypeOK, Hands, Mover, FlushNext
  PROVE  Mover'
<1> USE DEF FsIInv
<1>0. /\ pc \in [Threads -> Places] /\ at \in [Threads -> Frags \cup {NoFrag}]
      /\ after \in [Threads -> {"relink", "syscall", "cache"}]
      /\ wait_for_unlink \in [Threads -> BOOLEAN] /\ todo \subseteq Threads
      /\ move_pending \in BOOLEAN /\ NoFrag \notin Frags
  BY FlushAssumption, Zenon DEF FsTypeOK, SdTypeOK, AfterOK
<1>a. ASSUME NEW t \in Threads PROVE HandsOf(t)
  BY Zenon DEF Hands
<1>b. /\ \A t \in Threads : CheckSharedPending(t) => UNCHANGED move_pending
      /\ \A t \in Threads : CheckFlushQueue(t) => UNCHANGED move_pending
  BY Zenon DEF CheckSharedPending, CheckFlushQueue, sdvars
<1>1. ASSUME NEW t \in Threads,
             Join(t) \/ CacheExit(t) \/ Syscall(t) \/ SyscallReturn(t) \/ Unmap(t) \/ EndFlush(t)
      PROVE  Mover'
  <2>1. UNCHANGED move_pending
    BY <1>1, Zenon DEF Join, JoinAtCurrentTime, CacheExit, Syscall, SyscallReturn, Unmap, EndFlush,
      LeaveFragment, sdvars
  <2>2. /\ \A v \in Threads \ {t} : pc'[v] = pc[v] /\ at'[v] = at[v]
        /\ {pc[t], pc'[t]} \cap {"enter", "notify", "wait_unlink", "move"} = {}
    BY <1>0, <1>1, ZenonT(60) DEF Join, ThreadInit, CacheExit, Syscall, SyscallReturn, Unmap, EndFlush, FlushEnd,
      FMove, FGoto, Hold
  <2>3. \A u \in Threads : Claims(u)' <=> Claims(u)
    BY <2>2, Zenon DEF Claims
  <2> QED BY <2>1, <2>3, MoverSame, Zenon
<1>2. ASSUME NEW t \in Threads, BeginExit(t) \/ BecomeLinking(t) \/ FinishExit(t)
      PROVE  Mover'
  <2>1. UNCHANGED move_pending
    BY <1>b, <1>2, Zenon DEF BeginExit, BecomeLinking, FinishExit, sdvars
  <2>2. /\ \A v \in Threads \ {t} : pc'[v] = pc[v] /\ at'[v] = at[v]
        /\ {pc[t], pc'[t]} \cap {"enter", "notify", "wait_unlink", "move"} = {}
    BY <1>0, <1>2, ZenonT(60) DEF BeginExit, EnterThreadexit, BecomeLinking, EnterCouldbelinking, RelockAll,
      LinkOrWait, FinishExit, ThreadExit, FGoto
  <2>3. \A u \in Threads : Claims(u)' <=> Claims(u)
    BY <2>2, Zenon DEF Claims
  <2> QED BY <2>1, <2>3, MoverSame, Zenon
<1>3. ASSUME NEW t \in Threads, Wait(t) PROVE Mover'
  <2>1. UNCHANGED <<move_pending, at>> /\ \A v \in Threads \ {t} : pc'[v] = pc[v]
    BY <1>0, <1>3, Zenon DEF Wait, Notify, WakeUnlink, WakeAll, FGoto, sdvars
  <2>2. pc[t] \in {"enter", "notify", "wait_unlink", "move"}
          <=> pc'[t] \in {"enter", "notify", "wait_unlink", "move"}
    BY <1>0, <1>3, Zenon DEF Wait, Notify, WakeUnlink, WakeAll, FGoto
  <2>3. \A u \in Threads : Claims(u)' <=> Claims(u)
    BY <2>1, <2>2, Zenon DEF Claims
  <2> QED BY <2>1, <2>3, MoverSame, Zenon
<1>4. ASSUME NEW t \in Threads, Synchronise(t) \/ Unlink(t) \/ \E v \in todo : LetGo(t, v)
      PROVE  Mover'
  <2>1. UNCHANGED <<move_pending, at>>
    BY <1>0, <1>b, <1>4, Zenon DEF Synchronise, Unlink, LetGo, UnlinkFragments, sdvars
  <2>2. /\ \A v \in Threads \ {t} : pc'[v] = pc[v]
        /\ {pc[t], pc'[t]} \cap {"enter", "notify", "wait_unlink", "move"} = {}
    BY <1>0, <1>4, ZenonT(60) DEF Synchronise, FlushStart, Visit, AwaitWake, Resynch, Unlink, UnlinkShared,
      LetGo, Release, FGoto
  <2>3. \A u \in Threads : Claims(u)' <=> Claims(u)
    BY <2>1, <2>2, Zenon DEF Claims
  <2> QED BY <2>1, <2>3, MoverSame, Zenon
<1>5. ASSUME NEW t \in Threads, NEW f \in Frags, Run(t, f) \/ Lookup(t, f) \/ RemoveFragment(t, f)
      PROVE  Mover'
  <2>1. UNCHANGED move_pending /\ at' = [at EXCEPT ![t] = f] /\ f # NoFrag
    BY <1>0, <1>5, Zenon DEF Run, Lookup, RemoveFragment, RemoveShared, Hold, sdvars
  <2>2. (\A v \in Threads \ {t} : pc'[v] = pc[v]) /\ pc[t] \in {"cache", "linking"}
    BY <1>0, <1>5, Zenon DEF Run, Lookup, RemoveFragment, LeaveLinking, FMove, FGoto, fsvars
  <2>3. \A u \in Threads : Claims(u)' <=> Claims(u)
    BY <1>0, <2>1, <2>2, Zenon DEF Claims
  <2> QED BY <2>1, <2>3, MoverSame, Zenon
<1>6. ASSUME NEW t \in Threads, GoNolinking(t) PROVE Mover'
  <2>1. PICK l \in {"cache", "relink", "flush", "move"}, next \in {"cache", "relink"} :
          /\ l = "move" <=> at[t] = NoFrag
          /\ EnterNolinking(t, l)
          /\ IF "cache" \in {l, next} \/ wait_for_unlink[t] THEN UNCHANGED at ELSE Hold(t, NoFrag)
    BY <1>6, Zenon DEF GoNolinking
  <2>2. UNCHANGED move_pending
    BY <1>b, <1>6, Zenon DEF GoNolinking, sdvars
  <2>3. /\ \A v \in Threads \ {t} : pc'[v] = pc[v] /\ at'[v] = at[v]
        /\ pc[t] = "enter" /\ pc'[t] = (IF wait_for_unlink[t] THEN "notify" ELSE l)
        /\ wait_for_unlink[t] => at'[t] = at[t]
        /\ at[t] = NoFrag => at'[t] = NoFrag
    BY <1>0, <2>1, Zenon DEF EnterNolinking, FGoto, Hold
  <2>4. \A u \in Threads : Claims(u)' <=> Claims(u)
    BY <2>1, <2>3, Zenon DEF Claims
  <2> QED BY <2>2, <2>4, MoverSame, Zenon
<1>7. ASSUME NEW t \in Threads, MoveLazy(t) PROVE Mover'
  <2>1. /\ pc[t] = "move" /\ pc' = [pc EXCEPT ![t] = "relink"] /\ at' = at
        /\ move_pending => ~move_pending' 
        /\ ~move_pending => ~move_pending'
    BY <1>7, Zenon DEF MoveLazy, LockedMove, FMove, FGoto, MoveLazyList, sdvars
  <2>2. Claims(t)
    BY <1>a, <2>1, Zenon DEF HandsOf, NoHands, Claims
  <2>3. \A u \in Threads : ~Claims(u)'
    BY <1>0, <2>1, <2>2, Zenon DEF Mover, Claims
  <2> QED BY <2>1, <2>3, Zenon DEF Mover
<1>8. ASSUME NEW t \in Threads, RemoveLazily(t) PROVE Mover'
  <2>1. /\ at' = [at EXCEPT ![t] = NoFrag] /\ pc[t] = "linking"
        /\ lazy_delete_list' =
             Append(lazy_delete_list, [f |-> at[t], flushtime |-> flushtime_global + 1])
        /\ move_pending' = (move_pending \/ Len(lazy_delete_list') > LazyDeletionMaxPending)
    BY <1>8, ZenonT(60) DEF RemoveLazily, Hold, AddToLazyDeletionList
  <2>2. /\ Len(lazy_delete_list) \in Nat /\ Len(lazy_delete_list') = Len(lazy_delete_list) + 1
        /\ LazyDeletionMaxPending \in Nat
    BY <2>1, FlushAssumption DEF SdTypeOK
  <2>3. CASE ~move_pending /\ Len(lazy_delete_list) >= LazyDeletionMaxPending
    <3>1. Len(lazy_delete_list') > LazyDeletionMaxPending
      BY <2>2, <2>3
    <3>2. move_pending' /\ pc' = [pc EXCEPT ![t] = "enter"]
      BY <1>8, <2>1, <2>3, <3>1, Zenon DEF RemoveLazily, LeaveLinking, FMove, FGoto
    <3>3. Claims(t)'
      BY <1>0, <2>1, <3>2, Zenon DEF Claims
    <3>4. \A u \in Threads : Claims(u)' => u = t
      BY <1>0, <2>1, <2>3, <3>2, Zenon DEF Claims, Mover
    <3> QED BY <3>2, <3>3, <3>4, Zenon DEF Mover
  <2>4. CASE ~(~move_pending /\ Len(lazy_delete_list) >= LazyDeletionMaxPending)
    <3>1. ~move_pending => ~(Len(lazy_delete_list') > LazyDeletionMaxPending)
      BY <2>2, <2>4
    <3>2. move_pending' = move_pending
      BY <1>0, <2>1, <3>1, Zenon
    <3>3. UNCHANGED pc
      BY <1>8, <2>4, Zenon DEF RemoveLazily, fsvars
    <3>4. \A u \in Threads : Claims(u)' <=> Claims(u)
      BY <1>0, <2>1, <3>3, Zenon DEF Claims
    <3> QED BY <3>2, <3>4, MoverSame, Zenon
  <2> QED BY <2>3, <2>4, Zenon
<1> QED
  BY <1>1, <1>2, <1>3, <1>4, <1>5, <1>6, <1>7, <1>8, ZenonT(60) DEF FlushNext

-----------------------------------------------------------------------------
\* check_flush_queue signs a thread off that has no fragment, or one that was not
\* deleted; the thread may leave the list at the same time.
LEMMA QueueKeeps ==
  ASSUME SdInv, listed \subseteq Threads, NEW t \in listed, CheckFlushQueue(t),
         listed' = listed \/ listed' = listed \ {t}, build' = build,
         at' \in [Threads -> Frags \cup {NoFrag}],
         \A u \in Threads \ {t} : at'[u] = at[u],
         \/ at'[t] = NoFrag
         \/ at'[t] = at[t] /\ (BehindGlobal(t) => frag[at[t]] = "live")
  PROVE  SdInv'
<1>1. CASE BehindGlobal(t)
  BY <1>1, CheckKeeps, Zenon DEF CheckFlushQueue
<1>2. CASE ~BehindGlobal(t)
  <2>1. UNCHANGED sdvars
    BY <1>2, Zenon DEF CheckFlushQueue
  <2>2. /\ flushtime_last_update[t] \in Nat /\ flushtime_global \in Nat
        /\ flushtime_last_update[t] <= flushtime_global
    BY Zenon DEF SdInv, SdTypeOK, TimesBounded
  <2>3. flushtime_last_update[t] = flushtime_global
    BY <1>2, <2>2, SMTT(30) DEF BehindGlobal
  <2>4. \A u \in listed' : Uses(u)' \subseteq Uses(u) \cup Live
    BY <2>1, Zenon DEF Uses, sdvars
  <2>5. last_fragment' \in [Threads -> Frags \cup {NoFrag}]
    BY <2>1, Zenon DEF SdInv, SdTypeOK, sdvars
  <2>6. /\ listed' \subseteq listed
        /\ \A u \in listed \ listed' : flushtime_last_update[u] = flushtime_global
    BY <2>3, Zenon
  <2> QED BY <2>1, <2>4, <2>5, <2>6, UsesKeep, Zenon DEF sdvars
<1> QED
  BY <1>1, <1>2, Zenon

\* A step that leaves the lists alone and takes no fragment but a live one.
LEMMA StutterKeeps ==
  ASSUME SdInv, listed \subseteq Threads, UNCHANGED sdvars, UNCHANGED <<listed, build>>,
         NEW t \in Threads, \A u \in Threads \ {t} : at'[u] = at[u],
         at' \in [Threads -> Frags \cup {NoFrag}],
         at'[t] \in {NoFrag, at[t]} \cup Live
  PROVE  SdInv'
<1>1. last_fragment' \in [Threads -> Frags \cup {NoFrag}]
  BY Zenon DEF SdInv, SdTypeOK, sdvars
<1>2. \A u \in listed' : Uses(u)' \subseteq Uses(u) \cup Live
  BY Zenon DEF Uses, sdvars
<1> QED
  BY <1>1, <1>2, UsesKeep, Zenon DEF sdvars

\* Every step of every thread keeps the invariant of delayed deletion.
LEMMA SdStep ==
  ASSUME FsIInv, AfterOK, Hands, AtSyscall, CallHands, SdInv, FlushNext
  PROVE  SdInv'
<1>0. /\ pc \in [Threads -> Places] /\ listed \subseteq Threads /\ todo \subseteq listed
      /\ at \in [Threads -> Frags \cup {NoFrag}]
      /\ last_fragment \in [Threads -> Frags \cup {NoFrag}]
      /\ UNCHANGED build /\ NoFrag \notin Frags
  BY FlushAssumption, Zenon DEF FsIInv, FsTypeOK, SdInv, SdTypeOK, FlushNext
<1>a. ASSUME NEW t \in Threads PROVE HandsOf(t)
  BY Zenon DEF Hands
<1>1. ASSUME NEW t \in Threads, Join(t) PROVE SdInv'
  <2>1. /\ JoinAtCurrentTime(t) /\ listed' = listed \cup {t} /\ UNCHANGED at /\ pc[t] = "new"
    BY <1>1, Zenon DEF Join, ThreadInit
  <2>2. t \notin listed /\ Uses(t) = {}
    BY <1>a, <2>1, ZenonT(60) DEF HandsOf, NoHands, Uses
  <2> QED BY <1>0, <2>1, <2>2, JoinKeeps, Zenon
<1>2. ASSUME NEW t \in Threads, CacheExit(t) \/ SyscallReturn(t) PROVE SdInv'
  <2>1. PICK f \in {at[t], NoFrag} : LeaveFragment(t, f) /\ UNCHANGED listed /\ Hold(t, NoFrag)
    <3>1. CASE CacheExit(t)
      BY <3>1, Zenon DEF CacheExit, FMove
    <3>2. CASE SyscallReturn(t)
      <4>1. pc[t] = "syscall" /\ LeaveFragment(t, NoFrag) /\ UNCHANGED <<at, listed>>
        BY <3>2, Zenon DEF SyscallReturn, FMove
      <4>2. at[t] = NoFrag
        BY <1>a, <4>1, Zenon DEF HandsOf, NoHands
      <4>3. Hold(t, NoFrag)
        BY <1>0, <4>1, <4>2, Zenon DEF Hold
      <4> QED BY <4>1, <4>3, Zenon
    <3> QED BY <1>2, <3>1, <3>2, Zenon
  <2>2. /\ at' = [at EXCEPT ![t] = NoFrag] /\ last_fragment' = [last_fragment EXCEPT ![t] = f]
        /\ UNCHANGED <<flushtime_global, flushtime_last_update, shared_delete, lazy_delete_list,
                       move_pending, frag>>
    BY <2>1, Zenon DEF LeaveFragment, Hold
  <2>3. /\ at' \in [Threads -> Frags \cup {NoFrag}]
        /\ last_fragment' \in [Threads -> Frags \cup {NoFrag}]
    BY <1>0, <2>2, Zenon
  <2>4. \A u \in Threads : Uses(u)' \subseteq Uses(u)
    BY <1>0, <2>2, Zenon DEF Uses
  <2> QED BY <1>0, <2>1, <2>2, <2>3, <2>4, UsesKeep, Zenon
<1>3. ASSUME NEW t \in Threads,
             Syscall(t) \/ Unmap(t) \/ EndFlush(t) \/ Synchronise(t) \/ Wait(t)
      PROVE  SdInv'
  <2>1. UNCHANGED sdvars /\ UNCHANGED <<listed, at>>
    BY <1>3, Zenon DEF Syscall, Unmap, EndFlush, FlushEnd, Synchronise, Wait, FMove, FlushStart, Visit,
      AwaitWake, Resynch, Notify, WakeUnlink, WakeAll
  <2> QED BY <1>0, <2>1, StutterKeeps, Zenon
<1>4. ASSUME NEW t \in Threads, NEW f \in Frags, Run(t, f) \/ Lookup(t, f) PROVE SdInv'
  <2>1. UNCHANGED sdvars /\ UNCHANGED listed /\ at' = [at EXCEPT ![t] = f] /\ f \in Live
    BY <1>4, Zenon DEF Run, Lookup, LeaveLinking, FMove, Hold, fsvars
  <2> QED BY <1>0, <2>1, StutterKeeps, Zenon
<1>5. ASSUME NEW t \in Threads, BeginExit(t) \/ BecomeLinking(t) PROVE SdInv'
  <2>1. /\ CheckFlushQueue(t) \/ UNCHANGED sdvars
        /\ UNCHANGED <<listed, at>> /\ pc[t] \in {"nolink", "relink", "relock_all"}
    BY <1>5, Zenon DEF BeginExit, EnterThreadexit, BecomeLinking, EnterCouldbelinking, RelockAll, LinkOrWait
  <2>2. t \in listed /\ at[t] = NoFrag
    BY <1>a, <2>1, Zenon DEF HandsOf, NoHands
  <2>3. CASE CheckFlushQueue(t)
    BY <1>0, <2>1, <2>2, <2>3, QueueKeeps, ZenonT(60)
  <2> QED BY <1>0, <2>1, <2>3, StutterKeeps, Zenon
<1>6. ASSUME NEW t \in Threads, GoNolinking(t) PROVE SdInv'
  <2>1. /\ UNCHANGED listed /\ pc[t] = "enter"
        /\ at' = at \/ at' = [at EXCEPT ![t] = NoFrag]
        /\ IF wait_for_unlink[t] THEN UNCHANGED sdvars ELSE CheckFlushQueue(t)
    BY <1>6, Zenon DEF GoNolinking, EnterNolinking, Hold
  <2>2. /\ at' \in [Threads -> Frags \cup {NoFrag}] /\ \A u \in Threads \ {t} : at'[u] = at[u]
        /\ at'[t] \in {NoFrag, at[t]}
    BY <1>0, <2>1, Zenon
  <2>3. t \in listed
    BY <1>a, <2>1, Zenon DEF HandsOf
  <2>4. CASE wait_for_unlink[t]
    BY <1>0, <2>1, <2>2, <2>4, StutterKeeps, ZenonT(60)
  <2>5. CASE ~wait_for_unlink[t]
    <3>1. at'[t] = NoFrag \/ ~ReportedFlushed(t, at[t])
      BY <1>0, <1>6, <2>5, Zenon DEF GoNolinking, Hold
    <3>2. at'[t] = NoFrag \/ (at'[t] = at[t] /\ (BehindGlobal(t) => frag[at[t]] = "live"))
      BY <2>2, <3>1, Zenon DEF ReportedFlushed, WasDeleted
    <3> QED BY <1>0, <2>1, <2>2, <2>3, <2>5, <3>2, QueueKeeps, ZenonT(60)
  <2> QED BY <2>4, <2>5, Zenon
<1>7. ASSUME NEW t \in Threads, NEW f \in Frags, RemoveFragment(t, f) PROVE SdInv'
  <2>1. f \in Live /\ RemoveShared(f) /\ Hold(t, f) /\ UNCHANGED listed
    BY <1>7, Zenon DEF RemoveFragment, fsvars
  <2> QED BY <1>0, <2>1, RemoveKeeps, Zenon
<1>8. ASSUME NEW t \in Threads, RemoveLazily(t) PROVE SdInv'
  <2>1. /\ pc[t] = "linking" /\ at[t] # NoFrag /\ AddToLazyDeletionList(at[t]) /\ Hold(t, NoFrag)
        /\ UNCHANGED listed
    BY <1>8, Zenon DEF RemoveLazily, LeaveLinking, FMove, fsvars
  <2>2. at[t] \in Frags /\ frag[at[t]] # "live"
    BY <1>0, <1>a, <2>1, ZenonT(60) DEF HandsOf
  <2> QED BY <1>0, <2>1, <2>2, LazyKeeps, Zenon
<1>9. ASSUME NEW t \in Threads, MoveLazy(t) PROVE SdInv'
  <2>1. /\ pc[t] = "move" /\ UNCHANGED <<listed, at>>
        /\ UNCHANGED sdvars \/ MoveLazyList(Cardinality(listed))
    BY <1>9, Zenon DEF MoveLazy, LockedMove, FMove
  <2>2. listed # {}
    BY <1>a, <2>1, Zenon DEF HandsOf
  <2>3. CASE MoveLazyList(Cardinality(listed))
    BY <1>0, <2>1, <2>2, <2>3, MoveKeeps, ZenonT(60)
  <2> QED BY <1>0, <2>1, <2>3, StutterKeeps, Zenon
<1>10. ASSUME NEW t \in Threads, Unlink(t) PROVE SdInv'
  <2>1. pc[t] = "stage1" /\ UNCHANGED <<listed, at>>
    BY <1>10, Zenon DEF Unlink, UnlinkShared
  <2>2. PICK fs \in SUBSET Live : UnlinkFragments(fs, Cardinality(listed))
    BY <1>10, Zenon DEF Unlink
  <2>3. listed # {}
    BY <1>a, <2>1, Zenon DEF HandsOf
  <2> QED BY <1>0, <2>1, <2>2, <2>3, UnlinkKeeps, ZenonT(60)
<1>11. ASSUME NEW t \in Threads, NEW u \in todo, LetGo(t, u) PROVE SdInv'
  <2>1. /\ UNCHANGED <<listed, at>> /\ u \in listed /\ u \in Threads
        /\ IF at_syscall_at_flush[u] THEN CheckSharedPending(u) ELSE UNCHANGED sdvars
    BY <1>0, <1>11, Zenon DEF LetGo, Release
  <2>2. CASE at_syscall_at_flush[u]
    <3>1. at[u] = NoFrag
      BY <1>a, <2>1, <2>2, ZenonT(60) DEF AtSyscall, AtCall, CallHands, HandsOf, NoHands
    <3> QED BY <1>0, <2>1, <2>2, <3>1, CheckKeeps, ZenonT(60)
  <2>3. CASE ~at_syscall_at_flush[u]
    BY <1>0, <2>1, <2>3, StutterKeeps, Zenon
  <2> QED BY <2>2, <2>3, Zenon
<1>12. ASSUME NEW t \in Threads, FinishExit(t) PROVE SdInv'
  <2>1. /\ pc[t] = "exiting" /\ listed' = listed \ {t} /\ UNCHANGED at
        /\ IF build = "debug" THEN CheckFlushQueue(t) ELSE UNCHANGED sdvars
    BY <1>12, Zenon DEF FinishExit, ThreadExit
  <2>2. t \in listed /\ at[t] = NoFrag
    BY <1>a, <2>1, Zenon DEF HandsOf, NoHands
  <2>3. CASE build = "debug"
    BY <1>0, <2>1, <2>2, <2>3, QueueKeeps, ZenonT(60)
  <2>4. CASE build # "debug"
    <3>1. UNCHANGED sdvars
      BY <2>1, <2>4, Zenon
    <3>2. \A u \in listed' : Uses(u)' \subseteq Uses(u) \cup Live
      BY <2>1, <3>1, Zenon DEF Uses, sdvars
    <3> QED BY <1>0, <2>1, <2>4, <3>1, <3>2, UsesKeep, ZenonT(60) DEF sdvars
  <2> QED BY <2>3, <2>4, Zenon
<1> QED
  BY <1>1, <1>2, <1>3, <1>4, <1>5, <1>6, <1>7, <1>8, <1>9, <1>10, <1>11, <1>12, ZenonT(60) DEF FlushNext

-----------------------------------------------------------------------------
\* The inductive invariant of the composition.
FlushInv == FsIInv /\ AfterOK /\ AtSyscall /\ Hands /\ CallHands /\ Mover /\ SdInv

\* It holds when no thread has started ...
LEMMA FlushInitInv == FlushInit => FlushInv
<1> SUFFICES ASSUME FlushInit PROVE FlushInv
  BY Zenon
<1>0. Members = Threads /\ NoFrag \notin Frags
  BY FlushAssumption, Zenon
<1>1. FsIInv
  BY FsInitInv, Zenon DEF FlushInit
<1>2. AfterOK
  BY Zenon DEF FlushInit, AfterOK
<1>3. AtSyscall /\ CallHands
  BY Zenon DEF FlushInit, FsInit, AtSyscall, CallHands
<1>4. Hands
  BY <1>0, Zenon DEF FlushInit, FsInit, SdInit, Hands, HandsOf, NoHands, Stages
<1>5. Mover
  <2>1. ~move_pending /\ \A t \in Threads : ~Claims(t)
    BY Zenon DEF FlushInit, FsInit, SdInit, Claims
  <2> QED BY <2>1, Zenon DEF Mover
<1>6. SdInv
  <2>1. /\ flushtime_global = 0 /\ flushtime_last_update = [t \in Threads |-> 0]
        /\ shared_delete = <<>> /\ lazy_delete_list = <<>> /\ move_pending = FALSE
        /\ frag = [f \in Frags |-> "live"] /\ last_fragment = [t \in Threads |-> NoFrag]
        /\ at = [t \in Threads |-> NoFrag] /\ listed = {}
    BY <1>0, Zenon DEF FlushInit, FsInit, SdInit
  <2>2. <<>> \in Seq(PendingEntry) /\ <<>> \in Seq(LazyEntry) /\ DOMAIN <<>> = {}
    OBVIOUS
  <2>3. SdTypeOK
    BY <2>1, <2>2, ZenonT(60) DEF SdTypeOK
  <2>4. TimesBounded /\ ListsSorted /\ RefCountCovers /\ Unreachable
    BY <2>1, <2>2 DEF TimesBounded, ListsSorted, RefCountCovers, Unreachable
  <2>5. UsersOwe /\ NoUseAfterFree
    BY <2>1, Zenon DEF UsersOwe, NoUseAfterFree
  <2> QED BY <2>3, <2>4, <2>5, Zenon DEF SdInv
<1> QED
  BY <1>1, <1>2, <1>3, <1>4, <1>5, <1>6, ZenonT(60) DEF FlushInv

\* ... and every step preserves it.
LEMMA FlushNextInv == FlushInv /\ [FlushNext]_flushvars => FlushInv'
<1>1. ASSUME FlushInv, FlushNext PROVE FlushInv'
  <2>1. FsIInv' /\ AtSyscall' /\ AfterOK'
    BY <1>1, FlushStep, AfterStep, FsNextInv, AtSyscallStep, Zenon DEF FlushInv, FsIInv
  <2>2. Hands' /\ CallHands' /\ Mover'
    BY <1>1, HandsStep, CallHandsStep, MoverStep, Zenon DEF FlushInv, SdInv
  <2>3. SdInv'
    BY <1>1, SdStep, Zenon DEF FlushInv
  <2> QED BY <2>1, <2>2, <2>3, Zenon DEF FlushInv
<1>2. ASSUME FlushInv, UNCHANGED flushvars PROVE FlushInv'
  <2>0. UNCHANGED fsvars /\ UNCHANGED sdvars /\ UNCHANGED <<at, after, build>>
    BY <1>2, Zenon DEF flushvars
  <2>1. FsIInv' /\ AtSyscall' /\ AfterOK'
    BY <1>2, <2>0, FsNextInv, AtSyscallStep, Zenon DEF FlushInv, AfterOK
  <2>2. Hands' /\ CallHands'
    BY <1>2, <2>0, Zenon DEF FlushInv, Hands, HandsOf, CallHands, fsvars, flags, sdvars
  <2>3. Mover'
    BY <1>2, <2>0, MoverSame, ZenonT(60) DEF FlushInv, Claims, fsvars, sdvars
  <2>4. SdInv'
    <3>1. /\ listed \subseteq Threads /\ UNCHANGED listed
          /\ at' \in [Threads -> Frags \cup {NoFrag}]
          /\ last_fragment' \in [Threads -> Frags \cup {NoFrag}]
      BY <1>2, <2>0, Zenon DEF FlushInv, FsIInv, FsTypeOK, SdInv, SdTypeOK, fsvars, sdvars
    <3>2. \A u \in listed' : Uses(u)' \subseteq Uses(u) \cup Live
      BY <2>0, Zenon DEF Uses, sdvars
    <3> QED BY <1>2, <2>0, <3>1, <3>2, UsesKeep, ZenonT(60) DEF FlushInv, sdvars
  <2> QED BY <2>1, <2>2, <2>3, <2>4, Zenon DEF FlushInv
<1> QED
  BY <1>1, <1>2, Zenon

\* The inductive invariant holds in every behaviour of the flushers, the threads
\* in the cache and the lazy deletions.
THEOREM FlushInvariance == FlushSpec => []FlushInv
BY FlushInitInv, FlushNextInv, PTL DEF FlushSpec

\* Delayed deletion is safe: whatever flushes, lazy deletions and exits happen, no
\* listed thread executes, is about to execute or remembers a fragment that
\* vm_area_check_shared_pending or check_lazy_deletion_list has freed.
THEOREM FlushNoUseAfterFree == FlushSpec => []NoUseAfterFree
<1>1. FlushInv => NoUseAfterFree
  BY Zenon DEF FlushInv, SdInv
<1> QED BY <1>1, FlushInvariance, PTL

\* The count of a pending entry covers every thread that owes a sign-off, and a
\* debug build counts nobody else.
THEOREM FlushRefCount == FlushSpec => []RefCountCovers
<1>1. FlushInv => RefCountCovers
  BY Zenon DEF FlushInv, SdInv
<1> QED BY <1>1, FlushInvariance, PTL

\* Both lists stay in the order of time that lets their walks stop early.
THEOREM FlushSorted == FlushSpec => []ListsSorted
<1>1. FlushInv => ListsSorted
  BY Zenon DEF FlushInv, SdInv
<1> QED BY <1>1, FlushInvariance, PTL

\* move_pending is set exactly while some listed thread is on its way to
\* move_lazy_list_to_pending_delete.
THEOREM FlushMoveClaimed == FlushSpec => []MoveClaimed
<1>1. FlushInv => MoveClaimed
  <2> SUFFICES ASSUME FlushInv PROVE MoveClaimed
    BY Zenon
  <2>1. listed \subseteq Threads /\ move_pending \in BOOLEAN
    BY Zenon DEF FlushInv, FsIInv, FsTypeOK, SdInv, SdTypeOK
  <2>2. \A t \in Threads : Claims(t) => t \in listed
    BY Zenon DEF FlushInv, Hands, HandsOf, Claims
  <2>3. move_pending <=> \E t \in listed : Claims(t)
    BY <2>1, <2>2, Zenon DEF FlushInv, Mover
  <2> QED BY <2>1, <2>3, Zenon DEF MoveClaimed, Claims
<1> QED BY <1>1, FlushInvariance, PTL

=============================================================================
