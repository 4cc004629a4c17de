------------------------------- MODULE Flush -------------------------------
(***************************************************************************)
(* Threads that run fragments of a shared cache, flush them and delete     *)
(* them: FlushSynch composed with SharedDeletion, in the dispatch loop     *)
(* (core/dispatch.c).  A thread in the cache follows links between live    *)
(* fragments; a fragment that was deleted has no links left, so the thread *)
(* leaves for the core.  Fragments in private caches are not modelled.     *)
(***************************************************************************)
EXTENDS FlushSynch, SharedDeletion

CONSTANTS Kept,           \* a fragment nobody deletes: the code always runs something
          MaxFlushes,     \* bound: flushes asked for
          Builds          \* among "debug" and "release"

\* The threads of the two protocols are the same, and there are finitely many.
ASSUME FlushAssumption ==
  /\ Members = Threads /\ IsFiniteSet(Threads)
  /\ IsFiniteSet(Frags) /\ NoFrag \notin Frags /\ Kept \in Frags
  /\ LazyDeletionMaxPending \in Nat

VARIABLES at,             \* the fragment a thread executes or is about to
          after,          \* where a thread goes on after its flush
          requests,       \* flushes asked for so far
          build

flushvars == <<fsvars, sdvars, at, after, requests, build>>

FlushInit ==
  /\ FsInit /\ SdInit
  /\ at = [t \in Threads |-> NoFrag]
  /\ after = [t \in Threads |-> "relink"] /\ requests = 0
  /\ build \in Builds

Hold(t, f) == at' = [at EXCEPT ![t] = f]

Live == {f \in Frags : frag[f] = "live"}

\* A new thread takes the current time.
Join(t) == ThreadInit(t) /\ JoinAtCurrentTime(t) /\ UNCHANGED at

\* A link or an indirect branch leads to another fragment.
Run(t, f) ==
  /\ pc[t] = "cache"
  /\ {at[t], f} \subseteq Live /\ f # at[t]
  /\ Hold(t, f)
  /\ UNCHANGED <<fsvars, sdvars>>

CacheExit(t) ==
  FMove(t, "cache", "nolink") /\ LeaveFragment(t, at[t]) /\ Hold(t, NoFrag)

\* A system call is made; when it returns there is no last fragment.
Syscall(t) == FMove(t, "nolink", "syscall") /\ UNCHANGED <<sdvars, at>>

SyscallReturn(t) ==
  FMove(t, "syscall", "nolink") /\ LeaveFragment(t, NoFrag) /\ UNCHANGED at

\* The synch point before the core works on fragments.
BecomeLinking(t) ==
  /\ EnterCouldbelinking(t) \/ RelockAll(t)
  /\ IF pc'[t] = "linking" THEN CheckFlushQueue(t) ELSE UNCHANGED sdvars
  /\ UNCHANGED at

\* d_r_dispatch finds the target.
Lookup(t, f) ==
  f \in Live /\ at[t] = NoFrag /\ LeaveLinking(t) /\ Hold(t, f) /\ UNCHANGED sdvars

\* The synch point before the cache, or before the lazy list is moved.  A
\* client may have asked for a flush: after one on the global list the target
\* is looked up again, after one on the thread's own list the thread enters
\* the target it has unless check_flush_queue said it was flushed.
GoNolinking(t) ==
  /\ \E l \in {"cache", "relink", "flush", "move"}, next \in {"cache", "relink"} :
       /\ l = "move" <=> at[t] = NoFrag
       /\ l = "relink" => ReportedFlushed(t, at[t])
       /\ l = "cache" \/ next = "cache" => ~ReportedFlushed(t, at[t])
       /\ l = "flush" => ~wait_for_unlink[t] /\ requests < MaxFlushes
       /\ l # "flush" => next = "relink"
       /\ after' = [after EXCEPT ![t] = next]
       /\ requests' = IF l = "flush" THEN requests + 1 ELSE requests
       /\ EnterNolinking(t, l)
       /\ IF "cache" \in {l, next} \/ wait_for_unlink[t] THEN UNCHANGED at ELSE Hold(t, NoFrag)
  /\ IF wait_for_unlink[t] THEN UNCHANGED sdvars ELSE CheckFlushQueue(t)

\* fragment_remove_shared_no_flush, in two steps: f is unreachable, and f is
\* on the lazy list.
RemoveFragment(t, f) ==
  /\ pc[t] = "linking" /\ at[t] = NoFrag
  /\ f \in Live \ {Kept}
  /\ Hold(t, f)
  /\ RemoveShared(f)
  /\ UNCHANGED fsvars

RemoveLazily(t) ==
  /\ pc[t] = "linking" /\ at[t] # NoFrag
  /\ IF ~move_pending /\ Len(lazy_delete_list) >= LazyDeletionMaxPending
     THEN LeaveLinking(t)
     ELSE UNCHANGED fsvars
  /\ AddToLazyDeletionList(at[t])
  /\ Hold(t, NoFrag)

\* Variant: the lazy list is moved without thread_initexit_lock.
MoveLazyUnlocked(t) ==
  /\ FMove(t, "move", "relink")
  /\ IF move_pending THEN MoveLazyList(Cardinality(listed)) ELSE UNCHANGED sdvars
  /\ UNCHANGED at

\* move_lazy_list_to_pending_delete, nolinking, under thread_initexit_lock.
MoveLazy(t) ==
  /\ LockedMove(t)
  /\ IF move_pending THEN MoveLazyList(Cardinality(listed)) ELSE UNCHANGED sdvars
  /\ UNCHANGED at

\* Memory is unmapped by a system call: its fragments have to go first.
Unmap(t) ==
  /\ requests < MaxFlushes
  /\ FMove(t, "nolink", "flush")
  /\ after' = [after EXCEPT ![t] = "syscall"]
  /\ requests' = requests + 1
  /\ UNCHANGED <<sdvars, at>>

Synchronise(t) ==
  /\ FlushStart(t) \/ (\E u \in todo : Visit(t, u)) \/ AwaitWake(t) \/ Resynch(t)
  /\ UNCHANGED <<sdvars, at>>

\* A client's flush is followed by another lookup or by the cache, one for a
\* system call by the call.
EndFlush(t) ==
  /\ FlushEnd(t, after[t])
  /\ after' = [after EXCEPT ![t] = "relink"]
  /\ UNCHANGED <<sdvars, at>>

\* Stage 2: any of the fragments may lie in the flushed region.
Unlink(t) ==
  /\ UnlinkShared(t)
  /\ \E fs \in SUBSET (Live \ {Kept}) : UnlinkFragments(fs, Cardinality(listed))
  /\ UNCHANGED at

\* Stage 3: a thread that was at a system call is signed off by the flusher.
LetGo(t, u) ==
  /\ Release(t, u)
  /\ IF at_syscall_at_flush[u] THEN CheckSharedPending(u) ELSE UNCHANGED sdvars
  /\ UNCHANGED at

Wait(t) ==
  (Notify(t) \/ WakeUnlink(t) \/ WakeAll(t)) /\ UNCHANGED <<sdvars, at>>

BeginExit(t) == EnterThreadexit(t) /\ CheckFlushQueue(t) /\ UNCHANGED at

\* Variant: the debug build does not look at the queue once more either.
FinishExitEarly(t) ==
  /\ ThreadExit(t)
  /\ UNCHANGED <<sdvars, at>>

\* fragment_thread_reset_free looks at the queue in a debug build only.
FinishExit(t) ==
  /\ ThreadExit(t)
  /\ IF build = "debug" THEN CheckFlushQueue(t) ELSE UNCHANGED sdvars
  /\ UNCHANGED at

FlushNext ==
  /\ \E t \in Threads :
       \/ Unmap(t) \/ GoNolinking(t)
       \/ EndFlush(t) /\ UNCHANGED requests
       \/ /\ \/ Join(t) \/ CacheExit(t) \/ Syscall(t) \/ SyscallReturn(t) \/ BeginExit(t)
             \/ BecomeLinking(t) \/ RemoveLazily(t) \/ MoveLazy(t) \/ Synchronise(t)
             \/ Unlink(t) \/ (\E u \in todo : LetGo(t, u)) \/ Wait(t) \/ FinishExit(t)
             \/ \E f \in Frags : Run(t, f) \/ Lookup(t, f) \/ RemoveFragment(t, f)
          /\ UNCHANGED <<after, requests>>
  /\ UNCHANGED build

FlushSpec == FlushInit /\ [][FlushNext]_flushvars

-----------------------------------------------------------------------------
\* Type invariant.
FlushTypeOK ==
  /\ flushtime_last_update \in [Threads -> 0..flushtime_global]
  /\ \A i \in DOMAIN shared_delete : shared_delete[i].ref_count > 0
  /\ frag \in [Frags -> {"live", "deleted", "freed"}] /\ frag[Kept] = "live"
  /\ at \in [Threads -> Frags \cup {NoFrag}]
  /\ last_fragment \in [Threads -> Frags \cup {NoFrag}]

\* No thread executes, is about to execute or remembers as its last fragment
\* one that has been freed.
NoUseAfterFree ==
  \A t \in listed : \A f \in {at[t], last_fragment[t]} \ {NoFrag} : frag[f] # "freed"

Owing(p) == {t \in listed : flushtime_last_update[t] < p.flushtime_deleted}

\* A pending entry waits for every listed thread that has not passed a synch
\* point since its flush, and in a debug build for no others: the count of
\* add_to_pending_list is taken of the threads that will decrement it.
RefCountCovers ==
  \A i \in DOMAIN shared_delete :
    LET p == shared_delete[i] IN
    /\ p.ref_count >= Cardinality(Owing(p))
    /\ build = "debug" => p.ref_count = Cardinality(Owing(p))

\* The same of every build (fragment.c:5802, vmareas.c:9185): no entry waits
\* for a thread that is gone.  A release build breaks it, for a thread that a
\* flush counts between enter_threadexit and the end of its exit.
NoLostReference ==
  \A i \in DOMAIN shared_delete :
    shared_delete[i].ref_count <= Cardinality(Owing(shared_delete[i]))

Held(l) == {<<p.frags, p.flushtime_deleted>> : p \in Range(l)}

\* The assertion at vmareas.c:9815, of the entries that are freed.  The lazy
\* list may have been freed after the thread that is to move it claimed the
\* move: it then moves an empty list.
FreedEntryHasFragments ==
  [][\A x \in Held(shared_delete) \ Held(shared_delete') : x[1] # {}]_flushvars

\* What both walks rely on when they stop early: entries are pre-pended and
\* lazily deleted fragments appended in the order of their times.
ListsSorted ==
  /\ \A i, j \in DOMAIN shared_delete :
       i < j => shared_delete[i].flushtime_deleted >= shared_delete[j].flushtime_deleted
  /\ \A i, j \in DOMAIN lazy_delete_list :
       i < j => lazy_delete_list[i].flushtime <= lazy_delete_list[j].flushtime

\* Exactly the thread that is to move the lazy list has claimed the move.
MoveClaimed ==
  move_pending = (\E t \in listed : pc[t] \in {"enter", "notify", "wait_unlink", "move"}
                                    /\ at[t] = NoFrag)

\* The threads stop and go as FlushSynch says, so that what holds of it holds
\* here.
FollowsFlushSynch == FsSafety
=============================================================================
