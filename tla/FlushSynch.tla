----------------------------- MODULE FlushSynch -----------------------------
(***************************************************************************)
(* How a flusher stops the other threads (core/fragment.c).  A thread is   *)
(* couldbelinking while it may look up, link or delete fragments, and      *)
(* nolinking in the cache and in system calls.  A flusher, which is        *)
(* nolinking itself and holds thread_initexit_lock, visits every thread:   *)
(* it waits for a couldbelinking one to reach its next synch point and     *)
(* keeps a nolinking one from becoming couldbelinking, changes what is     *)
(* shared, and lets all of them go.                                        *)
(*                                                                         *)
(* A section under a thread's linking_lock is one step; the events are     *)
(* auto-reset (module Event) and are modelled by their signaled word.      *)
(***************************************************************************)
CONSTANTS Threads, Nobody

ASSUME NobodyAssumption == Nobody \notin Threads

VARIABLES could_be_linking, wait_for_unlink, soon_to_be_linking, about_to_exit,
          waiting_for_unlink, finished_with_unlink, finished_all_unlink,  \* events
          at_syscall_at_flush,
          listed,      \* the threads on the global list
          initexit,    \* who holds thread_initexit_lock
          todo,        \* threads the flusher's loop has not come to
          target,      \* the thread whose event the flusher waits for
          pc

flags == <<could_be_linking, wait_for_unlink, soon_to_be_linking, about_to_exit,
           at_syscall_at_flush>>
events == <<waiting_for_unlink, finished_with_unlink, finished_all_unlink>>
flusher == <<initexit, todo, target>>
fsvars == <<flags, events, flusher, listed, pc>>

FsInit ==
  /\ could_be_linking = [t \in Threads |-> FALSE]
  /\ wait_for_unlink = [t \in Threads |-> FALSE]
  /\ soon_to_be_linking = [t \in Threads |-> FALSE]
  /\ about_to_exit = [t \in Threads |-> FALSE]
  /\ waiting_for_unlink = [t \in Threads |-> FALSE]
  /\ finished_with_unlink = [t \in Threads |-> FALSE]
  /\ finished_all_unlink = [t \in Threads |-> FALSE]
  /\ at_syscall_at_flush = [t \in Threads |-> FALSE]
  /\ listed = {}
  /\ initexit = Nobody /\ todo = {} /\ target = Nobody
  /\ pc = [t \in Threads |-> "new"]

FGoto(t, l) == pc' = [pc EXCEPT ![t] = l]

\* A thread that moves without touching the flags.
FMove(t, from, to) ==
  /\ pc[t] = from
  /\ FGoto(t, to)
  /\ UNCHANGED <<flags, events, flusher, listed>>

\* dynamo_thread_init runs with thread_initexit_lock held.
ThreadInit(t) ==
  /\ pc[t] = "new"
  /\ initexit = Nobody
  /\ listed' = listed \cup {t}
  /\ FGoto(t, "nolink")
  /\ UNCHANGED <<flags, events, flusher>>

\* The end of enter_couldbelinking, or the wait of wait_for_flusher_nolinking.
LinkOrWait(t) ==
  /\ soon_to_be_linking' = [soon_to_be_linking EXCEPT ![t] = wait_for_unlink[t]]
  /\ could_be_linking' = [could_be_linking EXCEPT ![t] = ~wait_for_unlink[t]]
  /\ FGoto(t, IF wait_for_unlink[t] THEN "wait_all" ELSE "linking")
  /\ UNCHANGED <<wait_for_unlink, about_to_exit, at_syscall_at_flush, events, flusher, listed>>

\* enter_couldbelinking
EnterCouldbelinking(t) == pc[t] \in {"nolink", "relink"} /\ LinkOrWait(t)

WakeAll(t) ==
  /\ pc[t] = "wait_all"
  /\ finished_all_unlink[t]
  /\ finished_all_unlink' = [finished_all_unlink EXCEPT ![t] = FALSE]
  /\ FGoto(t, "relock_all")
  /\ UNCHANGED <<flags, waiting_for_unlink, finished_with_unlink, flusher, listed>>

RelockAll(t) == pc[t] = "relock_all" /\ LinkOrWait(t)

\* A couldbelinking thread calls enter_nolinking ...
LeaveLinking(t) == FMove(t, "linking", "enter")

\* Variant: the thread goes nolinking without looking at wait_for_unlink.
EnterNolinkingUnseen(t, l) ==
  /\ pc[t] = "enter"
  /\ FGoto(t, l)
  /\ could_be_linking' = [could_be_linking EXCEPT ![t] = FALSE]
  /\ UNCHANGED <<wait_for_unlink, soon_to_be_linking, about_to_exit, at_syscall_at_flush,
                 events, flusher, listed>>

\* ... and stops in wait_for_flusher_linking, or goes on to l.
EnterNolinking(t, l) ==
  /\ pc[t] = "enter"
  /\ FGoto(t, IF wait_for_unlink[t] THEN "notify" ELSE l)
  /\ could_be_linking' = [could_be_linking EXCEPT ![t] = wait_for_unlink[t]]
  /\ UNCHANGED <<wait_for_unlink, soon_to_be_linking, about_to_exit, at_syscall_at_flush,
                 events, flusher, listed>>

\* The linking_lock is released; the flusher is told.
Notify(t) ==
  /\ pc[t] = "notify"
  /\ waiting_for_unlink' = [waiting_for_unlink EXCEPT ![t] = TRUE]
  /\ FGoto(t, "wait_unlink")
  /\ UNCHANGED <<flags, finished_with_unlink, finished_all_unlink, flusher, listed>>

\* The loop takes the lock and tests wait_for_unlink again.
WakeUnlink(t) ==
  /\ pc[t] = "wait_unlink"
  /\ finished_with_unlink[t]
  /\ finished_with_unlink' = [finished_with_unlink EXCEPT ![t] = FALSE]
  /\ FGoto(t, "enter")
  /\ UNCHANGED <<flags, waiting_for_unlink, finished_all_unlink, flusher, listed>>

\* enter_threadexit; threads exit at a system call, nolinking.
EnterThreadexit(t) ==
  /\ pc[t] = "nolink"
  /\ could_be_linking' = [could_be_linking EXCEPT ![t] = FALSE]
  /\ about_to_exit' = [about_to_exit EXCEPT ![t] = @ \/ wait_for_unlink[t]]
  /\ waiting_for_unlink' = [waiting_for_unlink EXCEPT ![t] = @ \/ wait_for_unlink[t]]
  /\ FGoto(t, "exiting")
  /\ UNCHANGED <<wait_for_unlink, soon_to_be_linking, at_syscall_at_flush,
                 finished_with_unlink, finished_all_unlink, flusher, listed>>

\* The rest of dynamo_thread_exit_common, with thread_initexit_lock.
ThreadExit(t) ==
  /\ pc[t] = "exiting"
  /\ initexit = Nobody
  /\ listed' = listed \ {t}
  /\ FGoto(t, "dead")
  /\ UNCHANGED <<flags, events, flusher>>

-----------------------------------------------------------------------------
\* The flusher takes thread_initexit_lock and a snapshot of the threads.
FlushStart(t) ==
  /\ pc[t] = "flush"
  /\ initexit = Nobody
  /\ initexit' = t
  /\ todo' = listed
  /\ FGoto(t, "stage1")
  /\ UNCHANGED <<flags, events, target, listed>>

\* Variant: the nolinking thread is not held back.
StoppedNotHeld(t, u) ==
  /\ at_syscall_at_flush' =
       [at_syscall_at_flush EXCEPT ![u] = ~about_to_exit[u] /\ pc[u] = "syscall"]
  /\ wait_for_unlink' = [wait_for_unlink EXCEPT ![u] = FALSE]
  /\ todo' = todo \ {u}

\* What flush_fragments_synch_priv does with a thread u that has stopped: the
\* callback notes whether u is at a system call; a nolinking u may not leave.
Stopped(t, u) ==
  /\ at_syscall_at_flush' =
       [at_syscall_at_flush EXCEPT ![u] = ~about_to_exit[u] /\ pc[u] = "syscall"]
  /\ wait_for_unlink' =
       [wait_for_unlink EXCEPT ![u] = IF u = t THEN @ ELSE ~could_be_linking[u]]
  /\ todo' = todo \ {u}

\* flush_fragments_synch_priv comes to thread u.
Visit(t, u) ==
  /\ pc[t] = "stage1" /\ u \in todo
  /\ IF u # t /\ could_be_linking[u]
     THEN /\ wait_for_unlink' = [wait_for_unlink EXCEPT ![u] = TRUE]
          /\ target' = u
          /\ FGoto(t, "await")
          /\ UNCHANGED <<at_syscall_at_flush, todo>>
     ELSE Stopped(t, u) /\ UNCHANGED <<pc, target>>
  /\ UNCHANGED <<could_be_linking, soon_to_be_linking, about_to_exit, events,
                 initexit, listed>>

AwaitWake(t) ==
  /\ pc[t] = "await"
  /\ waiting_for_unlink[target]
  /\ waiting_for_unlink' = [waiting_for_unlink EXCEPT ![target] = FALSE]
  /\ FGoto(t, "woken")
  /\ UNCHANGED <<flags, finished_with_unlink, finished_all_unlink, flusher, listed>>

\* The linking_lock of the target is taken again.
Resynch(t) ==
  /\ pc[t] = "woken"
  /\ Stopped(t, target)
  /\ target' = Nobody
  /\ FGoto(t, "stage1")
  /\ UNCHANGED <<could_be_linking, soon_to_be_linking, about_to_exit, events,
                 initexit, listed>>

\* Stage 2, flush_fragments_unlink_shared, changes nothing here.
UnlinkShared(t) ==
  /\ pc[t] = "stage1" /\ todo = {}
  /\ todo' = listed
  /\ FGoto(t, "stage3")
  /\ UNCHANGED <<flags, events, initexit, target, listed>>

\* Variant: a thread that waits to become couldbelinking is not signalled.
ReleaseSilent(t, u) ==
  /\ pc[t] = "stage3" /\ u \in todo
  /\ todo' = todo \ {u}
  /\ finished_with_unlink' =
       [finished_with_unlink EXCEPT ![u] = @ \/ (u # t /\ could_be_linking[u])]
  /\ wait_for_unlink' = [wait_for_unlink EXCEPT ![u] = @ /\ (u = t \/ could_be_linking[u])]
  /\ at_syscall_at_flush' = [at_syscall_at_flush EXCEPT ![u] = FALSE]
  /\ UNCHANGED <<could_be_linking, soon_to_be_linking, about_to_exit, waiting_for_unlink,
                 finished_all_unlink, initexit, target, listed, pc>>

\* flush_fragments_end_synch lets thread u go.
Release(t, u) ==
  /\ pc[t] = "stage3" /\ u \in todo
  /\ todo' = todo \ {u}
  /\ finished_with_unlink' =
       [finished_with_unlink EXCEPT ![u] = @ \/ (u # t /\ could_be_linking[u])]
  /\ wait_for_unlink' = [wait_for_unlink EXCEPT ![u] = @ /\ (u = t \/ could_be_linking[u])]
  /\ finished_all_unlink' =
       [finished_all_unlink EXCEPT ![u] =
          @ \/ (u # t /\ ~could_be_linking[u] /\ soon_to_be_linking[u])]
  /\ at_syscall_at_flush' = [at_syscall_at_flush EXCEPT ![u] = FALSE]
  /\ UNCHANGED <<could_be_linking, soon_to_be_linking, about_to_exit, waiting_for_unlink,
                 initexit, target, listed, pc>>

\* The flusher drops the lock and goes on to l.
FlushEnd(t, l) ==
  /\ pc[t] = "stage3" /\ todo = {}
  /\ initexit' = Nobody
  /\ FGoto(t, l)
  /\ UNCHANGED <<flags, events, todo, target, listed>>
-----------------------------------------------------------------------------
\* Where the dispatch loop goes by itself.  A client's flush request is picked
\* up at the synch point; a system call that unmaps memory flushes first.
Elsewhere(t) ==
  \/ FMove(t, "cache", "nolink") \/ FMove(t, "nolink", "syscall")
  \/ FMove(t, "syscall", "nolink") \/ FMove(t, "nolink", "flush")

\* A section under thread_initexit_lock that synchronises with nobody.
LockedMove(t) == initexit = Nobody /\ FMove(t, "move", "relink")

FsProgress(t) ==
  \/ EnterCouldbelinking(t) \/ WakeAll(t) \/ RelockAll(t) \/ LeaveLinking(t)
  \/ \E l \in {"cache", "relink", "flush", "move"} : EnterNolinking(t, l)
  \/ Notify(t) \/ WakeUnlink(t) \/ ThreadExit(t) \/ LockedMove(t) \/ FlushStart(t)
  \/ (\E u \in Threads : Visit(t, u) \/ Release(t, u))
  \/ AwaitWake(t) \/ Resynch(t) \/ UnlinkShared(t)
  \/ \E l \in {"relink", "syscall", "cache"} : FlushEnd(t, l)

FsNext ==
  \E t \in Threads : ThreadInit(t) \/ EnterThreadexit(t) \/ Elsewhere(t) \/ FsProgress(t)

FsSafety == FsInit /\ [][FsNext]_fsvars

\* A thread in the core runs on; in the cache or in a system call it may stay
\* for ever.
FsSpec == FsSafety /\ \A t \in Threads : WF_fsvars(FsProgress(t))

-----------------------------------------------------------------------------
Stages == {"stage1", "await", "woken", "stage3"}

Places == {"new", "nolink", "relink", "linking", "enter", "notify", "wait_unlink", "wait_all",
           "relock_all", "cache", "syscall", "move", "flush", "exiting", "dead"}
            \cup Stages

\* Type invariant.
FsTypeOK ==
  /\ could_be_linking \in [Threads -> BOOLEAN] /\ wait_for_unlink \in [Threads -> BOOLEAN]
  /\ soon_to_be_linking \in [Threads -> BOOLEAN] /\ about_to_exit \in [Threads -> BOOLEAN]
  /\ at_syscall_at_flush \in [Threads -> BOOLEAN]
  /\ waiting_for_unlink \in [Threads -> BOOLEAN]
  /\ finished_with_unlink \in [Threads -> BOOLEAN]
  /\ finished_all_unlink \in [Threads -> BOOLEAN]
  /\ todo \subseteq listed /\ listed \subseteq Threads
  /\ initexit \in Threads \cup {Nobody} /\ target \in Threads \cup {Nobody}
  /\ pc \in [Threads -> Places]

\* The threads the flusher has stopped and not let go.
Synched ==
  {u \in listed \ {initexit} :
     \E t \in Threads : \/ pc[t] \in Stages \ {"stage3"} /\ u \notin todo
                        \/ pc[t] = "stage3" /\ u \in todo}

\* From the moment flush_fragments_synch_priv is done with a thread until
\* flush_fragments_end_synch lets it go, the thread is not at work on fragments:
\* it is nolinking or it waits for the flusher at its synch point, whatever
\* signals earlier flushes left behind.
Quiescent == \A u \in Synched : could_be_linking[u] => pc[u] = "wait_unlink"

\* A flush comes to its end, though the flusher waits for every couldbelinking
\* thread in turn and threads exit meanwhile.
FlushCompletes == initexit # Nobody ~> initexit = Nobody

\* Every thread that stopped for a flusher is woken.
StoppedIsWoken ==
  \A t \in Threads :
    pc[t] \in {"wait_unlink", "wait_all"} ~> pc[t] \notin {"wait_unlink", "wait_all"}
=============================================================================
