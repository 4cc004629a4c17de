--------------------------- MODULE SharedDeletion ---------------------------
(***************************************************************************)
(* Delayed deletion of shared fragments (core/vmareas.c, core/fragment.c). *)
(* A fragment is first unlinked and later freed, when no thread can be in  *)
(* it or hold a pointer to it.  A flush puts the fragments of an area on   *)
(* the pending list with the number of threads that have not passed a      *)
(* synch point since; a fragment deleted on its own goes on the lazy list  *)
(* with a time no thread has signed off yet.                               *)
(*                                                                         *)
(* The sections under shared_cache_flush_lock are single steps.  A flushed *)
(* area holds one fragment.  flushtime_global is far from its limit, where *)
(* a reset of the caches is scheduled.                                     *)
(***************************************************************************)
EXTENDS Integers, Sequences, FiniteSetsExt, Functions

CONSTANTS Members,                     \* the threads
          Frags, NoFrag,
          LazyDeletionMaxPending       \* the -lazy_deletion_max_pending option

VARIABLES flushtime_global,
          flushtime_last_update,       \* of each thread
          shared_delete,               \* pending entries, the newest first
          lazy_delete_list, move_pending,
          frag,                        \* "live", "deleted" (FRAG_WAS_DELETED) or "freed"
          last_fragment                \* of each thread's dcontext

sdvars == <<flushtime_global, flushtime_last_update, shared_delete, lazy_delete_list,
            move_pending, frag, last_fragment>>

SdInit ==
  /\ flushtime_global = 0
  /\ flushtime_last_update = [t \in Members |-> 0]
  /\ shared_delete = <<>>
  /\ lazy_delete_list = <<>> /\ move_pending = FALSE
  /\ frag = [f \in Frags |-> "live"]
  /\ last_fragment = [t \in Members |-> NoFrag]

WasDeleted(f) == f # NoFrag /\ frag[f] # "live"

\* Variant: the thread that adds the entry does not count itself.
EntryWithoutSelf(fs, refcount, flushtime) ==
  [frags |-> fs, ref_count |-> refcount - 1, flushtime_deleted |-> flushtime]

\* What add_to_pending_list allocates.
Entry(fs, refcount, flushtime) ==
  [frags |-> fs, ref_count |-> refcount, flushtime_deleted |-> flushtime]

\* The entries a thread that last looked at time now has to sign off: the walk
\* stops at the first one it has signed off before.
Unsigned(now) ==
  CHOOSE n \in 0..Len(shared_delete) :
    /\ \A i \in 1..n : now < shared_delete[i].flushtime_deleted
    /\ n < Len(shared_delete) => ~(now < shared_delete[n + 1].flushtime_deleted)

SignedOff(now) ==
  [i \in 1..Len(shared_delete) |->
     IF i <= Unsigned(now) THEN [shared_delete[i] EXCEPT !.ref_count = @ - 1]
                           ELSE shared_delete[i]]

\* What is left of the list l when the entries nobody refers to are unlinked:
\* the others, in the same order.
Referenced(l) ==
  LET kept == {i \in DOMAIN l : l[i].ref_count # 0}
      nth(n) == CHOOSE i \in kept : Cardinality(kept \cap (1..i)) = n
  IN [n \in 1..Cardinality(kept) |-> l[nth(n)]]

\* check_lazy_deletion_list frees the head of the list, up to the first
\* fragment with a later time.
LazyExpired(flushtime) ==
  CHOOSE n \in 0..Len(lazy_delete_list) :
    /\ \A i \in 1..n : lazy_delete_list[i].flushtime <= flushtime
    /\ n < Len(lazy_delete_list) => lazy_delete_list[n + 1].flushtime > flushtime

\* vm_area_check_shared_pending for thread t, which is at a synch point.
CheckSharedPending(t) ==
  LET after  == SignedOff(flushtime_last_update[t])
      tofree == {i \in DOMAIN after : after[i].ref_count = 0}
      newest == Max({after[i].flushtime_deleted : i \in tofree} \cup {0})
      lazies == LazyExpired(newest)
      gone   == (UNION {after[i].frags : i \in tofree})
                  \cup {lazy_delete_list[i].f : i \in 1..lazies}
  IN /\ last_fragment' = [last_fragment EXCEPT ![t] = IF WasDeleted(@) THEN NoFrag ELSE @]
     /\ shared_delete' = Referenced(after)
     /\ lazy_delete_list' = SubSeq(lazy_delete_list, lazies + 1, Len(lazy_delete_list))
     /\ frag' = [f \in Frags |-> IF f \in gone THEN "freed" ELSE frag[f]]
     /\ flushtime_last_update' = [flushtime_last_update EXCEPT ![t] = flushtime_global]
     /\ UNCHANGED <<flushtime_global, move_pending>>

\* check_flush_queue looks at the shared list only if the time has moved on.
BehindGlobal(t) == flushtime_last_update[t] < flushtime_global

CheckFlushQueue(t) ==
  IF BehindGlobal(t) THEN CheckSharedPending(t) ELSE UNCHANGED sdvars

\* Whether check_flush_queue tells the caller that f was flushed.
ReportedFlushed(t, f) == BehindGlobal(t) /\ WasDeleted(f)

\* fragment_thread_reset_init
JoinAtCurrentTime(t) ==
  /\ flushtime_last_update' = [flushtime_last_update EXCEPT ![t] = flushtime_global]
  /\ UNCHANGED <<flushtime_global, shared_delete, lazy_delete_list, move_pending, frag,
                 last_fragment>>

\* The thread left fragment f for the core: set_last_exit.
LeaveFragment(t, f) ==
  /\ last_fragment' = [last_fragment EXCEPT ![t] = f]
  /\ UNCHANGED <<flushtime_global, flushtime_last_update, shared_delete, lazy_delete_list,
                 move_pending, frag>>

\* The fragments fs in the order in which their areas are found.
AreaOrder(fs) == CHOOSE order \in [1..Cardinality(fs) -> fs] : IsInjective(order)

\* Stage 2 of a flush of the live fragments fs: the time is incremented and
\* vm_area_unlink_fragments makes one entry per area, at the front.
UnlinkFragments(fs, threads) ==
  /\ flushtime_global' = flushtime_global + 1
  /\ shared_delete' =
       [i \in 1..Cardinality(fs) |-> Entry({AreaOrder(fs)[i]}, threads, flushtime_global')]
         \o shared_delete
  /\ frag' = [f \in Frags |-> IF f \in fs THEN "deleted" ELSE frag[f]]
  /\ UNCHANGED <<flushtime_last_update, lazy_delete_list, move_pending, last_fragment>>

\* fragment_remove_shared_no_flush makes f unreachable ...
RemoveShared(f) ==
  /\ frag' = [frag EXCEPT ![f] = "deleted"]
  /\ UNCHANGED <<flushtime_global, flushtime_last_update, shared_delete, lazy_delete_list,
                 move_pending, last_fragment>>

\* Variant: the lazily deleted fragment gets the present time.
AddToLazyNow(f) ==
  /\ lazy_delete_list' = Append(lazy_delete_list, [f |-> f, flushtime |-> flushtime_global])
  /\ move_pending' = (move_pending \/ Len(lazy_delete_list') > LazyDeletionMaxPending)
  /\ UNCHANGED <<flushtime_global, flushtime_last_update, shared_delete, frag, last_fragment>>

\* Variant: the fragment is put at the front.
AddToLazyFront(f) ==
  /\ lazy_delete_list' =
       <<[f |-> f, flushtime |-> flushtime_global + 1]>> \o lazy_delete_list
  /\ move_pending' = (move_pending \/ Len(lazy_delete_list') > LazyDeletionMaxPending)
  /\ UNCHANGED <<flushtime_global, flushtime_last_update, shared_delete, frag, last_fragment>>

\* ... and add_to_lazy_deletion_list appends it, with a time later than any
\* thread has signed off.
AddToLazyDeletionList(f) ==
  /\ lazy_delete_list' =
       Append(lazy_delete_list, [f |-> f, flushtime |-> flushtime_global + 1])
  /\ move_pending' = (move_pending \/ Len(lazy_delete_list') > LazyDeletionMaxPending)
  /\ UNCHANGED <<flushtime_global, flushtime_last_update, shared_delete, frag, last_fragment>>

\* Variant: move_pending is left set.
MoveLazyListOnce(threads) ==
  /\ flushtime_global' = flushtime_global + 1
  /\ shared_delete' =
       <<Entry({x.f : x \in Range(lazy_delete_list)}, threads, flushtime_global')>>
         \o shared_delete
  /\ lazy_delete_list' = <<>>
  /\ UNCHANGED <<flushtime_last_update, move_pending, frag, last_fragment>>

\* The part of move_lazy_list_to_pending_delete under the locks.
MoveLazyList(threads) ==
  /\ flushtime_global' = flushtime_global + 1
  /\ shared_delete' =
       <<Entry({x.f : x \in Range(lazy_delete_list)}, threads, flushtime_global')>>
         \o shared_delete
  /\ lazy_delete_list' = <<>>
  /\ move_pending' = FALSE
  /\ UNCHANGED <<flushtime_last_update, frag, last_fragment>>
=============================================================================
