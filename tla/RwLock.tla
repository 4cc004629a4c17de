------------------------------- MODULE RwLock -------------------------------
(***************************************************************************)
(* read_write_lock_t (core/utils.c).  A writer takes the mutex and waits   *)
(* for num_readers to drop to zero; a reader counts itself first and looks *)
(* at the mutex word again afterwards.  The two words are never changed    *)
(* together, so every access is a step of its own.  On Linux the contended *)
(* paths only yield (rwlock_wait_contended_*, rwlock_notify_* in           *)
(* core/unix/os.c), so a thread that has to wait stays where it is and     *)
(* num_pending_readers, which only decides whom to notify, is left out.    *)
(* The writer may take the read lock as well; a reader may not nest.       *)
(***************************************************************************)
EXTENDS Mutex, FiniteSets

CONSTANT NoWriter      \* INVALID_THREAD_ID in the writer field

ASSUME ThreadsFinite == IsFiniteSet(Threads)

VARIABLES num_readers, writer,
          rw           \* where each thread is in a read or write call

rwvars == <<num_readers, writer, rw>>

RW == {"out", "test", "inc", "recheck", "undo", "reading",
       "drain", "tried", "own", "writing", "both", "unlock", "downgrade"}

RwInit ==
  /\ num_readers = 0
  /\ writer = NoWriter
  /\ rw = [t \in Threads |-> "out"]

RwGoto(t, l) == rw' = [rw EXCEPT ![t] = l]

\* d_r_read_lock is called by a thread that is not the writer.
ReadLock(t) ==
  /\ rw[t] = "out" /\ pc[t] = "idle"
  /\ RwGoto(t, "test")
  /\ UNCHANGED <<vars, num_readers, writer>>

\* d_r_read_lock called by the writer: the mutex is locked, writer is itself.
WriterReads(t) ==
  /\ rw[t] = "writing"
  /\ num_readers' = num_readers + 1
  /\ RwGoto(t, "both")
  /\ UNCHANGED <<vars, writer>>

\* Variant: the reader counts itself without looking at the mutex first.
ReadTestSkipped(t) ==
  /\ rw[t] = "test"
  /\ RwGoto(t, "inc")
  /\ UNCHANGED <<vars, num_readers, writer>>

\* The mutex tests free and the contended loop ends.
ReadTest(t) ==
  /\ rw[t] = "test"
  /\ lock_requests = LOCK_FREE_STATE
  /\ RwGoto(t, "inc")
  /\ UNCHANGED <<vars, num_readers, writer>>

\* Variant: the reader does not look at the mutex again.
ReadIncNoRecheck(t) ==
  /\ rw[t] = "inc"
  /\ num_readers' = num_readers + 1
  /\ RwGoto(t, "reading")
  /\ UNCHANGED <<vars, writer>>

ReadInc(t) ==
  /\ rw[t] = "inc"
  /\ num_readers' = num_readers + 1
  /\ RwGoto(t, "recheck")
  /\ UNCHANGED <<vars, writer>>

ReadRecheck(t) ==
  /\ rw[t] = "recheck"
  /\ RwGoto(t, IF lock_requests = LOCK_FREE_STATE THEN "reading" ELSE "undo")
  /\ UNCHANGED <<vars, num_readers, writer>>

\* Variant: the reader that lost the race is not taken off the count.
ReadUndoForgotten(t) ==
  /\ rw[t] = "undo"
  /\ RwGoto(t, "test")
  /\ UNCHANGED <<vars, num_readers, writer>>

\* The reader lost a race with a writer.
ReadUndo(t) ==
  /\ rw[t] = "undo"
  /\ num_readers' = num_readers - 1
  /\ RwGoto(t, "test")
  /\ UNCHANGED <<vars, writer>>

\* d_r_read_unlock
ReadUnlock(t) ==
  /\ rw[t] = "both" \/ (rw[t] = "reading" /\ pc[t] = "idle")
  /\ num_readers' = num_readers - 1
  /\ RwGoto(t, IF rw[t] = "both" THEN "writing" ELSE "out")
  /\ UNCHANGED <<vars, writer>>

\* d_r_write_lock starts with the mutex.
WriteLock(t) ==
  /\ rw[t] = "out"
  /\ MutexLock(t)
  /\ RwGoto(t, "drain")
  /\ UNCHANGED <<num_readers, writer>>

RwMutexStep(t) == Step(t) /\ UNCHANGED rwvars

RwInterrupted(t) == Interrupted(t) /\ UNCHANGED rwvars

\* The mutex is held and no reader is counted: the writer leaves its loop.
Drained(t) ==
  /\ rw[t] = "drain" /\ pc[t] = "holding"
  /\ num_readers = 0
  /\ RwGoto(t, "own")
  /\ UNCHANGED <<vars, num_readers, writer>>

\* d_r_write_trylock: one attempt at the mutex ...
WriteTrylock(t) ==
  /\ rw[t] = "out"
  /\ Trylock(t)
  /\ RwGoto(t, IF pc'[t] = "holding" THEN "tried" ELSE "out")
  /\ UNCHANGED <<num_readers, writer>>

\* ... which is given back if a reader is counted.
TrylockCheck(t) ==
  /\ rw[t] = "tried"
  /\ RwGoto(t, IF num_readers = 0 THEN "own" ELSE "unlock")
  /\ UNCHANGED <<vars, num_readers, writer>>

SetWriter(t) ==
  /\ rw[t] = "own"
  /\ writer' = t
  /\ RwGoto(t, "writing")
  /\ UNCHANGED <<vars, num_readers>>

\* d_r_write_unlock clears the writer ...
WriteUnlock(t) ==
  /\ rw[t] \in {"writing", "both"}
  /\ writer' = NoWriter
  /\ RwGoto(t, IF rw[t] = "both" THEN "downgrade" ELSE "unlock")
  /\ UNCHANGED <<vars, num_readers>>

\* ... and unlocks the mutex; a read lock taken meanwhile is kept.
RwUnlock(t) ==
  /\ rw[t] \in {"unlock", "downgrade"}
  /\ Unlock(t)
  /\ RwGoto(t, IF rw[t] = "downgrade" THEN "reading" ELSE "out")
  /\ UNCHANGED <<num_readers, writer>>

\* The steps of calls in progress, and the release of what was acquired.
RwStep(t) ==
  \/ ReadTest(t) \/ ReadInc(t) \/ ReadRecheck(t) \/ ReadUndo(t) \/ ReadUnlock(t)
  \/ RwMutexStep(t) \/ Drained(t) \/ TrylockCheck(t) \/ SetWriter(t) \/ RwUnlock(t)

RwNext ==
  \E t \in Threads :
    \/ ReadLock(t) \/ WriterReads(t) \/ WriteLock(t) \/ WriteTrylock(t)
    \/ WriteUnlock(t) \/ RwInterrupted(t) \/ RwStep(t)

RwSpec == Init /\ RwInit /\ [][RwNext]_<<vars, rwvars>>

-----------------------------------------------------------------------------
Writing(t) == rw[t] \in {"writing", "both"}

\* Threads the counter stands for, those about to undo included.
Counted == {t \in Threads : rw[t] \in {"recheck", "undo", "reading", "both", "downgrade"}}

\* A thread whose d_r_write_lock or d_r_write_trylock returned is alone: no
\* other thread reads or writes, although readers and writers change
\* different words in separate steps.
WriterAlone ==
  \A t, u \in Threads : t # u /\ Writing(t) => ~Writing(u) /\ rw[u] # "reading"

\* num_readers is the number of counted readers at every step; a miscount
\* would let a writer in with readers, or block writers for ever.
ReadersCounted == num_readers = Cardinality(Counted)

\* A writer that has the mutex is not starved by readers that keep coming:
\* its loop ends once the present readers are done.
WriterGetsIn ==
  \A t \in Threads : (rw[t] = "drain" /\ pc[t] = "holding") ~> (rw[t] = "writing")
=============================================================================
