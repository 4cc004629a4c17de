------------------------------- MODULE Event -------------------------------
(***************************************************************************)
(* event_t on Linux (core/unix/os.c): a signaled word that waiters test    *)
(* and sleep on without the event's lock, and change only with it.  The    *)
(* lock is a mutex_t, taken here by its specification Lock, which Mutex    *)
(* implements.                                                             *)
(***************************************************************************)
EXTENDS Lock, Integers

VARIABLES signaled, broadcast,
          ev,          \* where each thread is in an event call
          credit       \* successful waits the last signal is still good for

evvars == <<signaled, broadcast, ev, credit>>

\* create_event and create_broadcast_event
EvInit ==
  /\ LockInit
  /\ signaled = 0
  /\ broadcast \in BOOLEAN
  /\ ev = [t \in Clients |-> "out"]
  /\ credit = 0

EvGoto(t, l) == ev' = [ev EXCEPT ![t] = l]

\* signal_event takes the lock, ...
SignalEvent(t) ==
  /\ ev[t] = "out"
  /\ Request(t)
  /\ EvGoto(t, "signal")
  /\ UNCHANGED <<signaled, broadcast, credit>>

\* ... sets the word, ...
SetSignaled(t) ==
  /\ ev[t] = "signal" /\ phase[t] = "holding"
  /\ signaled' = 1
  /\ credit' = 1
  /\ EvGoto(t, "wake")
  /\ UNCHANGED <<phase, broadcast>>

Sleepers == {u \in Clients : ev[u] = "asleep"}

\* Variant: one sleeper is woken whatever the kind of event.
WakeOne(t) ==
  /\ ev[t] = "wake"
  /\ \/ Sleepers = {} /\ EvGoto(t, "unlock")
     \/ \E u \in Sleepers : ev' = [ev EXCEPT ![t] = "unlock", ![u] = "check"]
  /\ UNCHANGED <<phase, signaled, broadcast, credit>>

\* ... and wakes one sleeper, or all of them.
SignalWake(t) ==
  /\ ev[t] = "wake"
  /\ \/ Sleepers = {} /\ EvGoto(t, "unlock")
     \/ /\ broadcast
        /\ ev' = [u \in Clients |-> IF u \in Sleepers THEN "check"
                                    ELSE IF u = t THEN "unlock" ELSE ev[u]]
     \/ /\ ~broadcast
        /\ \E u \in Sleepers : ev' = [ev EXCEPT ![t] = "unlock", ![u] = "check"]
  /\ UNCHANGED <<phase, signaled, broadcast, credit>>

\* reset_event
ResetEvent(t) ==
  /\ ev[t] = "out"
  /\ Request(t)
  /\ EvGoto(t, "reset")
  /\ UNCHANGED <<signaled, broadcast, credit>>

ResetSignaled(t) ==
  /\ ev[t] = "reset" /\ phase[t] = "holding"
  /\ signaled' = 0
  /\ EvGoto(t, "unlock")
  /\ UNCHANGED <<phase, broadcast, credit>>

\* wait_for_event without a timeout enters its loop.
WaitForEvent(t) ==
  /\ ev[t] = "out" /\ phase[t] = "idle"
  /\ EvGoto(t, "check")
  /\ UNCHANGED <<phase, signaled, broadcast, credit>>

\* The word is read without the lock.
CheckSignaled(t) ==
  /\ ev[t] = "check" /\ phase[t] = "idle"
  /\ \/ signaled = 1 /\ Request(t) /\ EvGoto(t, "take")
     \/ signaled # 1 /\ UNCHANGED phase /\ EvGoto(t, "wait")
  /\ UNCHANGED <<signaled, broadcast, credit>>

\* Variant: the wait does not compare the word.
EvSleepAnyway(t) ==
  /\ ev[t] = "wait"
  /\ EvGoto(t, "asleep")
  /\ UNCHANGED <<phase, signaled, broadcast, credit>>

\* ksynch_wait on the word: it sleeps only if the word is still zero.
EvFutexWait(t) ==
  /\ ev[t] = "wait"
  /\ EvGoto(t, IF signaled = 0 THEN "asleep" ELSE "check")
  /\ UNCHANGED <<phase, signaled, broadcast, credit>>

\* Variant: the word is not read again under the lock.
TakeUnchecked(t) ==
  /\ ev[t] = "take" /\ phase[t] = "holding"
  /\ signaled' = IF broadcast THEN signaled ELSE 0
  /\ credit' = IF broadcast THEN credit ELSE credit - 1
  /\ EvGoto(t, "unlock")
  /\ UNCHANGED <<phase, broadcast>>

\* With the lock: somebody was faster, or the event is consumed.
Take(t) ==
  /\ ev[t] = "take" /\ phase[t] = "holding"
  /\ \/ /\ signaled = 0
        /\ EvGoto(t, "beaten")
        /\ UNCHANGED <<signaled, credit>>
     \/ /\ signaled # 0
        /\ signaled' = IF broadcast THEN signaled ELSE 0
        /\ credit' = IF broadcast THEN credit ELSE credit - 1
        /\ EvGoto(t, "unlock")
  /\ UNCHANGED <<phase, broadcast>>

\* The lock is released: the call returns, or a beaten waiter loops.
EvUnlock(t) ==
  /\ ev[t] \in {"unlock", "beaten"}
  /\ Release(t)
  /\ EvGoto(t, IF ev[t] = "beaten" THEN "check" ELSE "out")
  /\ UNCHANGED <<signaled, broadcast, credit>>

\* A signal ends the futex wait early; the loop looks at the word again.
EvInterrupted(t) ==
  /\ ev[t] = "asleep"
  /\ EvGoto(t, "check")
  /\ UNCHANGED <<phase, signaled, broadcast, credit>>

\* The event's lock is granted to a thread that asked for it.
EvLocked(t) == phase[t] = "trying" /\ Acquire(t) /\ UNCHANGED evvars

EvStep(t) ==
  \/ SetSignaled(t) \/ SignalWake(t) \/ ResetSignaled(t) \/ CheckSignaled(t)
  \/ EvFutexWait(t) \/ Take(t) \/ EvUnlock(t) \/ EvLocked(t)

EvNext ==
  \E t \in Clients :
    SignalEvent(t) \/ ResetEvent(t) \/ WaitForEvent(t) \/ EvInterrupted(t) \/ EvStep(t)

EvSpec == EvInit /\ [][EvNext]_<<phase, evvars>>

-----------------------------------------------------------------------------
\* Between two signals an auto-reset event lets at most one waiter through,
\* whatever the waiters saw before they took the lock ("events are un-signaled
\* when successfully waited upon", os.c).
OneWaiterPerSignal == ~broadcast => signaled <= credit

\* A signal is not slept through: while the word is set and a waiter sleeps, a
\* waker or an awake waiter is on its way; for a broadcast event, the waker.
SignalNotMissed ==
  signaled = 1 /\ Sleepers # {} =>
    \E u \in Clients :
      \/ ev[u] = "wake"
      \/ ~broadcast /\ ev[u] \in {"check", "wait", "take"}

\* A set event is consumed, or every sleeper of a broadcast event gets up.
EventDelivered ==
  \A t \in Clients :
    (signaled = 1 /\ ev[t] = "asleep") ~> (signaled = 0 \/ ev[t] # "asleep")
=============================================================================
