------------------------------ MODULE Suspend ------------------------------
(***************************************************************************)
(* Suspending, resuming and terminating one target thread on Linux         *)
(* (core/unix/os.c) and the signal handler the target runs                 *)
(* (core/unix/signal.c).  Several controllers may call os_thread_suspend   *)
(* at once; each resumes what it suspended.  suspend_lock is a mutex_t,    *)
(* taken by its specification (module Lock): holder is its owner, and a    *)
(* step that releases it is merged with the last step under it.  A futex   *)
(* wait on one of the words below re-tests the word, so it is a step       *)
(* enabled when the word is set.  Only this protocol sends SUSPEND_SIGNAL. *)
(* The target is under control of DynamoRIO throughout: the handler's      *)
(* branches that take over a native thread, and those for retakeover and   *)
(* detach after the wait, are left out.                                    *)
(***************************************************************************)
EXTENDS Integers, FiniteSets

CONSTANTS Controllers, Nobody

ASSUME ControllersAssumption == IsFiniteSet(Controllers) /\ Nobody \notin Controllers

VARIABLES suspend_count, holder,
          suspended, wakeup, resumed,   \* the words of os_thread_data_t
          terminate, terminated,
          sigcxt,       \* 1 when suspended_sigcxt is set and the context can be read
          signals,      \* suspend signals on their way to the target
          cp,           \* where each controller is
          tp            \* where the target is

susvars == <<suspend_count, holder, suspended, wakeup, resumed, terminate, terminated,
             sigcxt, signals, cp, tp>>

SusInit ==
  /\ suspend_count = 0 /\ holder = Nobody
  /\ suspended = 0 /\ wakeup = 0 /\ resumed = 0
  /\ terminate = 0 /\ terminated = 0 /\ sigcxt = 0
  /\ signals = 0
  /\ cp = [c \in Controllers |-> "out"]
  /\ tp = "running"

CGoto(c, l) == cp' = [cp EXCEPT ![c] = l]

\* os_thread_suspend: the lock is taken and the count raised ...
SuspendBegin(c) ==
  /\ cp[c] = "out"
  /\ holder = Nobody
  /\ holder' = c
  /\ suspend_count' = suspend_count + 1
  /\ CGoto(c, "send")
  /\ UNCHANGED <<suspended, wakeup, resumed, terminate, terminated, sigcxt, signals, tp>>

\* Variant: every suspender sends a signal.
SendAlways(c) ==
  /\ cp[c] = "send"
  /\ signals' = signals + 1
  /\ holder' = Nobody
  /\ CGoto(c, "await")
  /\ UNCHANGED <<suspend_count, suspended, wakeup, resumed, terminate, terminated, sigcxt, tp>>

\* ... the first suspender sends the signal, and the lock is released.
Send(c) ==
  /\ cp[c] = "send"
  /\ signals' = IF suspend_count = 1 THEN signals + 1 ELSE signals
  /\ holder' = Nobody
  /\ CGoto(c, "await")
  /\ UNCHANGED <<suspend_count, suspended, wakeup, resumed, terminate, terminated, sigcxt, tp>>

\* The signal cannot be sent: the count is taken back and the call fails.
SendFails(c) ==
  /\ cp[c] = "send"
  /\ suspend_count = 1
  /\ suspend_count' = 0
  /\ holder' = Nobody
  /\ CGoto(c, "out")
  /\ UNCHANGED <<suspended, wakeup, resumed, terminate, terminated, sigcxt, signals, tp>>

\* A wait that ends, for whatever reason, looks at the word again; once it is
\* set os_thread_suspend returns true.
AwaitSuspended(c) ==
  /\ cp[c] = "await"
  /\ CGoto(c, IF suspended = 1 THEN "suspended" ELSE "await")
  /\ UNCHANGED <<suspend_count, holder, suspended, wakeup, resumed, terminate, terminated,
                 sigcxt, signals, tp>>

\* Variant: the first resumer wakes the target whoever else suspended it.
ResumeFirst(c) ==
  /\ cp[c] = "suspended"
  /\ holder = Nobody
  /\ suspend_count' = suspend_count - 1
  /\ holder' = c
  /\ CGoto(c, "wakeup")
  /\ UNCHANGED <<suspended, wakeup, resumed, terminate, terminated, sigcxt, signals, tp>>

\* os_thread_resume: only the last resumer goes on to wake the target.
ResumeBegin(c) ==
  /\ cp[c] = "suspended"
  /\ holder = Nobody
  /\ suspend_count' = suspend_count - 1
  /\ holder' = IF suspend_count > 1 THEN Nobody ELSE c
  /\ CGoto(c, IF suspend_count > 1 THEN "out" ELSE "wakeup")
  /\ UNCHANGED <<suspended, wakeup, resumed, terminate, terminated, sigcxt, signals, tp>>

Wakeup(c) ==
  /\ cp[c] = "wakeup"
  /\ wakeup' = 1
  /\ CGoto(c, "resuming")
  /\ UNCHANGED <<suspend_count, holder, suspended, resumed, terminate, terminated,
                 sigcxt, signals, tp>>

\* Variant: wakeup stays set for the next suspension.
FinishAwake(c) ==
  /\ cp[c] = "resuming"
  /\ resumed = 1
  /\ resumed' = 0
  /\ holder' = Nobody
  /\ CGoto(c, "out")
  /\ UNCHANGED <<suspend_count, suspended, wakeup, terminate, terminated, sigcxt, signals, tp>>

\* The target has left: the words are reset and the lock released.
ResumeFinish(c) ==
  /\ cp[c] = "resuming"
  /\ resumed = 1
  /\ wakeup' = 0
  /\ resumed' = 0
  /\ holder' = Nobody
  /\ CGoto(c, "out")
  /\ UNCHANGED <<suspend_count, suspended, terminate, terminated, sigcxt, signals, tp>>

\* os_thread_terminate, of a thread the caller has suspended ...
Terminate(c) ==
  /\ cp[c] = "suspended"
  /\ terminate = 0
  /\ terminate' = 1
  /\ signals' = signals + 1
  /\ CGoto(c, "kill")
  /\ UNCHANGED <<suspend_count, holder, suspended, wakeup, resumed, terminated, sigcxt, tp>>

\* ... and os_wait_thread_terminated.
AwaitTerminated(c) ==
  /\ cp[c] = "kill"
  /\ terminated = 1
  /\ CGoto(c, "killed")
  /\ UNCHANGED <<suspend_count, holder, suspended, wakeup, resumed, terminate, terminated,
                 sigcxt, signals, tp>>

-----------------------------------------------------------------------------
\* The target takes a signal, running or parked in the handler with signals
\* unblocked: it exits, ignores the signal, or (from app or DR code) stops.
HandleSuspendSignal ==
  /\ tp \in {"running", "parked"}
  /\ signals > 0
  /\ signals' = signals - 1
  /\ IF terminate = 1
     THEN terminated' = 1 /\ tp' = "dead" /\ UNCHANGED sigcxt
     ELSE IF suspend_count = 0
     THEN UNCHANGED <<terminated, tp, sigcxt>>
     ELSE terminated' = terminated /\ sigcxt' = 1 /\ tp' = "handler"
  /\ UNCHANGED <<suspend_count, holder, suspended, wakeup, resumed, terminate, cp>>

\* The controllers are told; signals are unblocked and the wait starts.
Park ==
  /\ tp = "handler"
  /\ suspended' = 1
  /\ tp' = "parked"
  /\ UNCHANGED <<suspend_count, holder, wakeup, resumed, terminate, terminated, sigcxt,
                 signals, cp>>

\* The wait ends; signals are blocked again.
Awake ==
  /\ tp = "parked"
  /\ wakeup = 1
  /\ sigcxt' = 0
  /\ tp' = "waking"
  /\ UNCHANGED <<suspend_count, holder, suspended, wakeup, resumed, terminate, terminated,
                 signals, cp>>

ResetSuspended ==
  /\ tp = "waking"
  /\ suspended' = 0
  /\ tp' = "leaving"
  /\ UNCHANGED <<suspend_count, holder, wakeup, resumed, terminate, terminated, sigcxt,
                 signals, cp>>

NotifyResumed ==
  /\ tp = "leaving"
  /\ resumed' = 1
  /\ tp' = "running"
  /\ UNCHANGED <<suspend_count, holder, suspended, wakeup, terminate, terminated, sigcxt,
                 signals, cp>>

TargetStep ==
  HandleSuspendSignal \/ Park \/ Awake \/ ResetSuspended \/ NotifyResumed

\* The steps of a call in progress.
ControllerStep(c) ==
  \/ Send(c) \/ SendFails(c) \/ AwaitSuspended(c)
  \/ Wakeup(c) \/ ResumeFinish(c) \/ AwaitTerminated(c)

SusNext ==
  \/ TargetStep
  \/ \E c \in Controllers :
       SuspendBegin(c) \/ ResumeBegin(c) \/ Terminate(c) \/ ControllerStep(c)

SusSpec == SusInit /\ [][SusNext]_susvars

-----------------------------------------------------------------------------
\* From the return of its os_thread_suspend until it resumes the target or
\* has it exit, every controller finds the target stopped in the handler with
\* its context available, however other controllers' calls interleave.
SuspendedMeansParked ==
  \A c \in Controllers :
    cp[c] \in {"suspended", "kill", "killed"} =>
      /\ tp = "parked" \/ (terminate = 1 /\ tp = "dead")
      /\ sigcxt = 1 /\ suspended = 1

\* The handler's own expectation: no suspend signal reaches a target that is
\* still in the handler from the one before (signal.c: "our own
\* os_thread_suspend() will not send a 2nd suspend signal until we are
\* completely resumed").
NoReentry ==
  signals > 0 /\ terminate = 0 => tp = "running" /\ suspended = 0 /\ sigcxt = 0

\* A suspension succeeds or fails, and a resumption returns.
SuspendReturns ==
  \A c \in Controllers :
    /\ (cp[c] = "await") ~> (cp[c] = "suspended")
    /\ (cp[c] = "wakeup") ~> (cp[c] = "out")
=============================================================================
