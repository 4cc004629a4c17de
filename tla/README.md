# Verification of Dr.avx

Dr.avx is DynamoRIO with a rewriter that lets programs compiled for AVX-512 run
on processors that have only AVX2.  When a basic block is built
(`core/arch/interp.c`) and one of its instructions has an EVEX prefix or works
on mask registers, `exec_rewrite_avx512_bb` (`core/arch/rewrite.c`) replaces
each such instruction by a sequence of AVX/AVX2 instructions.  The block then
lives in DynamoRIO's shared code cache, which threads enter, leave, flush and
stop each other in.  This directory holds TLA+ models of the rewriter and of the
concurrent core below it, TLC runs that check them on small instances and TLAPS
proofs for all instances.

## The system

| Part | Source | Module |
| --- | --- | --- |
| choice of scratch vector registers | `core/arch/rewrite_utils.c` | `SpillSelect` |
| protocol on registers and TLS | `core/arch/arch_exports.h`, `core/ir/instr_shared.c` | `SpillDiscipline` (abstract) |
| code generators, arithmetic and scalar | `core/arch/rewrite.c` | `RewriteGen`, `RewriteFuncs` |
| code generators, full-register moves | `core/arch/rewrite.c` | `RewriteMoves` |
| execution of the generated code | AVX2 processor, `spill_state_t` | `RewriteExec` |
| what the application expects | AVX-512 instruction set (external) | `Avx512Isa` (abstract) |
| code generators, mask instructions | `core/arch/rewrite.c` | `MaskFuncs` |
| execution of those | processor, stack, `spill_state_t` | `MaskExec` |
| what mask instructions compute | AVX-512 instruction set (external) | `MaskIsa` |
| pass over a basic block | `rewrite.c`, `core/ir/instrlist.c`, `core/heap.c` | `RewriteDriver` |
| what a mutex promises | `core/utils.c` | `Lock` (abstract) |
| mutexes, recursive and read/write locks | `core/utils.c`, `core/unix/os.c` | `Mutex`, `RecursiveLock`, `RwLock` |
| events | `core/unix/os.c` | `Event` |
| suspending and resuming a thread | `core/unix/os.c`, `core/unix/signal.c` | `Suspend` |
| stopping threads for a flush | `core/fragment.c`, `core/dynamo.c` | `FlushSynch` |
| delayed deletion of shared fragments | `core/vmareas.c`, `core/fragment.c` | `SharedDeletion` |
| threads in the dispatch loop | `core/dispatch.c` | `Flush` |
| stopping all threads | `core/synch.c` | `Synch` |

`RewriteExec` composes the selectors and generators with a machine, and is
checked against two abstract specifications: `Avx512Isa` (does the sequence
compute what the instruction computes?) and `SpillDiscipline` (does it treat
borrowed registers properly at every single step?).  `RecursiveLock` and
`RwLock` are built on the steps of `Mutex`; `Event` relies on `Lock`, which
`Mutex` is shown to implement.  `Flush` composes `FlushSynch` and
`SharedDeletion`, and is shown to move its threads as `FlushSynch` does.
`Synch` uses suspension as one step, which `Suspend` justifies.  `MaskExec` runs
the chains of `MaskFuncs` beside `MaskIsa`.

### Where the application's registers live

A 512-bit register is four 128-bit lanes.  Lanes 0..1 of registers 0..15 are in
the processor's ymm registers.  Lanes 2..3 of every register, and all lanes of
registers 16..31, are in `spill_state_t.zmm_regs`, in thread-local storage.  The
low half of TLS slots 0..15 is left over: a sequence that needs scratch
registers takes them from the pool ymm10..ymm15 and parks their contents there.
The eight masks are 64-bit words `k_regs` of the same structure.  Mask chains
borrow general-purpose registers, which they push on the application's stack or
park in the slots `TLS_REG1`..`TLS_REG3`.

### How modules correspond to the code

* `SpillSelect`: one operator per selector.  The xmm, ymm and zmm selectors are
  the same scan, so registers are represented by index.  `PickAvoiding` is the
  chain of variadic calls of the zmm generators.
* `RewriteGen`: constructors for the emitted instructions (named after the
  macros) and the parts generators share.  Most generators repeat the same eight
  cases of "which operands are registers 16..31" (`SpillFlag`); an *allocation*
  says which register stands for each operand.  `FixedAlloc`, `DynamicAlloc`,
  `SharedAlloc` are the usual ways the source allocates, `TightAlloc` and
  `MulAlloc` (in `RewriteFuncs`) those of single families.
* `RewriteFuncs`, `RewriteMoves`: one definition per C function, with its name.
  Functions that the source repeats with another mnemonic share a template.  A
  generator without code for its operands yields `NULL_INSTR`.  The immediate of
  a shift is passed on as it is and not represented; a rotate by `imm` (0..63)
  becomes shifts by `imm` and `64-imm`, which are operations of their own.
* `RewriteExec`: `hw` is the processor, `tls` is `zmm_regs`, `ext` the other
  operands, `code` the rest of the running sequence.  One action per kind of
  emitted instruction.  A restore is a VEX `vmovdqu`: with 16 bytes it clears
  the lane above.  `arch` and `saved` are history variables.
* `RewriteDriver`: the intrusive doubly linked list, node by node, and a free
  list that is last-in first-out as in `common_heap_alloc`/`common_heap_free`,
  because generators destroy the original before they create its replacement.
  The loop's locals are variables; the call of the rewrite function and the
  insertion are separate steps.  Functions fall into five kinds by the order in
  which they destroy and create (`early`, `late`, `kept`, `null`, `empty`).
* `MaskFuncs`: one definition per function from `rw_func_kmovw` to
  `rw_func_ktestd`, which yields the chain it builds, with the widths of the
  registers and of the memory operands; `KeptWith` where the function does not
  remove the original.
* `MaskExec`: `v` is what masks, general-purpose registers, flags (CF and ZF) and
  TLS slots hold, `below` the stack under the application's stack pointer.  One
  action per kind of instruction in a chain.  A 64-bit value is the set of its
  one bits, so the widths are the real ones.  `isa` is what AVX-512 would hold.
  `avx512` says whether the processor has AVX-512 itself; if not, an original that
  a function left in the block faults.
  `trusted` and `live` say where the chains are known to differ from it: above
  the width with which a mask was last written, and in the flags after a chain
  that overwrites them.
* `Mutex`: `lock_requests` is the word of `mutex_t` and the futex; a step is one
  access to it or one system call.  `Interrupted` is a wait that returns early.
* `RwLock`: `num_readers` and the mutex are separate words, and a read lock is
  test, increment, test again, undo, as in the code.
* `Event`: `Take` is the second look at `signaled`, under the event's lock.
* `Suspend`: controllers call `os_thread_suspend`, `os_thread_resume` and
  `os_thread_terminate`; the target takes the signal and parks in its handler.
  The words of `os_thread_data_t` are variables, `suspend_lock` is `holder`.
* `FlushSynch`: the flags and events of `per_thread_t`; `initexit` is the holder
  of `thread_initexit_lock`, `todo` the threads the flusher's loops still have
  to visit.  Sections under a thread's `linking_lock` are single steps.
* `SharedDeletion`: the pending and lazy lists with their counts and times.  It
  has operations, no next-state relation: `Flush` says when a thread performs
  one.  Sections under `shared_cache_flush_lock` are single steps.
* `Flush`: `at` is the fragment a thread runs or has looked up, `after` where it
  goes on after a flush.  Whether `build` is a debug build matters in one place,
  `FinishExit`.
* `Synch`: `place` is where a thread is; the other variables are the fields and
  locals of `synch.c`.  A thread whose `suspend_count` is not zero takes no step.
  A client changes `suspendable` at any time.  `stale` and `stranded` are history
  variables: the clients whose `left_unsuspended` an aborted synch has left set,
  and the threads whose notification nobody takes back.  `AtLimit` says that the
  loop may end, not that it must: `max_loops` is `MaxLoops` or any larger number.
  `exiting_thread_count` and `uninit_thread_count` are the sets `Exiting` and
  `Uninit`.  Client threads are always in the client library.
* Definitions whose comment begins with "Variant:" are deliberately wrong forms
  of the next definition.  They are used to confirm that a property notices
  such a mistake (`mutants` in `PROJECT.json`), and by nothing else.

Lane contents are uninterpreted terms: an operation builds the term of its name
and arguments, so two lanes are equal only if they were computed the same way.
That is exact for lane-wise operations on whole 128-bit lanes, and is the reason
that cross-lane instructions are not covered.

## Properties

* `ImplementsIsa` (refinement): after each sequence the application's registers,
  memory and flags are what the AVX-512 instruction leaves, on the lanes `obs`
  of the program.
* `FollowsDiscipline` (refinement): every step is a step of `SpillDiscipline`,
  so its theorems apply to the generated code.
* `Encodable`: emitted instructions name only registers 0..15, no mask and not
  `DR_REG_NULL`, and are at most 256 bits wide.
* `Recoverable`: at every instruction of a sequence each register other than the
  destination is either in place or in its own TLS slot.
* `NothingLeaks`: between instructions processor and TLS hold exactly the
  application's registers.
* `HeapPartition` (`NothingLost` where `rw_func_empty` is not involved),
  `LinksConsistent`, `InProgramOrder`: between iterations every node is listed or
  free, once; links and ends agree; the list is the block, rewritten up to the
  cursor.
* `Finishes`: the pass over a block ends, unless a function returns `NULL_INSTR`.
* `MaskAgrees`: between instructions, general-purpose registers, flags while
  `live` and masks up to their `trusted` width are what AVX-512 leaves, the stack
  pointer is back, and no chain faults or cannot be built.  `NoScratchLeak`: above
  the width a mask is zero or as before, never what the scratch register held.
  `MaskRecoverable`: at each instruction of a chain every register that the
  application's instruction does not write exists somewhere.
* `NeverCrashes`: no `NULL_INSTR` reaches `instrlist_postinsert`.

Of the core:

* `MutualExclusion`, `FreeIffUnowned`, `NoLostWakeup`: one holder; the word says
  whether there is one; a sleeper will be woken.  `ImplementsLock` and
  `ImplementsFairLock` (refinement): the mutex is a `Lock`, and when it is free
  one of those who want it gets it.
* `RecursiveOwnership`, `WriterAlone`, `ReadersCounted`, `WriterGetsIn`.
* `OneWaiterPerSignal`, `SignalNotMissed`, `EventDelivered`: one signal of an
  auto-reset event releases one waiter, and none that should go on sleeps.
* `SuspendedMeansParked`, `NoReentry`, `SuspendReturns`: after
  `os_thread_suspend` returned the target is parked in its handler until the
  matching resume, whatever other controllers do.
* `Quiescent`: from the moment a flusher is done with a thread until it lets the
  thread go, the thread does not work on fragments.  `FlushCompletes`,
  `StoppedIsWoken`.
* `NoUseAfterFree`: no thread runs, is about to run or remembers a fragment that
  was freed.  `RefCountCovers`: an entry waits for all threads that have not
  signed it off, in a debug build for exactly these.  `ListsSorted`,
  `MoveClaimed`: what the walks that stop early, and the thread that moves the
  lazy list, rely on.  `FollowsFlushSynch` (refinement).
* `SynchedMeansStopped`: after a successful `synch_with_all_threads` every other
  listed thread is suspended at a safe spot, except client threads deliberately
  left alone and threads whose suspension failed for an initiator that ignores
  failures.  `NobodyLeftSuspended`, `NobodyLeftNotified`: afterwards nothing
  remains of it, but for `stale` clients and `stranded` threads.
  `EverybodyResumed` is the first without its exception, and does not hold.
  `SynchEnds`.

## Runs that pass

| Run | Shows |
| --- | --- |
| `discipline` | the abstract protocol, two pool registers and a high one |
| `rewrites` | one 512-bit instruction on 7 registers in every combination (three high operands use up all six pool registers), one 256- or 128-bit instruction with and without pool operands, comparison or conversion, shifts and rotates by an immediate, and two 256-bit or native instructions in a row; two 512-bit moves in a row, registers and memory; 256- and 512-bit moves among native code |
| `masks` | any mask instruction on three masks, with five sets of contents and every shift count at a border of a width, followed by one that reads a result |
| `driver` | every block of up to four instructions with a rewriting (three, where one leaves the original), and blocks whose last AVX-512 instruction has none |
| `primitives` | mutex, recursive lock, read/write lock and event with three threads, suspension with three controllers; waits may be interrupted |
| `flush_synch` | three threads that start, exit and flush, any of them the flusher |
| `flush` | two threads, two fragments that are flushed or lazily deleted and one that stays, two flushes, debug and release build |
| `synch` | two application threads that both stop the others, one of them giving up on failure, the other one starting later, and a client thread that takes locks and changes at any time whether it may be suspended |

Bounds.  A sequence depends on its operands only through equality, through
being in the pool, and through being above 15; two or three registers of each
kind distinguish these.  Not every case of every generator is in the run.  Left
out, because the code fails there, are ymm10 and ymm11 beside a high operand in
`vpsubw`, `vpsubd`, `vpsubq`, `vpaddw`, `vporq`, `vpsubb` (256 bits) and in the
128-bit binary operations: these functions name their scratch registers or avoid
only some of the operands (`FixedPool` below).  Other pool registers beside high
operands, and pool registers among low ones, are in (`WithPool` of `MCRewrite`).
The other omissions are listed at the end of this section.  A program has two
instructions
where what one sequence leaves behind can matter to the next (stale slots,
values that travel), else one: `FollowsDiscipline` already forbids a sequence to
leave anything behind.
The lanes compared (`obs`) are those of the program's instructions, since
narrower instructions do not clear the upper lanes (see `upper_lanes` below).
For blocks, `ChainLen` 2 distinguishes the first and last node of a chain, and
four instructions give every neighbourhood of an instruction.

For masks, three registers give every equality between two sources and a
destination; the contents are full, empty, the bits at the borders of the widths
and their complement, which distinguish every truncation and extension.  A second
instruction (`Readers`) reads the result at each width.  `Careful` restricts
the program to instructions that are `Disciplined`: no mask is read wider than it
was written, and the operands are not those of the disagreements below.
Excluded in this way are `kxor*`, `kadd*` and `ktest*`, `kortestq/d`, `kunpckdq`,
`kmovd` between masks, `kmovb` of a mask to itself, `kmovw` to another register
than rax, moves from the scratch register, `kxnord` of equal sources into a third
mask and shift counts above 127.  `masks` runs on processors with and
without AVX-512 (`Processors`).  With it, an original that a function leaves in
the block works on mask registers that nothing else uses; without it, which is
what the rewriter is for, such instructions (`KeepsOriginal`: `kand*`, `kandn*`,
most of `kshift*` and others) are not `Disciplined`, and `kept_original` below
shows that they fault.

For the core: three threads are a holder, a sleeper and one that comes in between,
or a flusher, its target and a thread that joins; a fourth adds no new role.  One
spin (`SpinlockCount`) and a recursion of two (`MaxDepth`) suffice to leave and to
repeat the loops.  `flush` has two threads, since reference counts distinguish only
those that have signed off from those that have not; two flushes
(`MaxFlushes`) so that entries of different times are on the list together, and
`LazyDeletionMaxPending` 1 so that the lazy list is short, full and moved.  In
`synch`, `MaxLoops` 1 lets the loop limit be reached in a pass after the first,
and `MaxPending` stops synchs when a count that nobody takes back has reached it.
Three threads are the two initiators and the client.  With a fourth, an
application thread that starts later (`Threads` with one more, `Started = {a, b}`), the
invariants hold too (2.5 million states); `SynchEnds` was not checked there.
The number of synchs, starts of a call, reads and releases is not bounded
otherwise.

Between them the passing runs execute every generator of `RewriteFuncs` and
`RewriteMoves`, except on the shapes of the next section and on these:

* the conversions `vcvttsd2si`, `vcvtss2si`, `vcvtsd2si`, which overwrite xmm10
  without a save when the source is high;
* `vporq` of a high xmm register with itself into another high register, and
  narrow `vpxorq`, `vmovdqu16`, `vmovdqu32` (xmm load), rip-relative
  `vmovdqu64`, ymm `vpxord`, ymm `vpsrldq`, ymm `vpsllq` by an immediate, shifts
  by a register and narrow rotates on high registers: they emit the high register
  as it is;
* rotates into one of their scratch registers, `vpsrldq` of memory, and xmm
  `vpmulld` and `vpandd` with only the first source high (see the last table of
  the next section);
* wide shifts by a register, whose count comes from another lane, and 512-bit
  `vmovdqu16`/`vmovdqu8` stores and rip-relative `vmovdqu64` stores, which have
  the code of `stale_store`.

A program stops at an instruction whose generator yields `NULL_INSTR`.

Fairness.  `RewriteDriver` is a sequential loop of the thread that builds the
block, and `RewriteExec` a processor executing straight-line code; weak fairness
of the next-state relation says that it keeps running.  In `primitives` a thread
in the middle of a call is scheduled again (weak fairness of `Step`, `RwStep`,
`EvStep`, `ControllerStep`, `TargetStep`), which the kernel does; nothing makes
a thread start a call or release what it holds, except that readers finish
reading.  In `flush_synch` a thread in the core runs on, and one in the cache or a
system call may stay there for ever.  `Synch` needs strong fairness of each
thread's steps in the core: a thread that is suspended and resumed again and
again is enabled only between the probes, and the initiator yields or sleeps
between its passes (`synch_thread_yield`) so that it gets to run.
`SynchEnds` also assumes that a client thread does not take its lock for ever
(`ClientsRest`): the code asks such a client to declare itself unsuspendable.

Deadlock is not checked where threads may all have exited or stay in the cache
(`flush_synch`, `flush`, `synch`).

## Disagreements between code and documentation

Each run below checks one property that a line of the repository states, and TLC
finds a behaviour of the code that contradicts it (`findings` in
`PROJECT.json` quotes the lines).

| Run | What happens |
| --- | --- |
| `ymm_in_place` | `vpaddd ymm10, ymm10, ymm16` uses ymm10 as scratch, the result is lost |
| `exit_leak` | release build: a flush counts a thread that has looked at its queue for the last time, and the entry is never freed |
| `kept_original` | `rw_func_kandw` does not remove the `kandw`, which is executed after its replacement and faults on a processor without AVX-512 |
| `synch_left_unsuspended` | a synch is given up after it left a client alone; the client becomes suspendable; the next synch suspends it and does not resume it, `left_unsuspended` being still set |

More configurations show behaviour of the same kind.  They are not among the
runs of `PROJECT.json`; run them with `tlc -config <name>.cfg <module>`.

| Configuration | Module | What happens |
| --- | --- | --- |
| `empty_pending` | `MCFlush` | with `-lazy_deletion_max_pending 0` the thread that is to move the lazy list frees it on the way and adds an entry without fragments, against the assertion at `vmareas.c:9815` |
| `driver_freed_nop` | `MCDriver` | `rw_func_empty` returns a node it has destroyed, and the driver links it, against the comment at `core/ir/instr_shared.c:114` |
| `kand_upper_bits` | `MCMask` | `kandw` leaves bits 16..63 of the mask, against the comment at `rewrite.c:44299` |
| `driver_null` | `MCDriver` | a generator's `NULL_INSTR` is dereferenced by the insertion |
| `xmm_missing_restore` | `MCRewrite` | a scratch register is not restored in cases 3 and 6 of four xmm generators |
| `xmm_half_spill` | `MCRewrite` | 16-byte save and restore clear bits 128..255 of a borrowed register |
| `stale_store` | `MCRewrite` | 512-bit stores reload the source from the scratch half of its slot |
| `upper_lanes` | `MCRewrite` | 256-bit instructions do not clear bits 256..511 of the destination |
| `mask_as_source` | `MCRewrite` | one-source xmm functions take the mask for the source |

Changing a line of a configuration shows more (in `kept_original`, together with
`Processors = {TRUE}`):

| Configuration | Change | What happens |
| --- | --- | --- |
| `kept_original` | `First <- FromRax` | `kmovw k1, eax` clears rax, its scratch register, before it stores ax, and the mask is zero, against the comment at `rewrite.c:43952` |
| `kept_original` | `First <- EqualXnord` | `kxnord` of equal sources writes its source, against the comment at `rewrite.c:45674` |
| `kept_original` | `First <- TestFirst` | `ktestw` pops the flags it has computed away |
| `kept_original` | `First <- BigCount` | a shift count above 127 is taken for negative and the mask is not cleared |
| `kand_upper_bits` | `INVARIANT StackTransparent` | chains write below the application's stack pointer, against "The application stack must look exactly like it does natively." (`api/docs/transp.dox:208`) |
| `synch_left_unsuspended` | `INVARIANT NobodyNotified` | a client that is notified and then becomes unsuspendable in the same synch is marked synched without its count being taken back |

So does `rewrites` with other programs:

| Configuration | Change | What happens |
| --- | --- | --- |
| `ymm_in_place` | `Programs <- FixedPool` | `vpsubw ymm0, ymm10, ymm16` and its like take ymm10 or ymm11, which they need as operand, for the scratch register |
| `rewrites` | `Programs <- RotateIntoPool` | `vprolq zmm10` loses the low half of its result: zmm registers are given to the ymm selector, which does not recognise them, and zmm10's low half is scratch |
| `rewrites` | `Programs <- XmmReload` | xmm `vpmulld` and `vpandd` compute the slot of the scratch register as that of a ymm register, and reload it from outside `zmm_regs` (`Encodable`) |
| `rewrites` | `Programs <- MemShift` | `vpsrldq` is emitted with a memory source, which AVX2 does not have (`Encodable`) |

A remark on `synch.c`.  At the loop limit the loop ends with threads still exiting,
and the assertion on `exiting_thread_count` behind it need not hold; an initiator
that does not abort on failure then leaves its loop with threads that are notified
and not synched, and `end_synch_with_all_threads` does not take the counts back.

## Proofs

`Spill_proof`, for any registers, pool and values.  Assumptions: low and high
registers are disjoint, the pool is low, the two markers are not registers.
`Recoverable` alone is not inductive: `Commit` writes the TLS slot of the
destination, and unless the destination is known not to be on loan that slot
could hold a parked value.  The inductive invariant is `TypeOK /\ Recoverable`,
where `TypeOK` includes `saved \subseteq SpillRegs \ {dst}`.  `InitEstablishes`
and `StepPreserves` (one case per action) give `TypeCorrect`,
`AlwaysRecoverable` and `NothingEverLeaks`.

The selectors, in the same module, for any pool of consecutive indices.
`FirstFitNull`: a selector fails exactly when the whole pool is to be avoided.
`ThreeConflictsNeverFail` and `TwoSpillsDistinct` establish two claims made in
comments of `rewrite_utils.c`; a pool of four is already enough.

`Primitives_proof`, for any set of threads and number of spins.  Mutex: the inductive
invariant is the conjunction of the four properties: `MutualExclusion` needs
`FreeIffUnowned`, because an acquirer looks at the word only.
`MutexImplementsLock` maps a thread to idle, trying or holding by its position,
and treats the release as done when the word is free, before the wake-up.
Read/write lock, for a finite set of threads, on top of the mutex's invariant:
`HoldsMutex` (a writer holds the mutex from the drain loop to the unlock) and
`NoReaders` (once a writer has seen zero readers nobody else is reading).  The
latter needs `ReadersCounted`, with readers that are about to undo counted.
Recursive lock: `OwnerHolds` says where in its calls a thread holds the mutex,
so that the owner field, which everybody reads without it, has one writer at a
time.  Event: `EvHolds` says where a thread holds the event's lock; between a
signaller's store and its wake nobody can consume the event, which is what
`OneWaiterPerSignal` and `SignalNotMissed` rest on.

Suspension, for any finite set of controllers.  `suspend_count` counts the
controllers that have suspended and not resumed, and `TargetState` says for each
position of the target what the words are and who relies on them.

`Flush_proof`, first `FlushSynch`, for any set of threads.  `Quiescent` depends on
which event may be pending: `Asked` (a thread is asked to stop only while the flusher waits for
it, and answers once) and `SignalIsRelease` (`finished_with_unlink` is set only
for a thread that has been let go) exclude a signal left over from an earlier
flush.

Then `Flush`, for any finite sets of threads and fragments, any number of
flushes and either build.  Every step of `Flush` is a step of `FlushSynch` or
leaves its variables alone, hence `FlushIsQuiescent`.  `NoUseAfterFree` is far
from inductive; `FlushInv` adds

* the other side of the bargain, `UsersOwe`: a thread that executes, is about to
  execute or remembers a fragment on the pending or lazy list has not signed that
  entry off, its own time being older; with `Unreachable`, no such fragment is
  found by a lookup;
* `RefCountCovers` and `TimesBounded`: the last reference to an entry is
  therefore the user's own, and its sign-off is where it forgets the fragment;
* `ListsSorted`: `vm_area_check_shared_pending` stops at the first entry it
  has signed off and `check_lazy_deletion_list` at the first later one, which is
  sound only in order of time.  `CheckEffect` derives from it what a walk frees;
* `Hands` and `CallHands`, which say where a thread may have a fragment in its
  hands (not at a flush point, at a system call or before it is listed), from
  `FlushSynch`'s invariant: a thread that joins or wakes up late brings none;
* `Mover`, one thread at a time on its way to move the lazy list.

`SdInv` is the part of it about the lists.  `UnlinkKeeps`, `CheckKeeps` and their
like show each operation on the lists to keep it; the steps of the threads then
cite them.

`RewriteDriver_proof`, for every set of blocks, chain length and heap that can
hold the rewritten block.  The list is intrusive: the properties are about what
a walk along `next` meets, and the proof goes through the sequence of nodes it
is a picture of.  `DriverInv`: between iterations there are sequences `a` and `b` of nodes
such that the heap links `a \o b` in both directions, the list's ends are its
ends, every node is in `a \o b` or on the free list once, `a` carries the
replacements of the first `i` instructions and `b`, which starts at the cursor,
the others.  Between a rewrite function and the insertion a third part, its
chain, is linked but apart.  `RemoveLinks`, `InsertLinks` and `ChainedLinks` say
what the list operations do to such a picture, `SwapOnce`, `TakeOnce` and
`PutOnce` what they do to the partition of the heap (the chain of an "early"
function begins with the node of its original), and `ListedIs`, `BottomIs` and
`RewrittenIs` that the walks of the model return it.  `DriverNothingLost`,
`DriverLinks` and `DriverInOrder` follow.  The last two are stated for blocks
without an instruction of `rw_func_empty`, as `NothingLost` is: its nop stays on
the free list while it is listed, the next function takes the node again, and both
properties fail; `driver.cfg` has such an instruction only as the last one
rewritten.

`Synch_proof`, for any set of threads, clients and initiators.  `Holders`,
`Target` and `Done` describe the initiator's progress, `Halted` what a thread
marked synched does, `Counts` what a pending count is made of, `Remembered` that
whoever is suspended is in the initiator's array, or is `stale`.  Nothing is assumed
about when a client changes `suspendable`, or about the loop limit: what these
bring about is in `stale` and `stranded`, and `SynchResumes` and `SynchTakesBack`
show that no other thread is affected.

The mask rewritings, in three modules, for any set of masks, of general-purpose
registers that includes the scratch registers, any contents, and programs of any
length over any of the instructions `Supported` admits.  Assumption: `Careful`,
that is the programs are `Disciplined`; without it `kept_original.cfg` fails.  The
processor has AVX-512 or not: if not, `Disciplined` excludes the instructions whose
original stays in the block (`NoOriginals`, part of the invariant).

* `MaskFrame_proof`.  The properties speak of the ends of chains, or of where a
  register is in the middle of one; what makes them inductive is a proof outline.
  `MaskInv`: between instructions (`Resting`) `v` agrees with `isa`; in a chain
  (`Running`) there are, for each position, a stack `S`, a list of used slots `T`
  and a set `A` of contents, such that the present state is one of those at `pc`,
  every instruction leads from its position to the next, and the last contents are the result
  of the application's instruction (`Expected` relates that to `isa`).  `MaskNext` shows,
  one step per action, that the invariant is kept if every chain has an outline
  (`Reliable`).  The rest of the module is a small logic of chains: what each kind
  of instruction does (`MovImmAny`, `AluAny`, `ShiftAny`, ...), sequences (`AnyJoin`) and
  the brackets of push and pop or save and restore (`Push1` to `Save3`).
* `MaskChains_proof`: each chain, for every width, from the loads to the store:
  logical instructions, shifts (`SlidFacts`: the shift of a wider register, cut, is
  that of the mask), `kxnor`, `kunpck`, `kmov`.
* `Mask_proof`: `kortest`, whose chain jumps and so needs a set of contents at
  each label (`ClassifyDoes`); then every entry of `rewrite_funcs` (`ChainSound`,
  `ChainBuildable`), hence `Reliable`, `MaskInvariant` and the theorems `MasksAgree`,
  `MasksLeakNothing` and `MasksRecoverable`.

Only model-checked: `Finishes` and the other liveness properties, the fair lock
among them (fairness is out of reach of the prover); the vector generators.
`ImplementsIsa`, `FollowsDiscipline` and `Encodable` are about the code that the
vector generators emit, which depends on the registers their selectors find; the
runs enumerate instructions and allocations.  A proof for every operand would be
one for each generator, with an outline that has the selectors' answers as
parameters.

## Not modelled

Rewriter: masked vector instructions, memory operands of `kmov`, flags other than
CF and ZF, the selector of general-purpose scratch registers, cross-lane
instructions, memory operands of arithmetic and of the conversions (branches of
functions that are modelled otherwise), the test of `k_regs[0]` that `vpxorq` makes
when the block is built, rip-relative operands outside the 64-bit moves, `vprord` (its function is not in the table), immediates of rotates
above 63, `vpandq` and `vpmullq` (through general-purpose registers);
`need_spill_simd`, which no code sets; context switches and thread start with
the emulated state; decoding and encoding.

Core: Windows and Mac paths.  Mutexes without futex support, lock ranks,
`set_synch_state` around a contended application lock; nested readers,
`spin_yield_rwlock`; waits with a timeout.  In the handler of the suspend signal, taking over a native
thread (`signal.c:8512-8517`), `retakeover` and detach (`signal.c:8598-8606`).  Private caches, coarse units,
traces, `remove_from_lazy_deletion_list`, the limit of the flush time and the
reset of the caches; flushes that suspend all threads; rseq.  Cleaning and
terminating threads in a synch, client initiators,
`THREAD_SYNCH_SUSPEND_FAILURE_RETRY` (used only by `os_fork_pre`, which releases the
locks while the threads stay suspended), `set_synched_thread_context`, direct calls of
`synch_with_thread`, a failing `thread_get_mcontext`, nudges; delivery of
application signals; virtual memory management.

Extensions, clients and tools are other programs.  They, the tables of the
decoder and the remaining generators make up most of the repository's lines.

## Plan

1. Masked moves on one machine with the masks of `MaskExec` and the vectors of
   `RewriteExec`, the selector of scratch general-purpose registers; `Avx512Isa`
   with merging and zeroing.
2. Remaining generators: one-source forms, memory operands, compares into
   masks; cross-lane instructions on a finer machine.
3. Context switch: which of `hw` and `tls` survive entering and leaving
   DynamoRIO; composition with `RewriteExec`; a fault inside a sequence.
4. Proofs: a sequence of the `Bracketed` shape follows the discipline, for every
   allocation that avoids the operands; the zmm generators never run out of pool
   registers.
5. Core: termination of threads by a synch; `remove_from_lazy_deletion_list`; a
   reset of the caches, which composes `Synch` with `Flush`.
