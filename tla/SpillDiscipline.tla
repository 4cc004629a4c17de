-------------------------- MODULE SpillDiscipline --------------------------
(***************************************************************************)
(* What a rewritten instruction may do to the registers it borrows.        *)
(*                                                                         *)
(* The application's vector state is spread over three places: the low     *)
(* half of registers 0..15 is in the processor (hw), the low half of       *)
(* registers 16..31 and the upper half of every register are in the        *)
(* thread's spill_state_t (lo and hi, core/arch/arch_exports.h).  The low  *)
(* half of TLS slot r, for r in 0..15, is free: a sequence that needs      *)
(* scratch registers parks their values there (docs/guide.md, "Complete    *)
(* Spill/Restore Sequence").                                               *)
(*                                                                         *)
(* This is the abstract specification every generator is meant to follow:  *)
(* save before writing, write only saved registers and the destination,    *)
(* restore everything before the next application instruction.  Values     *)
(* are half registers and nothing is said about which value an operation   *)
(* computes; that is Avx512Isa.  applo and apphi are the application's     *)
(* view of the registers as of the last instruction boundary.              *)
(***************************************************************************)

CONSTANTS LowRegs,     \* registers with a low half in the processor (0..15)
          HighRegs,    \* registers that live in TLS only (16..31)
          SpillRegs,   \* the pool of scratch registers
          Value,       \* contents of half a register
          NoDest,      \* dst of a sequence that writes memory, flags or a gpr
          Idle         \* dst between two application instructions

Regs == LowRegs \cup HighRegs

ASSUME LowHighAssumption == LowRegs \cap HighRegs = {}
ASSUME PoolAssumption == SpillRegs \subseteq LowRegs
ASSUME MarkerAssumption == NoDest # Idle /\ NoDest \notin Regs /\ Idle \notin Regs

VARIABLES hw,      \* low halves held by the processor
          lo,      \* TLS slots, low half
          hi,      \* TLS slots, upper half
          applo,   \* the application's low halves at the last boundary
          apphi,   \* the application's upper halves at the last boundary
          saved,   \* scratch registers whose value is parked in TLS
          dst      \* destination of the running sequence

vars == <<hw, lo, hi, applo, apphi, saved, dst>>

\* Only entry r of function f may differ in g.
SameExcept(f, g, r) == \A q \in DOMAIN f : q # r => g[q] = f[q]

Init ==
  /\ hw \in [LowRegs -> Value]
  /\ lo \in [Regs -> Value]
  /\ hi \in [Regs -> Value]
  /\ applo = [r \in Regs |-> IF r \in LowRegs THEN hw[r] ELSE lo[r]]
  /\ apphi = hi
  /\ saved = {}
  /\ dst = Idle

\* The application's own AVX/AVX2 code writes a low register.
Native(r) ==
  /\ dst = Idle
  /\ hw' \in [LowRegs -> Value]
  /\ SameExcept(hw, hw', r)
  /\ applo' = [applo EXCEPT ![r] = hw'[r]]
  /\ UNCHANGED <<lo, hi, apphi, saved, dst>>

\* Control reaches the replacement of an instruction with destination d.
Begin(d) ==
  /\ dst = Idle
  /\ dst' = d
  /\ UNCHANGED <<hw, lo, hi, applo, apphi, saved>>

\* Variant: a register on loan is saved again.
SaveAgain(r) ==
  /\ dst # Idle
  /\ r # dst
  /\ lo' = [lo EXCEPT ![r] = hw[r]]
  /\ saved' = saved \cup {r}
  /\ UNCHANGED <<hw, hi, applo, apphi, dst>>

\* SAVE_SIMD_TO_SIZED_TLS(r, TLS slot of r)
Save(r) ==
  /\ dst # Idle
  /\ r \notin saved
  /\ r # dst
  /\ lo' = [lo EXCEPT ![r] = hw[r]]
  /\ saved' = saved \cup {r}
  /\ UNCHANGED <<hw, hi, applo, apphi, dst>>

\* A scratch register, or a low destination, receives a value.
Write(r) ==
  /\ dst # Idle
  /\ r \in LowRegs
  /\ hw' \in [LowRegs -> Value]
  /\ SameExcept(hw, hw', r)
  /\ UNCHANGED <<lo, hi, applo, apphi, saved, dst>>

\* A half of the result goes to the destination's TLS slot.
Commit ==
  /\ dst \in Regs
  /\ \/ lo' \in [Regs -> Value] /\ SameExcept(lo, lo', dst) /\ hi' = hi
     \/ hi' \in [Regs -> Value] /\ SameExcept(hi, hi', dst) /\ lo' = lo
  /\ UNCHANGED <<hw, applo, apphi, saved, dst>>

\* Variant: the register is given back without its value.
RestoreNothing(r) ==
  /\ saved' = saved \ {r}
  /\ UNCHANGED <<hw, lo, hi, applo, apphi, dst>>

\* RESTORE_SIMD_FROM_SIZED_TLS(r, TLS slot of r)
Restore(r) ==
  /\ hw' = [hw EXCEPT ![r] = lo[r]]
  /\ saved' = saved \ {r}
  /\ UNCHANGED <<lo, hi, applo, apphi, dst>>

\* Variant: the sequence ends with registers on loan.
EndUnrestored ==
  /\ dst # Idle
  /\ applo' = [r \in Regs |-> IF r # dst THEN applo[r]
                              ELSE IF r \in LowRegs THEN hw[r] ELSE lo[r]]
  /\ apphi' = [r \in Regs |-> IF r # dst THEN apphi[r] ELSE hi[r]]
  /\ dst' = Idle
  /\ UNCHANGED <<hw, lo, hi, saved>>

\* The sequence ends: what it left in the destination is the new value.
End ==
  /\ dst # Idle
  /\ saved = {}
  /\ applo' = [r \in Regs |-> IF r # dst THEN applo[r]
                              ELSE IF r \in LowRegs THEN hw[r] ELSE lo[r]]
  /\ apphi' = [r \in Regs |-> IF r # dst THEN apphi[r] ELSE hi[r]]
  /\ dst' = Idle
  /\ UNCHANGED <<hw, lo, hi, saved>>

Next ==
  \/ \E r \in LowRegs : Native(r)
  \/ \E d \in Regs \cup {NoDest} : Begin(d)
  \/ \E r \in SpillRegs : Save(r)
  \/ \E r \in saved \cup {dst} : Write(r)
  \/ Commit
  \/ \E r \in saved : Restore(r)
  \/ End

Spec == Init /\ [][Next]_vars

-----------------------------------------------------------------------------
\* Type invariant.  A register is parked only while a sequence runs, and the
\* destination itself is never one of the parked registers.
TypeOK ==
  /\ hw \in [LowRegs -> Value]
  /\ lo \in [Regs -> Value]
  /\ hi \in [Regs -> Value]
  /\ applo \in [Regs -> Value]
  /\ apphi \in [Regs -> Value]
  /\ dst \in Regs \cup {NoDest, Idle}
  /\ saved \subseteq SpillRegs \ {dst}
  /\ dst = Idle => saved = {}

\* At every point of every sequence the application's low half of each
\* register other than the destination can be found: in the register, or in
\* its own TLS slot while the register is on loan.
LowHalvesRecoverable ==
  \A r \in LowRegs : r # dst =>
    applo[r] = IF r \in saved THEN lo[r] ELSE hw[r]

\* The TLS slots that hold application state are never used as scratch space.
TlsHalvesIntact ==
  /\ \A r \in HighRegs : r # dst => lo[r] = applo[r]
  /\ \A r \in Regs : r # dst => hi[r] = apphi[r]

\* A fault, a signal or an asynchronous context switch at any instruction of
\* a rewritten sequence finds every register but the destination recoverable.
Recoverable == LowHalvesRecoverable /\ TlsHalvesIntact

\* Between application instructions the processor and TLS together hold
\* exactly the application's registers: no scratch value leaks out of a
\* sequence (guide.md: "Always restore spilled registers").
NothingLeaks ==
  dst = Idle =>
    /\ \A r \in LowRegs : hw[r] = applo[r]
    /\ \A r \in HighRegs : lo[r] = applo[r]
    /\ \A r \in Regs : hi[r] = apphi[r]
=============================================================================
