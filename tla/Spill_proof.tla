----------------------------- MODULE Spill_proof -----------------------------
(***************************************************************************)
(* Scratch registers: what their selectors guarantee, for every pool, and  *)
(* that a sequence which follows the spill discipline preserves the        *)
(* application's registers, for any number of registers, any pool and any  *)
(* set of values.                                                          *)
(***************************************************************************)
EXTENDS SpillSelect, SpillDiscipline, WellFoundedInduction, TLAPS

\* A nonempty set of naturals has a least element.
LEMMA LeastNatural ==
  ASSUME NEW T, T \subseteq Nat, T # {}
  PROVE  \E x \in T : \A y \in T : x <= y
<1> DEFINE Less == OpToRel(<, Nat)
<1>1. IsWellFoundedOn(Less, Nat)
  BY NatLessThanWellFounded
<1> HIDE DEF Less
<1>2. PICK x \in T : \A y \in T : ~ (<<y, x>> \in Less)
  BY <1>1, WFMin, Zenon
<1>3. \A y \in T : ~ (y < x)
  BY <1>2 DEF Less, OpToRel
<1> QED
  BY <1>3

\* The scan returns the lowest pool register outside the avoided set, as long
\* as there is one.
LEMMA FirstFitFree ==
  ASSUME NEW avoid, ~ (Slots \subseteq avoid)
  PROVE  /\ FirstFit(avoid) \in Slots \ avoid
         /\ \A q \in Slots \ avoid : FirstFit(avoid) <= q
<1>1. /\ Slots \ avoid \subseteq Nat
      /\ Slots \ avoid # {}
  BY SlotAssumption DEF Slots
<1>2. \E r \in Slots \ avoid : \A q \in Slots \ avoid : r <= q
  BY <1>1, LeastNatural, Zenon
<1> QED
  BY <1>2 DEF FirstFit

\* The scan fails exactly when the whole pool is to be avoided.
THEOREM FirstFitNull ==
  ASSUME NEW avoid
  PROVE  FirstFit(avoid) = DR_REG_NULL <=> Slots \subseteq avoid
<1>1. CASE Slots \subseteq avoid
  BY <1>1 DEF FirstFit
<1>2. CASE ~ (Slots \subseteq avoid)
  <2>1. FirstFit(avoid) \in Slots
    BY <1>2, FirstFitFree
  <2> QED
    BY <1>2, <2>1, NullAssumption DEF Slots
<1> QED
  BY <1>1, <1>2

\* rewrite_utils.c:144 and :204 claim of find_available_spill_{xmm,ymm}_avoiding
\* that failing is "impossible with 6 slots and max 3 conflicts": four pool
\* registers are already enough, and the answer is none of the three.
THEOREM ThreeConflictsNeverFail ==
  ASSUME SlotLast - SlotFirst >= 3,
         NEW reg1, NEW reg2, NEW reg3
  PROVE  find_available_spill_avoiding(reg1, reg2, reg3)
           \in Slots \ {reg1, reg2, reg3}
<1>1. /\ SlotFirst \in Slots
      /\ SlotFirst + 1 \in Slots
      /\ SlotFirst + 2 \in Slots
      /\ SlotFirst + 3 \in Slots
  BY SlotAssumption DEF Slots
<1>2. ~ (Slots \subseteq {reg1, reg2, reg3})
  BY <1>1, SlotAssumption
<1> QED
  BY <1>2, FirstFitFree DEF find_available_spill_avoiding

\* rewrite_utils.c:316 claims find_two_available_spill_* cannot fail "since we
\* have 6 spill slots and at most 2 are occupied": with four pool registers it
\* returns two different ones, in increasing order, and neither is avoided.
THEOREM TwoSpillsDistinct ==
  ASSUME SlotLast - SlotFirst >= 3,
         NEW reg1, NEW reg2
  PROVE  LET pair == find_two_available_spills(reg1, reg2)
         IN  /\ pair[1] \in Slots \ {reg1, reg2}
             /\ pair[2] \in Slots \ {reg1, reg2}
             /\ pair[1] < pair[2]
<1> DEFINE first  == FirstFit({reg1, reg2})
           second == FirstFit({reg1, reg2, first})
<1>1. /\ SlotFirst \in Slots
      /\ SlotFirst + 1 \in Slots
      /\ SlotFirst + 2 \in Slots
      /\ SlotFirst + 3 \in Slots
  BY SlotAssumption DEF Slots
<1>2. ~ (Slots \subseteq {reg1, reg2})
  BY <1>1, SlotAssumption
<1>3. /\ first \in Slots \ {reg1, reg2}
      /\ \A q \in Slots \ {reg1, reg2} : first <= q
  BY <1>2, FirstFitFree
<1>4. ~ (Slots \subseteq {reg1, reg2, first})
  <2> HIDE DEF first
  <2> QED BY <1>1, SlotAssumption
<1>5. second \in Slots \ {reg1, reg2, first}
  <2> HIDE DEF first
  <2> QED BY <1>4, FirstFitFree
<1>6. DR_REG_NULL \notin {first, second}
  <2> HIDE DEF first, second
  <2> QED BY <1>3, <1>5, NullAssumption DEF Slots
<1>7. find_two_available_spills(reg1, reg2) = <<first, second>>
  BY <1>6 DEF find_two_available_spills
<1>8. first < second
  <2> HIDE DEF first, second
  <2> QED BY <1>3, <1>5, SlotAssumption DEF Slots
<1> HIDE DEF first, second
<1> QED
  BY <1>3, <1>5, <1>7, <1>8

-----------------------------------------------------------------------------
\* The inductive invariant: Recoverable needs the typing of saved (only low
\* registers other than the destination are parked) to survive Commit, which
\* writes the destination's slot, and Begin, which changes what r # dst says.
IInv == TypeOK /\ Recoverable

\* Initially nothing is on loan and the application's view is the machine's.
LEMMA InitEstablishes == Init => IInv
  BY LowHighAssumption, MarkerAssumption
  DEF Init, IInv, TypeOK, Recoverable, LowHalvesRecoverable, TlsHalvesIntact, Regs

\* Every step of a sequence, and every native instruction, keeps the
\* application's registers recoverable.
LEMMA StepPreserves == IInv /\ [Next]_vars => IInv'
<1> SUFFICES ASSUME IInv, [Next]_vars PROVE IInv'
  OBVIOUS
<1> USE LowHighAssumption, PoolAssumption, MarkerAssumption
    DEF IInv, TypeOK, Recoverable, LowHalvesRecoverable, TlsHalvesIntact, Regs
<1>1. CASE \E r \in LowRegs : Native(r)
  BY <1>1 DEF Native, SameExcept
<1>2. CASE \E d \in Regs \cup {NoDest} : Begin(d)
  BY <1>2 DEF Begin
<1>3. CASE \E r \in SpillRegs : Save(r)
  BY <1>3 DEF Save
<1>4. CASE \E r \in saved \cup {dst} : Write(r)
  BY <1>4 DEF Write, SameExcept
<1>5. CASE Commit
  BY <1>5 DEF Commit, SameExcept
<1>6. CASE \E r \in saved : Restore(r)
  BY <1>6 DEF Restore
<1>7. CASE End
  BY <1>7 DEF End
<1>8. CASE UNCHANGED vars
  BY <1>8 DEF vars
<1> QED
  BY <1>1, <1>2, <1>3, <1>4, <1>5, <1>6, <1>7, <1>8 DEF Next

\* Type correctness of the discipline.
THEOREM TypeCorrect == Spec => []TypeOK
<1>1. IInv => TypeOK
  BY DEF IInv
<1> QED
  BY InitEstablishes, StepPreserves, <1>1, PTL DEF Spec

\* At every instruction of a sequence that follows the discipline every
\* register except the destination is recoverable.
THEOREM AlwaysRecoverable == Spec => []Recoverable
<1>1. IInv => Recoverable
  BY DEF IInv
<1> QED
  BY InitEstablishes, StepPreserves, <1>1, PTL DEF Spec

\* Between application instructions no scratch value is left anywhere.
THEOREM NothingEverLeaks == Spec => []NothingLeaks
<1>1. IInv => NothingLeaks
  BY MarkerAssumption, LowHighAssumption
  DEF IInv, TypeOK, Recoverable, LowHalvesRecoverable, TlsHalvesIntact,
      NothingLeaks, Regs
<1> QED
  BY InitEstablishes, StepPreserves, <1>1, PTL DEF Spec
=============================================================================
