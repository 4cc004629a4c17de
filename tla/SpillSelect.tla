---------------------------- MODULE SpillSelect ----------------------------
(***************************************************************************)
(* The choice of scratch vector registers (core/arch/rewrite_utils.c).     *)
(*                                                                         *)
(* A rewritten instruction borrows registers from a small pool of low      *)
(* registers, xmm10..xmm15 / ymm10..ymm15 (rewrite_utils.h, *_SPILL_SLOT0  *)
(* to *_SPILL_SLOTMAX).  Every selector scans the pool upwards and returns *)
(* the first register that is not one of the registers to avoid; when the  *)
(* pool has none it logs an error and returns DR_REG_NULL.  The xmm, ymm   *)
(* and zmm selectors are the same scan over the same indices, so registers *)
(* are represented by their index.                                         *)
(***************************************************************************)
EXTENDS Integers, Sequences

CONSTANTS SlotFirst,    \* index of *_SPILL_SLOT0
          SlotLast,     \* index of *_SPILL_SLOTMAX
          DR_REG_NULL   \* the "no register" answer

ASSUME SlotAssumption == /\ SlotFirst \in Nat
                         /\ SlotLast \in Nat
                         /\ SlotFirst <= SlotLast

ASSUME NullAssumption == DR_REG_NULL \in Int \ (SlotFirst .. SlotLast)

Slots == SlotFirst .. SlotLast

\* Variant: the scan stops before the last pool register.
FirstFitShort(avoid) ==
  LET pool == Slots \ {SlotLast} IN
  IF pool \subseteq avoid
  THEN DR_REG_NULL
  ELSE CHOOSE r \in pool \ avoid : \A q \in pool \ avoid : r <= q

\* The scan shared by all selectors.  DR_REG_NULL among the registers to
\* avoid has no effect, because it is not a pool register.
FirstFit(avoid) ==
  IF Slots \subseteq avoid
  THEN DR_REG_NULL
  ELSE CHOOSE r \in Slots \ avoid : \A q \in Slots \ avoid : r <= q

find_one_available_spill(reg) == FirstFit({reg})

find_available_spill_avoiding(reg1, reg2, reg3) == FirstFit({reg1, reg2, reg3})

find_available_spill_avoiding_variadic(regs) == FirstFit(regs)

\* Two pool registers, the second above the first.  When only the first is
\* found the scan goes on and fails, so both components are DR_REG_NULL.
find_two_available_spills(reg1, reg2) ==
  LET first  == FirstFit({reg1, reg2})
      second == FirstFit({reg1, reg2, first})
  IN  IF DR_REG_NULL \in {first, second}
      THEN <<DR_REG_NULL, DR_REG_NULL>>
      ELSE <<first, second>>

\* Variant: the argument list does not grow.
PickOperandsOnly(avoid, n) ==
  [k \in 1 .. n |-> find_available_spill_avoiding_variadic(avoid)]

\* n registers picked one after the other, each avoiding all earlier ones:
\* the pattern of the zmm generators, which call the variadic selector with
\* an argument list that grows by one register per call.
PickAvoiding(avoid, n) ==
  LET picks[k \in 0 .. n] ==
        IF k = 0 THEN <<>>
        ELSE LET before == picks[k - 1]
             IN  Append(before,
                        find_available_spill_avoiding_variadic(
                          avoid \cup {before[j] : j \in 1 .. (k - 1)}))
  IN  picks[n]
=============================================================================
