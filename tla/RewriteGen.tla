----------------------------- MODULE RewriteGen -----------------------------
(***************************************************************************)
(* The code generators of core/arch/rewrite.c: the sequence of AVX/AVX2    *)
(* instructions that replaces one AVX-512 instruction.                     *)
(*                                                                         *)
(* Registers are represented by their index, and a vector register by its  *)
(* 128-bit lanes: xmm is lane 0, ymm lanes 0..1, zmm lanes 0..3.  "n" is   *)
(* the number of lanes an instruction moves or computes (OPSZ_16 is 1,     *)
(* OPSZ_32 is 2) and "half" selects the lower (0) or upper (1) 256 bits of *)
(* a TLS slot or memory operand (the "+ SIZE_OF_YMM" of the code).         *)
(*                                                                         *)
(* A decoded instruction is a record [op, w, srcs, dst]: opcode, width in  *)
(* lanes, the sources in DynamoRIO's order (the mask register first, when  *)
(* the encoding has one) and the destination.  Instructions are unmasked   *)
(* (mask k0); the masked paths are not part of this module.                *)
(***************************************************************************)
EXTENDS SpillSelect

\* Operands that are not vector registers.
K0    == 100
GPR   == 101
FLAGS == 102
MEM   == 103     \* BASE_DISP_kind
REL   == 104     \* REL_ADDR_kind
IMM   == 105     \* IMMED_INTEGER_kind; the generators pass it on unchanged

\* Variant: register 16 is taken for a low one.
NEED_SPILL_above_16(reg) == reg \in 17 .. 31

NEED_SPILL(reg) == reg \in 16 .. 31

SLOT0 == SlotFirst
SLOT1 == SlotFirst + 1

\* The answer of a generator that has no rewriting for its operands.
NULL_INSTR == <<>>

-----------------------------------------------------------------------------
\* The emitted instructions.

SAVE_SIMD_TO_SIZED_TLS(reg, slot, half, n) ==
  [t |-> "save", reg |-> reg, slot |-> slot, half |-> half, n |-> n]

RESTORE_SIMD_FROM_SIZED_TLS(reg, slot, half, n) ==
  [t |-> "restore", reg |-> reg, slot |-> slot, half |-> half, n |-> n]

\* A VEX-encoded instruction on register operands.  "mov" copies.
Vex(op, dst, srcs, n) == [t |-> "vex", op |-> op, dst |-> dst, srcs |-> srcs, n |-> n]

\* A vector store to, or load from, the application's memory operand.
Store(mem, half, reg, n) == [t |-> "store", mem |-> mem, half |-> half, reg |-> reg, n |-> n]
Load(reg, mem, half, n)  == [t |-> "load", mem |-> mem, half |-> half, reg |-> reg, n |-> n]

\* Variant: scratch registers are parked with 16 bytes.
SavesNarrow(regs, n) ==
  [k \in 1 .. Len(regs) |-> SAVE_SIMD_TO_SIZED_TLS(regs[k], regs[k], 0, 1)]

\* Scratch registers are parked in, and reloaded from, their own slots.
Saves(regs, n) ==
  [k \in 1 .. Len(regs) |-> SAVE_SIMD_TO_SIZED_TLS(regs[k], regs[k], 0, n)]

\* Variants: one register is forgotten; the upper half is reloaded.
RestoresAllButLast(regs, n) ==
  [k \in 1 .. (Len(regs) - 1) |-> RESTORE_SIMD_FROM_SIZED_TLS(regs[k], regs[k], 0, n)]

RestoresUpper(regs, n) ==
  [k \in 1 .. Len(regs) |-> RESTORE_SIMD_FROM_SIZED_TLS(regs[k], regs[k], 1, n)]

Restores(regs, n) ==
  [k \in 1 .. Len(regs) |-> RESTORE_SIMD_FROM_SIZED_TLS(regs[k], regs[k], 0, n)]

\* Variant: nothing is restored.
BracketedNoRestores(regs, n, body) == Saves(regs, n) \o body

Bracketed(regs, n, body) == Saves(regs, n) \o body \o Restores(regs, n)

When(cond, seq) == IF cond THEN seq ELSE <<>>

\* need_spill_flag: which operands are registers 16..31.
SpillFlag(src1, src2, dst) ==
  (IF NEED_SPILL(src1) THEN 1 ELSE 0) + (IF NEED_SPILL(src2) THEN 2 ELSE 0)
    + (IF NEED_SPILL(dst) THEN 4 ELSE 0)

-----------------------------------------------------------------------------
\* Three-operand instructions of one xmm or ymm register.
\*
\* An allocation names the registers that stand for the operands: the operand
\* itself when it is low, a scratch register otherwise.

Alloc(src1, src2, dst) == [src1 |-> src1, src2 |-> src2, dst |-> dst]

\* Variant: only the register that stands for source 1 is parked.
ScratchFirstOnly(src1, src2, dst, a) == When(NEED_SPILL(src1), <<a.src1>>)

\* The scratch registers of an allocation, in the order they are saved.
Scratch(src1, src2, dst, a) ==
  LET own1 == NEED_SPILL(src1)
      own2 == NEED_SPILL(src2) /\ ~ (own1 /\ a.src2 = a.src1)
      ownd == /\ NEED_SPILL(dst)
              /\ ~ (own1 /\ a.dst = a.src1)
              /\ ~ (NEED_SPILL(src2) /\ a.dst = a.src2)
  IN  When(own1, <<a.src1>>) \o When(own2, <<a.src2>>) \o When(ownd, <<a.dst>>)

\* Variant: the sources are swapped.
BinopBodySwapped(op, n, src1, src2, dst, a) ==
  When(NEED_SPILL(src1), <<RESTORE_SIMD_FROM_SIZED_TLS(a.src1, src1, 0, n)>>)
    \o When(NEED_SPILL(src2) /\ ~ (NEED_SPILL(src1) /\ a.src2 = a.src1),
            <<RESTORE_SIMD_FROM_SIZED_TLS(a.src2, src2, 0, n)>>)
    \o <<Vex(op, a.dst, <<a.src2, a.src1>>, n)>>
    \o When(NEED_SPILL(dst), <<SAVE_SIMD_TO_SIZED_TLS(a.dst, dst, 0, n)>>)

\* Load the spilled sources, compute, and park the result of a spilled
\* destination in its slot.
BinopBody(op, n, src1, src2, dst, a) ==
  When(NEED_SPILL(src1), <<RESTORE_SIMD_FROM_SIZED_TLS(a.src1, src1, 0, n)>>)
    \o When(NEED_SPILL(src2) /\ ~ (NEED_SPILL(src1) /\ a.src2 = a.src1),
            <<RESTORE_SIMD_FROM_SIZED_TLS(a.src2, src2, 0, n)>>)
    \o <<Vex(op, a.dst, <<a.src1, a.src2>>, n)>>
    \o When(NEED_SPILL(dst), <<SAVE_SIMD_TO_SIZED_TLS(a.dst, dst, 0, n)>>)

Binop(op, n, src1, src2, dst, a) ==
  Bracketed(Scratch(src1, src2, dst, a), n, BinopBody(op, n, src1, src2, dst, a))

\* Variant: the destination is not avoided.
OneSpilledSourceNotDst(src1, src2, dst) ==
  IF NEED_SPILL(src1) THEN Alloc(find_one_available_spill(src2), src2, dst)
                      ELSE Alloc(src1, find_one_available_spill(src1), dst)

\* Cases 1 and 2 are the same in most generators.  Note case 2: with
\* src1 = dst the selector is told to avoid src2, which is never in the pool.
OneSpilledSource(src1, src2, dst) ==
  IF NEED_SPILL(src1)
  THEN Alloc(IF src2 = dst THEN find_one_available_spill(src2)
             ELSE find_available_spill_avoiding(src2, dst, DR_REG_NULL), src2, dst)
  ELSE Alloc(src1, IF src1 = dst THEN find_one_available_spill(src2)
                   ELSE find_available_spill_avoiding(src1, dst, DR_REG_NULL), dst)

\* Case 7: all three operands are high.
AllSpilled(src1, src2, dst) ==
  IF src1 = dst /\ src2 = dst THEN Alloc(SLOT0, SLOT0, SLOT0)
  ELSE Alloc(SLOT0, SLOT1, IF src2 = dst /\ src1 # dst THEN SLOT1 ELSE SLOT0)

\* Generators that hard-wire the first two pool registers in cases 3 to 6.
FixedAlloc(src1, src2, dst) ==
  LET flag == SpillFlag(src1, src2, dst) IN
  CASE flag = 0 -> Alloc(src1, src2, dst)
    [] flag \in {1, 2} -> OneSpilledSource(src1, src2, dst)
    [] flag = 3 -> Alloc(SLOT0, SLOT1, dst)
    [] flag = 4 -> Alloc(src1, src2, SLOT0)
    [] flag = 5 -> Alloc(SLOT0, src2, SLOT1)
    [] flag = 6 -> Alloc(src1, SLOT0, SLOT1)
    [] flag = 7 -> AllSpilled(src1, src2, dst)

\* vpaddd_ymm_and_ymm_gen asks the selector in cases 3 to 6.
DynamicAlloc(src1, src2, dst) ==
  LET flag   == SpillFlag(src1, src2, dst)
      Two(r) == LET first == find_available_spill_avoiding(r, DR_REG_NULL, DR_REG_NULL)
                IN  <<first, find_available_spill_avoiding(r, first, DR_REG_NULL)>>
  IN
  CASE flag = 0 -> Alloc(src1, src2, dst)
    [] flag \in {1, 2} -> OneSpilledSource(src1, src2, dst)
    [] flag = 3 -> Alloc(Two(dst)[1], Two(dst)[2], dst)
    [] flag = 4 -> Alloc(src1, src2, find_available_spill_avoiding(src1, src2, DR_REG_NULL))
    [] flag = 5 -> Alloc(Two(src2)[1], src2, Two(src2)[2])
    [] flag = 6 -> Alloc(src1, Two(src1)[1], Two(src1)[2])
    [] flag = 7 -> AllSpilled(src1, src2, dst)

\* vporq_ymm_and_ymm_gen: cases 1 and 2 avoid only the other source, cases 5
\* and 6 compute in place, case 7 ignores equal operands.
SharedAlloc(src1, src2, dst) ==
  LET flag == SpillFlag(src1, src2, dst) IN
  CASE flag = 0 -> Alloc(src1, src2, dst)
    [] flag = 1 -> Alloc(find_one_available_spill(src2), src2, dst)
    [] flag = 2 -> Alloc(src1, find_one_available_spill(src1), dst)
    [] flag = 3 -> LET first == find_one_available_spill(dst)
                   IN  Alloc(first, find_available_spill_avoiding(dst, first, DR_REG_NULL), dst)
    [] flag = 4 -> Alloc(src1, src2, find_available_spill_avoiding(src1, src2, DR_REG_NULL))
    [] flag = 5 -> LET r == find_one_available_spill(src2) IN Alloc(r, src2, r)
    [] flag = 6 -> LET r == find_one_available_spill(src1) IN Alloc(src1, r, r)
    [] flag = 7 -> Alloc(SLOT0, SLOT1, SLOT0)
=============================================================================
