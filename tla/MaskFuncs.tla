----------------------------- MODULE MaskFuncs -----------------------------
(***************************************************************************)
(* The rewrite functions of the mask instructions, rw_func_kmovw to        *)
(* rw_func_ktestd of core/arch/rewrite.c, for register operands.           *)
(*                                                                         *)
(* k_regs[n] of spill_state_t is the location K(n), the slots TLS_REG1,    *)
(* TLS_REG2 and TLS_REG3 are Tls(1), Tls(2) and Tls(3).  A function        *)
(* returns the instructions that stand in the block for the original: the  *)
(* chain it creates, and behind it the original where the function does    *)
(* not remove it.  NULL_INSTR is an empty chain.  Labels are positions.    *)
(***************************************************************************)
EXTENDS MaskIsa, Sequences

Tls(n) == <<"tls", n>>
Imm(s) == <<"imm", s>>     \* an immediate
Abs    == <<"abs", 0>>     \* an absolute address, not relative to a segment
NoSrc  == <<"none", 0>>    \* instr_get_src beyond the operands of the instruction

rax == R("rax")
rbx == R("rbx")
rcx == R("rcx")
rdx == R("rdx")
r11 == R("r11")
r12 == R("r12")
r15 == R("r15")

-----------------------------------------------------------------------------
\* Instructions.  A Mov has the width of its register and that of its memory
\* operand, which only RESTORE_FROM_SIZED_TLS and SAVE_TO_SIZED_TLS can set.
Mov(d, s, w, sz)  == [what |-> "mov", d |-> d, s |-> s, w |-> w, sz |-> sz]
Load(r, w, slot)  == Mov(r, slot, w, w)
Store(r, w, slot) == Mov(slot, r, w, w)
MovImm(r, s)      == Mov(r, Imm(s), 64, 64)

\* movzx to a 64-bit register or to a 32-bit one, which clears the rest too.
Movzx(r, w)       == [what |-> "movzx", d |-> r, s |-> r, w |-> w, sz |-> w]

Alu(f, w, d, s)   == [what |-> f, d |-> d, s |-> s, w |-> w, sz |-> w]
Shift(f, w, d, n) == [what |-> f, d |-> d, s |-> Imm({}), w |-> w, sz |-> n]
Push(r)           == [what |-> "push", d |-> r, s |-> r, w |-> 64, sz |-> 64]
Pop(r)            == [what |-> "pop", d |-> r, s |-> r, w |-> 64, sz |-> 64]
Carry(set)        == [what |-> IF set THEN "stc" ELSE "clc", d |-> Flags, s |-> Flags, w |-> 64, sz |-> 0]
Jump(c, to)       == [what |-> c, d |-> Flags, s |-> Flags, w |-> 64, sz |-> to]

\* The application's instruction itself, left in the block after its chain.
Native            == [what |-> "native", d |-> Flags, s |-> Flags, w |-> 64, sz |-> 0]

\* A function that does not call instrlist_remove.
KeptWith(chain) == chain \o <<Native>>
NULL_INSTR      == <<>>

\* Push or save, a body, and the mirror image.
Pushing(r, body)      == <<Push(r)>> \o body \o <<Pop(r)>>
Saving(r, slot, body) == <<Store(r, 64, slot)>> \o body \o <<Load(r, 64, slot)>>

-----------------------------------------------------------------------------
\* kmov
IsK(l) == l[1] = "k"

rw_func_kmovw(i) ==
  CASE IsK(i.src1) /\ ~IsK(i.dst) -> <<Load(i.dst, 16, i.src1), Movzx(rax, 16)>>
    [] ~IsK(i.src1) /\ IsK(i.dst) ->
         Saving(rax, Tls(1), <<Alu("xor", 64, rax, rax), Store(rax, 64, i.dst),
                               Store(i.src1, 16, i.dst)>>)
    [] IsK(i.src1) /\ IsK(i.dst) ->
         Saving(rax, Tls(1), <<Load(rax, 64, i.src1), Store(rax, 16, i.dst)>>)

rw_func_kmovb(i) ==
  CASE IsK(i.src1) /\ ~IsK(i.dst) ->
         Pushing(Flags, <<Alu("xor", 32, i.dst, i.dst), Load(i.dst, 8, i.src1)>>)
    [] ~IsK(i.src1) /\ IsK(i.dst) ->
         Pushing(Flags, Pushing(r15,
           <<Alu("xor", 64, r15, r15), Store(r15, 64, i.dst), Store(i.src1, 8, i.dst)>>))
    [] IsK(i.src1) /\ IsK(i.dst) ->
         Pushing(Flags, Saving(r11, Tls(1), Saving(r12, Tls(2),
           <<Alu("xor", 64, r12, r12), Store(r12, 64, i.dst),
             Load(r11, 8, i.src1), Store(r11, 8, i.dst)>>)))

rw_func_kmovq(i) ==
  CASE IsK(i.src1) /\ ~IsK(i.dst) -> <<Load(i.dst, 64, i.src1)>>
    [] ~IsK(i.src1) /\ IsK(i.dst) -> <<Store(i.src1, 64, i.dst)>>
    [] IsK(i.src1) /\ IsK(i.dst) ->
         Saving(rax, Tls(1), <<Load(rax, 64, i.src1), Store(rax, 64, i.dst)>>)

\* Between masks the 64-bit register is paired with a 4-byte memory operand.
rw_func_kmovd(i) ==
  CASE IsK(i.src1) /\ ~IsK(i.dst) -> <<Load(i.dst, 32, i.src1)>>
    [] ~IsK(i.src1) /\ IsK(i.dst) ->
         Saving(rax, Tls(1), <<Alu("xor", 64, rax, rax), Store(rax, 64, i.dst),
                               Store(i.src1, 32, i.dst)>>)
    [] IsK(i.src1) /\ IsK(i.dst) ->
         Saving(rax, Tls(1), Saving(rcx, Tls(2),
           <<Alu("xor", 64, rcx, rcx), Store(rcx, 64, i.dst),
             Mov(rax, i.src1, 64, 32), Mov(i.dst, rax, 64, 32)>>))

-----------------------------------------------------------------------------
\* Two masks in rax and rbx, an operation, and the result from rax.  Variants:
\* the registers are popped in the order they were pushed; nothing saves the
\* flags.
TwoMasksPopOrder(w, i, ops) ==
  <<Push(Flags), Push(rax), Push(rbx), Load(rax, w, i.src1), Load(rbx, w, i.src2)>>
    \o ops \o <<Store(rax, w, i.dst), Pop(rax), Pop(rbx), Pop(Flags)>>

TwoMasksNoFlags(w, i, ops) ==
  Pushing(rax, Pushing(rbx,
    <<Load(rax, w, i.src1), Load(rbx, w, i.src2)>> \o ops \o <<Store(rax, w, i.dst)>>))

TwoMasks(w, i, ops) ==
  Pushing(Flags, Pushing(rax, Pushing(rbx,
    <<Load(rax, w, i.src1), Load(rbx, w, i.src2)>> \o ops \o <<Store(rax, w, i.dst)>>)))

rw_func_kandw(i) == KeptWith(TwoMasks(16, i, <<Alu("and", 16, rax, rbx)>>))
rw_func_kandb(i) == KeptWith(TwoMasks(8, i, <<Alu("and", 8, rax, rbx)>>))
rw_func_kandq(i) == KeptWith(TwoMasks(64, i, <<Alu("and", 64, rax, rbx)>>))
rw_func_kandd(i) == KeptWith(TwoMasks(32, i, <<Alu("and", 32, rax, rbx)>>))

\* not and and: the first source is complemented.
AndNot(w) == <<Alu("not", w, rax, rax), Alu("and", w, rax, rbx)>>

rw_func_kandnw(i) == KeptWith(TwoMasks(16, i, AndNot(16)))
rw_func_kandnb(i) == KeptWith(TwoMasks(8, i, AndNot(8)))
rw_func_kandnq(i) == KeptWith(TwoMasks(64, i, AndNot(64)))
rw_func_kandnd(i) == KeptWith(TwoMasks(32, i, AndNot(32)))

\* or, and for the narrow ones an and with all ones of the width.
OrMasked(w) == <<Alu("or", w, rax, rbx), Alu("and", w, rax, Imm(Low(w)))>>

rw_func_korw(i) == TwoMasks(16, i, OrMasked(16))
rw_func_korb(i) == TwoMasks(8, i, OrMasked(8))
rw_func_korq(i) == TwoMasks(64, i, <<Alu("or", 64, rax, rbx)>>)
rw_func_kord(i) == TwoMasks(32, i, OrMasked(32))

\* One mask in rax.
OneMask(w, i, ops) ==
  Pushing(Flags, Pushing(rax, <<Load(rax, w, i.src1)>> \o ops \o <<Store(rax, w, i.dst)>>))

NotMasked(w) == <<Alu("not", w, rax, rax), Alu("and", w, rax, Imm(Low(w)))>>

rw_func_knotw(i) == OneMask(16, i, NotMasked(16))
rw_func_knotb(i) == OneMask(8, i, NotMasked(8))
rw_func_knotq(i) == OneMask(64, i, <<Alu("not", 64, rax, rax)>>)
rw_func_knotd(i) == OneMask(32, i, NotMasked(32))

\* xor and add take the second mask from an operand without a segment.
rw_func_kxorw(i) == OneMask(16, i, <<Alu("xor", 16, rax, Abs)>>)
rw_func_kxorb(i) == OneMask(8, i, <<Alu("xor", 8, rax, Abs)>>)
rw_func_kxorq(i) == OneMask(64, i, <<Alu("xor", 64, rax, Abs)>>)
rw_func_kxord(i) == OneMask(32, i, <<Alu("xor", 32, rax, Abs)>>)
rw_func_kaddw(i) == OneMask(16, i, <<Alu("add", 16, rax, Abs)>>)
rw_func_kaddb(i) == OneMask(8, i, <<Alu("add", 8, rax, Abs)>>)
rw_func_kaddq(i) == OneMask(64, i, <<Alu("add", 64, rax, Abs)>>)
rw_func_kaddd(i) == OneMask(32, i, <<Alu("add", 32, rax, Abs)>>)

\* The unpacks save registers only; the shift and the ands write the flags.
rw_func_kunpckbw(i) ==
  Saving(rax, Tls(1), Saving(rcx, Tls(3),
    <<Load(rax, 64, i.src1), Load(rcx, 64, i.src2),
      Shift("shl", 64, rax, 8),
      Alu("and", 64, rax, Imm(8 .. 15)), Alu("and", 64, rcx, Imm(0 .. 7)),
      Alu("or", 64, rcx, rax), Store(rcx, 64, i.dst)>>))

rw_func_kunpckwd(i) ==
  Saving(rax, Tls(1), Saving(rcx, Tls(3), Saving(rdx, Tls(2),
    <<Load(rax, 64, i.src1), Load(rcx, 64, i.src2),
      Shift("shl", 64, rax, 16),
      MovImm(rdx, 16 .. 31), Alu("and", 64, rax, rdx),
      MovImm(rdx, 0 .. 15), Alu("and", 64, rcx, rdx),
      Alu("or", 64, rcx, rax), Store(rcx, 64, i.dst)>>)))

rw_func_kunpckdq(i) == NULL_INSTR

\* Equal sources give all ones without a look at them.  Otherwise both are
\* loaded whole and trim cuts the result to the width.
AllOnes(w, dst) == Pushing(rax, <<MovImm(rax, Low(w)), Store(rax, 64, dst)>>)

Xnor(i, trim) ==
  Pushing(rax, Pushing(rcx, Pushing(Flags,
    <<Load(rax, 64, i.src1), Load(rcx, 64, i.src2),
      Alu("xor", 64, rax, rcx), Alu("not", 64, rax, rax)>>
      \o trim \o <<Store(rax, 64, i.dst)>>)))

rw_func_kxnorw(i) ==
  IF i.src1 = i.src2 THEN AllOnes(16, i.dst)
  ELSE Xnor(i, <<Alu("and", 64, rax, Imm(0 .. 15))>>)
rw_func_kxnorb(i) ==
  IF i.src1 = i.src2 THEN AllOnes(8, i.dst)
  ELSE Xnor(i, <<Alu("and", 64, rax, Imm(0 .. 7))>>)
rw_func_kxnorq(i) ==
  IF i.src1 = i.src2 THEN AllOnes(64, i.dst)
  ELSE Xnor(i, <<>>)
\* The all ones of kxnord go to the source.
rw_func_kxnord(i) ==
  IF i.src1 = i.src2 THEN AllOnes(32, i.src1)
  ELSE KeptWith(Xnor(i, <<MovImm(rcx, 0 .. 31), Alu("and", 64, rax, rcx)>>))

-----------------------------------------------------------------------------
\* The test of rax in the kortest functions, from position at of the chain: zero
\* at at + 6, all ones at at + 8, done behind.  Variant: all ones forgets stc.
ClassifyNoCarry(w, at) ==
  <<Alu("test", w, rax, rax), Jump("jz", at + 6),
    Alu("cmp", 32, rax, Imm(Low(w))), Jump("jz", at + 8),
    Carry(FALSE), Jump("jmp", at + 10),
    Carry(FALSE), Jump("jmp", at + 10),
    Alu("test", w, rax, rax), Carry(FALSE)>>

Classify(w, at) ==
  <<Alu("test", w, rax, rax), Jump("jz", at + 6),
    Alu("cmp", 32, rax, Imm(Low(w))), Jump("jz", at + 8),
    Carry(FALSE), Jump("jmp", at + 10),
    Carry(FALSE), Jump("jmp", at + 10),
    Alu("test", w, rax, rax), Carry(TRUE)>>

Kortest(w, i) ==
  IF i.src1 = i.src2
  THEN Pushing(rax, <<Load(rax, 64, i.src1), Movzx(rax, w)>> \o Classify(w, 4))
  ELSE Pushing(rax, Pushing(rdx,
         <<Load(rax, 64, i.src1), Load(rdx, 64, i.src2), Movzx(rax, w), Movzx(rdx, w),
           Alu("or", w, rax, rdx)>> \o Classify(w, 8)))

rw_func_kortestw(i) == Kortest(16, i)
rw_func_kortestb(i) == Kortest(8, i)

\* The decoder gives a kortest one source and one destination; these two read a
\* second source, and put the flags back that they found.
KortestTwoSources(w, i) ==
  KeptWith(Pushing(Flags, Pushing(rax, Pushing(rbx,
    <<Load(rax, w, i.src1), Load(rbx, w, NoSrc), Alu("or", w, rax, rbx),
      Load(rax, w, i.src1), Alu("and", w, rax, rbx)>>))))

rw_func_kortestq(i) == KortestTwoSources(64, i)
rw_func_kortestd(i) == KortestTwoSources(32, i)

\* The decoder sign-extends an 8-bit immediate; the processor takes the count of
\* a shift modulo the width.
Signed8(n) == IF n < 128 THEN n ELSE n - 256

\* The narrow masks are shifted in the whole register, st wide is the store.
ClearMask(st, i) ==
  Pushing(Flags, Pushing(rax, <<Alu("xor", 64, rax, rax), Store(rax, st, i.dst)>>))

ShiftNarrow(f, w, st, i) ==
  IF Signed8(i.imm) <= w - 1
  THEN Pushing(Flags, Pushing(rax,
         <<Load(rax, w, i.src1), Movzx(rax, w), Shift(f, 64, rax, i.imm),
           Store(rax, st, i.dst)>>))
  ELSE ClearMask(st, i)

\* Variant: a count of the whole width counts as a shift.
ShiftWideLimit(f, w, i) ==
  IF Signed8(i.imm) <= w
  THEN OneMask(w, i, <<Shift(f, w, rax, i.imm)>>)
  ELSE ClearMask(w, i)

ShiftWide(f, w, i) ==
  IF Signed8(i.imm) <= w - 1
  THEN OneMask(w, i, <<Shift(f, w, rax, i.imm)>>)
  ELSE ClearMask(w, i)

rw_func_kshiftlw(i) == KeptWith(ShiftNarrow("shl", 16, 16, i))
\* Variant: the whole register is stored.
rw_func_kshiftlbWhole(i) == KeptWith(ShiftNarrow("shl", 8, 64, i))
rw_func_kshiftlb(i) == KeptWith(ShiftNarrow("shl", 8, 8, i))
rw_func_kshiftlq(i) == KeptWith(ShiftWide("shl", 64, i))
rw_func_kshiftld(i) == KeptWith(ShiftWide("shl", 32, i))
rw_func_kshiftrw(i) == KeptWith(ShiftNarrow("shr", 16, 16, i))
rw_func_kshiftrb(i) == ShiftNarrow("shr", 8, 64, i)
rw_func_kshiftrq(i) == KeptWith(ShiftWide("shr", 64, i))
rw_func_kshiftrd(i) == KeptWith(ShiftWide("shr", 32, i))

\* One source is tested, and the flags are put back.
Ktest(w, i) ==
  KeptWith(Pushing(Flags, Pushing(rax,
    <<Load(rax, w, i.src1), Alu("test", w, rax, rax), Alu("cmp", w, rax, Imm(Low(w)))>>)))

rw_func_ktestw(i) == Ktest(16, i)
rw_func_ktestb(i) == Ktest(8, i)
rw_func_ktestq(i) == Ktest(64, i)
rw_func_ktestd(i) == Ktest(32, i)

-----------------------------------------------------------------------------
\* The entries 472 to 522 of the table rewrite_funcs.
rewrite_funcs(i) ==
  CASE i.op = "kmov" /\ i.w = 16 -> rw_func_kmovw(i)
    [] i.op = "kmov" /\ i.w = 8 -> rw_func_kmovb(i)
    [] i.op = "kmov" /\ i.w = 64 -> rw_func_kmovq(i)
    [] i.op = "kmov" /\ i.w = 32 -> rw_func_kmovd(i)
    [] i.op = "kand" /\ i.w = 16 -> rw_func_kandw(i)
    [] i.op = "kand" /\ i.w = 8 -> rw_func_kandb(i)
    [] i.op = "kand" /\ i.w = 64 -> rw_func_kandq(i)
    [] i.op = "kand" /\ i.w = 32 -> rw_func_kandd(i)
    [] i.op = "kandn" /\ i.w = 16 -> rw_func_kandnw(i)
    [] i.op = "kandn" /\ i.w = 8 -> rw_func_kandnb(i)
    [] i.op = "kandn" /\ i.w = 64 -> rw_func_kandnq(i)
    [] i.op = "kandn" /\ i.w = 32 -> rw_func_kandnd(i)
    [] i.op = "kor" /\ i.w = 16 -> rw_func_korw(i)
    [] i.op = "kor" /\ i.w = 8 -> rw_func_korb(i)
    [] i.op = "kor" /\ i.w = 64 -> rw_func_korq(i)
    [] i.op = "kor" /\ i.w = 32 -> rw_func_kord(i)
    [] i.op = "knot" /\ i.w = 16 -> rw_func_knotw(i)
    [] i.op = "knot" /\ i.w = 8 -> rw_func_knotb(i)
    [] i.op = "knot" /\ i.w = 64 -> rw_func_knotq(i)
    [] i.op = "knot" /\ i.w = 32 -> rw_func_knotd(i)
    [] i.op = "kxor" /\ i.w = 16 -> rw_func_kxorw(i)
    [] i.op = "kxor" /\ i.w = 8 -> rw_func_kxorb(i)
    [] i.op = "kxor" /\ i.w = 64 -> rw_func_kxorq(i)
    [] i.op = "kxor" /\ i.w = 32 -> rw_func_kxord(i)
    [] i.op = "kadd" /\ i.w = 16 -> rw_func_kaddw(i)
    [] i.op = "kadd" /\ i.w = 8 -> rw_func_kaddb(i)
    [] i.op = "kadd" /\ i.w = 64 -> rw_func_kaddq(i)
    [] i.op = "kadd" /\ i.w = 32 -> rw_func_kaddd(i)
    [] i.op = "kxnor" /\ i.w = 16 -> rw_func_kxnorw(i)
    [] i.op = "kxnor" /\ i.w = 8 -> rw_func_kxnorb(i)
    [] i.op = "kxnor" /\ i.w = 64 -> rw_func_kxnorq(i)
    [] i.op = "kxnor" /\ i.w = 32 -> rw_func_kxnord(i)
    [] i.op = "kortest" /\ i.w = 16 -> rw_func_kortestw(i)
    [] i.op = "kortest" /\ i.w = 8 -> rw_func_kortestb(i)
    [] i.op = "kortest" /\ i.w = 64 -> rw_func_kortestq(i)
    [] i.op = "kortest" /\ i.w = 32 -> rw_func_kortestd(i)
    [] i.op = "kshiftl" /\ i.w = 16 -> rw_func_kshiftlw(i)
    [] i.op = "kshiftl" /\ i.w = 8 -> rw_func_kshiftlb(i)
    [] i.op = "kshiftl" /\ i.w = 64 -> rw_func_kshiftlq(i)
    [] i.op = "kshiftl" /\ i.w = 32 -> rw_func_kshiftld(i)
    [] i.op = "kshiftr" /\ i.w = 16 -> rw_func_kshiftrw(i)
    [] i.op = "kshiftr" /\ i.w = 8 -> rw_func_kshiftrb(i)
    [] i.op = "kshiftr" /\ i.w = 64 -> rw_func_kshiftrq(i)
    [] i.op = "kshiftr" /\ i.w = 32 -> rw_func_kshiftrd(i)
    [] i.op = "ktest" /\ i.w = 16 -> rw_func_ktestw(i)
    [] i.op = "ktest" /\ i.w = 8 -> rw_func_ktestb(i)
    [] i.op = "ktest" /\ i.w = 64 -> rw_func_ktestq(i)
    [] i.op = "ktest" /\ i.w = 32 -> rw_func_ktestd(i)
    [] i.op = "kunpck" /\ i.w = 16 -> rw_func_kunpckbw(i)
    [] i.op = "kunpck" /\ i.w = 32 -> rw_func_kunpckwd(i)
    [] i.op = "kunpck" /\ i.w = 64 -> rw_func_kunpckdq(i)
=============================================================================
