---------------------------- MODULE RewriteFuncs ----------------------------
(***************************************************************************)
(* The rewrite functions of core/arch/rewrite.c, one definition per C      *)
(* function, and the table that selects one by opcode.  Functions that the *)
(* source repeats with only the mnemonic changed share a template.         *)
(***************************************************************************)
EXTENDS RewriteGen

instr_get_src(instr, pos) == instr.srcs[pos + 1]

-----------------------------------------------------------------------------
\* zmm binary operations: two 256-bit operations, the upper halves loaded
\* from TLS, both halves of the result written to the destination's slot.

ZmmBinop(op, src1, src2, dst) ==
  LET h1 == IF NEED_SPILL(src1) THEN 1 ELSE 0
      h2 == IF NEED_SPILL(src2) THEN 1 ELSE 0
      hd == IF NEED_SPILL(dst) THEN 1 ELSE 0
      lows    == h1 + h2 + hd
      inPlace == lows = 0 /\ src1 = dst
      picks   == PickAvoiding({src1, src2, dst}, lows + (IF inPlace THEN 2 ELSE 3))
      low1 == IF h1 = 1 THEN picks[1] ELSE src1
      low2 == IF h2 = 1 THEN picks[h1 + 1] ELSE src2
      lowd == IF hd = 1 THEN picks[h1 + h2 + 1] ELSE dst
      up1  == picks[lows + 1]
      up2  == picks[lows + 2]
      upd  == IF inPlace THEN up1 ELSE picks[lows + 3]
  IN  Bracketed(picks, 2,
        When(h1 = 1, <<RESTORE_SIMD_FROM_SIZED_TLS(low1, src1, 0, 2)>>)
          \o <<RESTORE_SIMD_FROM_SIZED_TLS(up1, src1, 1, 2)>>
          \o When(h2 = 1, <<RESTORE_SIMD_FROM_SIZED_TLS(low2, src2, 0, 2)>>)
          \o <<RESTORE_SIMD_FROM_SIZED_TLS(up2, src2, 1, 2),
               Vex(op, lowd, <<low1, low2>>, 2),
               Vex(op, upd, <<up1, up2>>, 2),
               SAVE_SIMD_TO_SIZED_TLS(lowd, dst, 0, 2),
               SAVE_SIMD_TO_SIZED_TLS(upd, dst, 1, 2)>>)

vpaddq_zmm_reg_reg_gen(src1, src2, dst) == ZmmBinop("vpaddq", src1, src2, dst)
vpsubq_zmm_and_zmm_gen(src1, src2, dst) == ZmmBinop("vpsubq", src1, src2, dst)
vpaddd_zmm_and_zmm_gen(src1, src2, dst) == ZmmBinop("vpaddd", src1, src2, dst)
vporq_zmm_and_zmm_gen(src1, src2, dst)  == ZmmBinop("vpor", src1, src2, dst)
vpxorq_zmm_and_zmm_gen(src1, src2, dst) == ZmmBinop("vpxor", src1, src2, dst)

\* Only the case without high registers is implemented.
vpsubd_zmm_and_zmm_gen(src1, src2, dst) ==
  LET picks == PickAvoiding({src1, src2, dst}, 3) IN
  IF SpillFlag(src1, src2, dst) # 0 THEN NULL_INSTR
  ELSE Bracketed(picks, 2,
         <<Vex("vpsubd", dst, <<src1, src2>>, 2),
           RESTORE_SIMD_FROM_SIZED_TLS(picks[1], src1, 1, 2),
           RESTORE_SIMD_FROM_SIZED_TLS(picks[2], src2, 1, 2),
           Vex("vpsubd", picks[3], <<picks[1], picks[2]>>, 2),
           SAVE_SIMD_TO_SIZED_TLS(dst, dst, 0, 2),
           SAVE_SIMD_TO_SIZED_TLS(picks[3], dst, 1, 2)>>)

-----------------------------------------------------------------------------
\* ymm binary operations.

FixedBinop(op, n, src1, src2, dst) ==
  Binop(op, n, src1, src2, dst, FixedAlloc(src1, src2, dst))

vpsubw_ymm_and_ymm_gen(src1, src2, dst) == FixedBinop("vpsubw", 2, src1, src2, dst)
vpsubd_ymm_and_ymm_gen(src1, src2, dst) == FixedBinop("vpsubd", 2, src1, src2, dst)
vpsubq_ymm_and_ymm_gen(src1, src2, dst) == FixedBinop("vpsubq", 2, src1, src2, dst)

vpaddd_ymm_and_ymm_gen(src1, src2, dst) ==
  Binop("vpaddd", 2, src1, src2, dst, DynamicAlloc(src1, src2, dst))

vporq_ymm_and_ymm_gen(src1, src2, dst) ==
  Binop("vpor", 2, src1, src2, dst, SharedAlloc(src1, src2, dst))

\* Cases 3, 4 and 6 are not implemented; case 5 computes in place when it can.
vpaddw_ymm_and_ymm_gen(src1, src2, dst) ==
  LET flag == SpillFlag(src1, src2, dst)
      free == find_one_available_spill(src2)
      a == CASE flag = 0 -> Alloc(src1, src2, dst)
             [] flag \in {1, 2} -> OneSpilledSource(src1, src2, dst)
             [] flag = 5 /\ src1 = dst -> Alloc(free, src2, free)
             [] flag = 5 /\ src1 # dst ->
                  Alloc(free, src2, find_available_spill_avoiding(src2, free, DR_REG_NULL))
             [] flag = 7 -> AllSpilled(src1, src2, dst)
  IN  IF flag \in {3, 4, 6} THEN NULL_INSTR ELSE Binop("vpaddw", 2, src1, src2, dst, a)

-----------------------------------------------------------------------------
\* xmm binary operations.

vpsllq_xmm2xmm_gen(src1, src2, dst)     == FixedBinop("vpsllq", 1, src1, src2, dst)
vpsubw_xmm_and_xmm_gen(src1, src2, dst) == FixedBinop("vpsubw", 1, src1, src2, dst)

\* Sources 1 and 2 of the decoded instruction; source 0 is the mask.
FixedXmm(instr, op) ==
  FixedBinop(op, 1, instr_get_src(instr, 1), instr_get_src(instr, 2), instr.dst)

rw_func_vmovss(instr)    == FixedXmm(instr, "vmovss")
rw_func_vmovsd(instr)    == FixedXmm(instr, "vmovsd")
rw_func_vunpcklps(instr) == FixedXmm(instr, "vunpcklps")
rw_func_vunpcklpd(instr) == FixedXmm(instr, "vunpcklpd")
rw_func_vunpckhps(instr) == FixedXmm(instr, "vunpckhps")
rw_func_vunpckhpd(instr) == FixedXmm(instr, "vunpckhpd")
rw_func_vsqrtss(instr)   == FixedXmm(instr, "vsqrtss")
rw_func_vsqrtsd(instr)   == FixedXmm(instr, "vsqrtsd")

\* Scratch registers of the generators that compute in place in cases 5 and 6.
TightAlloc(src1, src2, dst) ==
  LET flag == SpillFlag(src1, src2, dst) IN
  CASE flag = 0 -> Alloc(src1, src2, dst)
    [] flag \in {1, 2} -> OneSpilledSource(src1, src2, dst)
    [] flag = 3 -> LET first == find_one_available_spill(dst)
                   IN  Alloc(first, find_available_spill_avoiding(first, dst, DR_REG_NULL), dst)
    [] flag = 4 -> Alloc(src1, src2, find_available_spill_avoiding(src1, src2, DR_REG_NULL))
    [] flag = 5 -> LET r == find_one_available_spill(src2) IN Alloc(r, src2, r)
    [] flag = 6 -> LET r == find_one_available_spill(src1) IN Alloc(src1, r, r)
    [] flag = 7 -> AllSpilled(src1, src2, dst)

\* What these generators restore: case 3 reloads the first scratch register
\* twice, case 6 reloads src1 instead of the scratch register.
TightRestores(src1, src2, dst, a) ==
  CASE SpillFlag(src1, src2, dst) = 3 -> <<a.src1, a.src1>>
    [] SpillFlag(src1, src2, dst) = 6 -> <<src1>>
    [] OTHER -> Scratch(src1, src2, dst, a)

TightBinop(op, src1, src2, dst) ==
  LET a == TightAlloc(src1, src2, dst) IN
  Saves(Scratch(src1, src2, dst, a), 1)
    \o BinopBody(op, 1, src1, src2, dst, a)
    \o Restores(TightRestores(src1, src2, dst, a), 1)

vpsubd_xmm_and_xmm_gen(src1, src2, dst) == TightBinop("vpsubd", src1, src2, dst)
vpsubq_xmm_and_xmm_gen(src1, src2, dst) == TightBinop("vpsubq", src1, src2, dst)
vpaddw_xmm_and_xmm_gen(src1, src2, dst) == TightBinop("vpaddw", src1, src2, dst)
vpaddd_xmm_and_xmm_gen(src1, src2, dst) == TightBinop("vpaddd", src1, src2, dst)

\* vporq_xmm_and_xmm_gen tells apart which operands are equal, but avoids a low
\* operand only when the destination is one of the sources.
vporq_xmm_and_xmm_gen(src1, src2, dst) ==
  LET flag  == SpillFlag(src1, src2, dst)
      pair  == find_two_available_spills(src1, src2)
      other == IF SLOT0 \in {src2, dst} THEN SLOT1 ELSE SLOT0
      a == CASE src1 = dst /\ NEED_SPILL(dst) /\ NEED_SPILL(src2) -> Alloc(pair[1], pair[2], pair[1])
             [] src1 = dst /\ NEED_SPILL(dst) /\ ~ NEED_SPILL(src2) -> Alloc(other, src2, other)
             [] src2 = dst /\ NEED_SPILL(dst) /\ NEED_SPILL(src1) -> Alloc(pair[1], pair[2], pair[2])
             [] src2 = dst /\ NEED_SPILL(dst) /\ ~ NEED_SPILL(src1) ->
                  LET r == find_available_spill_avoiding(src2, src1, DR_REG_NULL) IN Alloc(src1, r, r)
             [] flag = 0 -> Alloc(src1, src2, dst)
             [] flag = 1 -> Alloc(find_one_available_spill(src1), src2, dst)
             [] flag = 2 -> Alloc(src1, find_one_available_spill(src2), dst)
             [] flag = 3 -> Alloc(pair[1], pair[2], dst)
             [] flag = 4 -> Alloc(src1, src2, find_one_available_spill(dst))
             [] flag = 5 /\ src1 # dst ->
                  LET p == find_two_available_spills(src1, dst) IN Alloc(p[1], src2, p[2])
             [] flag = 6 /\ src2 # dst ->
                  LET p == find_two_available_spills(src2, dst) IN Alloc(src1, p[1], p[2])
      regs == Scratch(src1, src2, dst, a)
      back == IF flag \in {5, 6} /\ Len(regs) = 2 THEN <<regs[2], regs[1]>> ELSE regs
  IN
  CASE src1 = src2 /\ NEED_SPILL(src1) /\ dst # src1 ->
         Bracketed(<<other>>, 1, <<RESTORE_SIMD_FROM_SIZED_TLS(other, src1, 0, 1),
                                   Vex("vpor", dst, <<other, other>>, 1)>>)
    [] flag = 7 /\ (src1 = src2 \/ dst \notin {src1, src2}) -> NULL_INSTR
    [] OTHER -> Saves(regs, 1) \o BinopBody("vpor", 1, src1, src2, dst, a) \o Restores(back, 1)

\* vpmulld and vpandd share a template.  It has no answer for a high second
\* source with a high destination, nor for a high first source with another
\* high register as the destination (ymm) or for three high operands (xmm).
MulAlloc(src1, src2, dst) ==
  LET flag   == SpillFlag(src1, src2, dst)
      Other(src) == find_available_spill_avoiding(src, dst, DR_REG_NULL)
      first  == find_one_available_spill(dst)
  IN
  CASE flag = 0 -> Alloc(src1, src2, dst)
    [] flag = 1 -> Alloc(Other(src2), src2, dst)
    [] flag = 2 -> Alloc(src1, Other(src1), dst)
    [] flag = 3 -> Alloc(first, find_available_spill_avoiding(dst, first, DR_REG_NULL), dst)
    [] flag = 4 -> Alloc(src1, src2, find_available_spill_avoiding(src1, src2, DR_REG_NULL))
    [] flag = 5 -> Alloc(Other(src2), src2, Other(src2))
    [] flag = 6 -> Alloc(src1, Other(src1), Other(src1))

\* The scratch registers are reloaded in the opposite order.
MulBinop(op, n, src1, src2, dst) ==
  LET a == MulAlloc(src1, src2, dst)
      regs == Scratch(src1, src2, dst, a)
      back == [k \in DOMAIN regs |-> regs[Len(regs) + 1 - k]]
  IN  Saves(regs, n) \o BinopBody(op, n, src1, src2, dst, a) \o Restores(back, n)

MulYmm(op, src1, src2, dst) ==
  LET flag == SpillFlag(src1, src2, dst) IN
  IF flag \in {6, 7} \/ (flag = 5 /\ src1 # dst) THEN NULL_INSTR
  ELSE MulBinop(op, 2, src1, src2, dst)

\* Case 1 reloads the xmm scratch register as if it were a ymm register: the
\* index of its slot is 64 too small, outside zmm_regs.
MulXmm(op, src1, src2, dst) ==
  LET flag == SpillFlag(src1, src2, dst)
      a    == MulAlloc(src1, src2, dst)
  IN
  CASE flag = 7 -> NULL_INSTR
    [] flag = 1 -> Saves(<<a.src1>>, 1) \o BinopBody(op, 1, src1, src2, dst, a)
                     \o <<RESTORE_SIMD_FROM_SIZED_TLS(a.src1, a.src1 - 64, 0, 2)>>
    [] OTHER -> MulBinop(op, 1, src1, src2, dst)

vpmulld_ymm_and_ymm_gen(src1, src2, dst) == MulYmm("vpmulld", src1, src2, dst)
vpmulld_xmm_and_xmm_gen(src1, src2, dst) == MulXmm("vpmulld", src1, src2, dst)
vpandd_ymm_and_ymm_gen(src1, src2, dst)  == MulYmm("vpand", src1, src2, dst)
vpandd_xmm_and_xmm_gen(src1, src2, dst)  == MulXmm("vpand", src1, src2, dst)

\* Cases 3 to 6 are not implemented, case 7 only for ymm.
vpsubb_ymm_and_ymm_gen(src1, src2, dst) ==
  LET flag == SpillFlag(src1, src2, dst)
      a == CASE flag = 0 -> Alloc(src1, src2, dst)
             [] flag \in {1, 2} -> OneSpilledSource(src1, src2, dst)
             [] flag = 7 -> Alloc(SLOT0, SLOT1, SLOT0)
  IN  IF flag \in 3 .. 6 THEN NULL_INSTR ELSE Binop("vpsubb", 2, src1, src2, dst, a)

vpsubb_xmm_and_xmm_gen(src1, src2, dst) ==
  LET flag == SpillFlag(src1, src2, dst)
      a == IF flag = 0 THEN Alloc(src1, src2, dst) ELSE OneSpilledSource(src1, src2, dst)
  IN  IF flag > 2 THEN NULL_INSTR ELSE Binop("vpsubb", 1, src1, src2, dst, a)

\* As TightAlloc, but cases 1 and 2 always avoid the destination too, and case
\* 7 ignores equal operands; every scratch register is restored.
vpackuswb_xmm_reg_reg_gen(src1, src2, dst) ==
  LET flag == SpillFlag(src1, src2, dst)
      a == CASE flag = 1 -> Alloc(find_available_spill_avoiding(src2, dst, DR_REG_NULL), src2, dst)
             [] flag = 2 -> Alloc(src1, find_available_spill_avoiding(src1, dst, DR_REG_NULL), dst)
             [] flag = 7 -> Alloc(SLOT0, SLOT1, SLOT0)
             [] OTHER -> TightAlloc(src1, src2, dst)
  IN  Binop("vpackuswb", 1, src1, src2, dst, a)

\* A high register xored with itself is cleared through a scratch register,
\* parked as a ymm register; no other high operand is provided for.
vpxord_xmm_and_xmm_gen(src1, src2, dst) ==
  LET r == find_one_available_spill(src1) IN
  CASE SpillFlag(src1, src2, dst) = 0 -> <<Vex("vpxor", dst, <<src1, src2>>, 1)>>
    [] src1 = src2 /\ src1 = dst /\ NEED_SPILL(dst) ->
         Bracketed(<<r>>, 2, <<Vex("vpxor", r, <<r, r>>, 1), SAVE_SIMD_TO_SIZED_TLS(r, dst, 0, 2)>>)
    [] OTHER -> NULL_INSTR

-----------------------------------------------------------------------------
\* Dispatch on the register class of the operands.

ByWidth(instr, zmm, ymm, xmm) ==
  CASE instr.w = 4 -> zmm [] instr.w = 2 -> ymm [] instr.w = 1 -> xmm

rw_func_vpaddd(instr) ==
  LET src1 == instr_get_src(instr, 1)  src2 == instr_get_src(instr, 2) IN
  ByWidth(instr, vpaddd_zmm_and_zmm_gen(src1, src2, instr.dst),
                 vpaddd_ymm_and_ymm_gen(src1, src2, instr.dst),
                 vpaddd_xmm_and_xmm_gen(src1, src2, instr.dst))

rw_func_vpaddw(instr) ==
  LET src1 == instr_get_src(instr, 1)  src2 == instr_get_src(instr, 2) IN
  ByWidth(instr, NULL_INSTR, vpaddw_ymm_and_ymm_gen(src1, src2, instr.dst),
                 vpaddw_xmm_and_xmm_gen(src1, src2, instr.dst))

rw_func_vpsubd(instr) ==
  LET src1 == instr_get_src(instr, 1)  src2 == instr_get_src(instr, 2) IN
  ByWidth(instr, vpsubd_zmm_and_zmm_gen(src1, src2, instr.dst),
                 vpsubd_ymm_and_ymm_gen(src1, src2, instr.dst),
                 vpsubd_xmm_and_xmm_gen(src1, src2, instr.dst))

rw_func_vpsubq(instr) ==
  LET src1 == instr_get_src(instr, 1)  src2 == instr_get_src(instr, 2) IN
  ByWidth(instr, vpsubq_zmm_and_zmm_gen(src1, src2, instr.dst),
                 vpsubq_ymm_and_ymm_gen(src1, src2, instr.dst),
                 vpsubq_xmm_and_xmm_gen(src1, src2, instr.dst))

rw_func_vpsubw(instr) ==
  LET src1 == instr_get_src(instr, 1)  src2 == instr_get_src(instr, 2) IN
  ByWidth(instr, NULL_INSTR, vpsubw_ymm_and_ymm_gen(src1, src2, instr.dst),
                 vpsubw_xmm_and_xmm_gen(src1, src2, instr.dst))

rw_func_vpaddq(instr) ==
  ByWidth(instr, vpaddq_zmm_reg_reg_gen(instr_get_src(instr, 1), instr_get_src(instr, 2), instr.dst),
                 NULL_INSTR, NULL_INSTR)

rw_func_vporq(instr) ==
  LET src1 == instr_get_src(instr, 1)  src2 == instr_get_src(instr, 2) IN
  ByWidth(instr, vporq_zmm_and_zmm_gen(src1, src2, instr.dst),
                 vporq_ymm_and_ymm_gen(src1, src2, instr.dst),
                 vporq_xmm_and_xmm_gen(src1, src2, instr.dst))

\* The narrow forms emit the operands as they are.  They test the run-time
\* value of k_regs[0], which is 0 until an instruction writes k0.
rw_func_vpxorq(instr) ==
  LET src1 == instr_get_src(instr, 1)  src2 == instr_get_src(instr, 2) IN
  ByWidth(instr, vpxorq_zmm_and_zmm_gen(src1, src2, instr.dst),
                 <<Vex("vpxor", instr.dst, <<src1, src2>>, 2)>>,
                 <<Vex("vpxor", instr.dst, <<src1, src2>>, 1)>>)

rw_func_vpmulld(instr) ==
  LET src1 == instr_get_src(instr, 1)  src2 == instr_get_src(instr, 2) IN
  ByWidth(instr, NULL_INSTR, vpmulld_ymm_and_ymm_gen(src1, src2, instr.dst),
                 vpmulld_xmm_and_xmm_gen(src1, src2, instr.dst))

rw_func_vpandd(instr) ==
  LET src1 == instr_get_src(instr, 1)  src2 == instr_get_src(instr, 2) IN
  ByWidth(instr, NULL_INSTR, vpandd_ymm_and_ymm_gen(src1, src2, instr.dst),
                 vpandd_xmm_and_xmm_gen(src1, src2, instr.dst))

rw_func_vpsubb(instr) ==
  LET src1 == instr_get_src(instr, 1)  src2 == instr_get_src(instr, 2) IN
  ByWidth(instr, NULL_INSTR, vpsubb_ymm_and_ymm_gen(src1, src2, instr.dst),
                 vpsubb_xmm_and_xmm_gen(src1, src2, instr.dst))

rw_func_vpackuswb(instr) ==
  ByWidth(instr, NULL_INSTR, NULL_INSTR,
          vpackuswb_xmm_reg_reg_gen(instr_get_src(instr, 1), instr_get_src(instr, 2), instr.dst))

\* The ymm form emits the operands as they are.
rw_func_vpxord(instr) ==
  LET src1 == instr_get_src(instr, 1)  src2 == instr_get_src(instr, 2) IN
  ByWidth(instr, NULL_INSTR, <<Vex("vpxor", instr.dst, <<src1, src2>>, 2)>>,
                 vpxord_xmm_and_xmm_gen(src1, src2, instr.dst))

-----------------------------------------------------------------------------
\* One-source instructions on xmm registers.

\* Variant: the scratch registers are not saved first.
UnaryUnsaved(op, n, src, dst, rs, rd) ==
  LET own == NEED_SPILL(dst) /\ ~ (NEED_SPILL(src) /\ rd = rs) IN
  When(NEED_SPILL(src), <<RESTORE_SIMD_FROM_SIZED_TLS(rs, src, 0, n)>>)
    \o <<Vex(op, rd, <<rs>>, n)>>
    \o When(NEED_SPILL(dst), <<SAVE_SIMD_TO_SIZED_TLS(rd, dst, 0, n)>>)
    \o Restores(When(NEED_SPILL(src), <<rs>>) \o When(own, <<rd>>), n)

\* rs and rd stand for the operands, as in an allocation.
UnaryBody(op, n, src, dst, rs, rd) ==
  When(NEED_SPILL(src), <<RESTORE_SIMD_FROM_SIZED_TLS(rs, src, 0, n)>>)
    \o <<Vex(op, rd, <<rs>>, n)>>
    \o When(NEED_SPILL(dst), <<SAVE_SIMD_TO_SIZED_TLS(rd, dst, 0, n)>>)

Unary(op, n, src, dst, rs, rd) ==
  LET own == NEED_SPILL(dst) /\ ~ (NEED_SPILL(src) /\ rd = rs) IN
  Bracketed(When(NEED_SPILL(src), <<rs>>) \o When(own, <<rd>>), n,
            UnaryBody(op, n, src, dst, rs, rd))

\* These functions take source 0.  For an encoding with a mask operand
\* (everything here but vcvttss2si and the memory forms) that is the mask.
UnaryXmm(instr, op) ==
  LET src == instr_get_src(instr, 0) IN
  Unary(op, 1, src, instr.dst,
        IF ~ NEED_SPILL(src) THEN src
        ELSE IF NEED_SPILL(instr.dst) THEN SLOT0 ELSE find_one_available_spill(instr.dst),
        IF ~ NEED_SPILL(instr.dst) THEN instr.dst
        ELSE IF NEED_SPILL(src) THEN SLOT1 ELSE SLOT0)

rw_func_vmovups(instr)    == UnaryXmm(instr, "mov")
rw_func_vmovupd(instr)    == UnaryXmm(instr, "mov")
rw_func_vmovapd(instr)    == UnaryXmm(instr, "mov")
rw_func_vmovsldup(instr)  == UnaryXmm(instr, "vmovsldup")
rw_func_vmovshdup(instr)  == UnaryXmm(instr, "vmovshdup")
rw_func_vmovddup(instr)   == UnaryXmm(instr, "vmovddup")
rw_func_vsqrtps(instr)    == UnaryXmm(instr, "vsqrtps")
rw_func_vsqrtpd(instr)    == UnaryXmm(instr, "vsqrtpd")
rw_func_vcvttss2si(instr) == UnaryXmm(instr, "vcvttss2si")

\* The other scalar conversions load the source into the first pool register
\* without saving it.
ConvertToGpr(instr, op) ==
  LET src == instr_get_src(instr, 0) IN
  IF NEED_SPILL(src)
  THEN <<RESTORE_SIMD_FROM_SIZED_TLS(SLOT0, src, 0, 1), Vex(op, instr.dst, <<SLOT0>>, 1)>>
  ELSE <<Vex(op, instr.dst, <<src>>, 1)>>

rw_func_vcvttsd2si(instr) == ConvertToGpr(instr, "vcvttsd2si")
rw_func_vcvtss2si(instr)  == ConvertToGpr(instr, "vcvtss2si")
rw_func_vcvtsd2si(instr)  == ConvertToGpr(instr, "vcvtsd2si")

\* Variant: the scratch register for a high source may be the other source.
CompareXmmConflict(instr, op) ==
  LET src1 == instr_get_src(instr, 0)
      src2 == instr_get_src(instr, 1)
      a == Alloc(IF NEED_SPILL(src1) THEN SLOT0 ELSE src1,
                 IF ~ NEED_SPILL(src2) THEN src2
                 ELSE IF NEED_SPILL(src1) THEN SLOT1 ELSE SLOT0, FLAGS)
  IN  Binop(op, 1, src1, src2, FLAGS, a)

\* Scalar comparisons write only the flags.
CompareXmm(instr, op) ==
  LET src1 == instr_get_src(instr, 0)
      src2 == instr_get_src(instr, 1)
      a == CASE SpillFlag(src1, src2, FLAGS) = 0 -> Alloc(src1, src2, FLAGS)
             [] SpillFlag(src1, src2, FLAGS) = 1 ->
                  Alloc(find_one_available_spill(src2), src2, FLAGS)
             [] SpillFlag(src1, src2, FLAGS) = 2 ->
                  Alloc(src1, find_one_available_spill(src1), FLAGS)
             [] SpillFlag(src1, src2, FLAGS) = 3 -> Alloc(SLOT0, SLOT1, FLAGS)
  IN  Binop(op, 1, src1, src2, FLAGS, a)

rw_func_vucomiss(instr) == CompareXmm(instr, "vucomiss")
rw_func_vucomisd(instr) == CompareXmm(instr, "vucomisd")
rw_func_vcomiss(instr)  == CompareXmm(instr, "vcomiss")
rw_func_vcomisd(instr)  == CompareXmm(instr, "vcomisd")
-----------------------------------------------------------------------------
\* Shifts by an immediate.  The sources are the mask, the immediate and the
\* register to shift; vpsrldq has no mask.

\* The register that stands for an operand when r is its scratch register.
StandIn(reg, r) == IF NEED_SPILL(reg) THEN r ELSE reg

\* One scratch register; with two high operands it stands for both.
OneScratch(op, n, src, dst) ==
  LET r == IF NEED_SPILL(dst)
           THEN IF NEED_SPILL(src) THEN SLOT0 ELSE find_one_available_spill(src)
           ELSE find_one_available_spill(dst)
  IN  Unary(op, n, src, dst, StandIn(src, r), StandIn(dst, r))

vpsrlq_ymm_imm_reg_gen(src, dst) == OneScratch("vpsrlq", 2, src, dst)
vpsllw_immed2ymm_gen(src, dst)   == OneScratch("vpsllw", 2, src, dst)

\* Two scratch registers for two different high operands, the destination's
\* first.
TwoScratch(op, n, src, dst) ==
  IF NEED_SPILL(src) /\ NEED_SPILL(dst) /\ src # dst
  THEN Bracketed(<<SLOT0, SLOT1>>, n, UnaryBody(op, n, src, dst, SLOT1, SLOT0))
  ELSE OneScratch(op, n, src, dst)

vpslld_immed2ymm_gen(src, dst) == TwoScratch("vpslld", 2, src, dst)
vpsllq_immed2xmm_gen(src, dst) == TwoScratch("vpsllq", 1, src, dst)

\* Here a high destination's scratch register is picked without regard to the
\* source, which it may be: the shift is then in place.
vpslld_immed2xmm_gen(src, dst) ==
  LET r == find_one_available_spill(dst)
  IN  Unary("vpslld", 1, src, dst, StandIn(src, r), StandIn(dst, r))

ShiftRight(n, src, dst) ==
  LET r == find_one_available_spill(dst) IN
  IF NEED_SPILL(src) /\ NEED_SPILL(dst)
  THEN Saves(<<SLOT0, SLOT1>>, n) \o UnaryBody("vpsrad", n, src, dst, SLOT0, SLOT1)
         \o Restores(<<SLOT1, SLOT0>>, n)
  ELSE Unary("vpsrad", n, src, dst, StandIn(src, r), StandIn(dst, r))

vpsrad_ymm2ymm_gen(src, dst) == ShiftRight(2, src, dst)
vpsrad_xmm2xmm_gen(src, dst) == ShiftRight(1, src, dst)

vpsrldq_xmm2xmm_gen(src, dst) ==
  LET pair == find_two_available_spills(src, dst) IN
  IF NEED_SPILL(src) /\ NEED_SPILL(dst) THEN Unary("vpsrldq", 1, src, dst, pair[1], pair[2])
  ELSE OneScratch("vpsrldq", 1, src, dst)

\* The memory operand is loaded first: the VEX shift has no memory form.
vpsrldq_disp2xmm_gen(mem, dst) ==
  LET r    == find_one_available_spill(dst)
      pair == find_two_available_spills(dst, DR_REG_NULL)
  IN
  IF NEED_SPILL(dst)
  THEN Bracketed(pair, 1, <<Load(pair[2], mem, 0, 1), Vex("vpsrldq", pair[1], <<pair[2]>>, 1),
                            SAVE_SIMD_TO_SIZED_TLS(pair[1], dst, 0, 1)>>)
  ELSE Bracketed(<<r>>, 1, <<Load(r, mem, 0, 1), Vex("vpsrldq", dst, <<r>>, 1)>>)

ByImmediate(instr, imm, reg) == IF instr_get_src(instr, 1) = IMM THEN imm ELSE reg

\* The forms that emit their register operands as they are.
ShiftAsIs(instr, op) ==
  <<Vex(op, instr.dst, SelectSeq(SubSeq(instr.srcs, 2, 3), LAMBDA o : o # IMM), instr.w)>>

rw_func_vpsrlq(instr) ==
  ByImmediate(instr,
    ByWidth(instr, NULL_INSTR, vpsrlq_ymm_imm_reg_gen(instr_get_src(instr, 2), instr.dst), NULL_INSTR),
    NULL_INSTR)

rw_func_vpsrad(instr) ==
  LET src == instr_get_src(instr, 2) IN
  ByWidth(instr, NULL_INSTR, vpsrad_ymm2ymm_gen(src, instr.dst), vpsrad_xmm2xmm_gen(src, instr.dst))

rw_func_vpsllw(instr) ==
  ByImmediate(instr,
    ByWidth(instr, NULL_INSTR, vpsllw_immed2ymm_gen(instr_get_src(instr, 2), instr.dst), NULL_INSTR),
    ByWidth(instr, NULL_INSTR, ShiftAsIs(instr, "vpsllw"), ShiftAsIs(instr, "vpsllw")))

rw_func_vpslld(instr) ==
  LET src == instr_get_src(instr, 2) IN
  ByImmediate(instr,
    ByWidth(instr, NULL_INSTR, vpslld_immed2ymm_gen(src, instr.dst), vpslld_immed2xmm_gen(src, instr.dst)),
    ByWidth(instr, NULL_INSTR, ShiftAsIs(instr, "vpslld"), ShiftAsIs(instr, "vpslld")))

\* The zmm forms and the ymm form by a register are answered with themselves
\* when all operands are low, the ymm form by an immediate always.
rw_func_vpsllq(instr) ==
  LET src1 == instr_get_src(instr, 1)
      src2 == instr_get_src(instr, 2)
      asIs == When(SpillFlag(src1, src2, instr.dst) = 0, ShiftAsIs(instr, "vpsllq"))
  IN  ByImmediate(instr,
        ByWidth(instr, asIs, ShiftAsIs(instr, "vpsllq"), vpsllq_immed2xmm_gen(src2, instr.dst)),
        ByWidth(instr, asIs, asIs, vpsllq_xmm2xmm_gen(src1, src2, instr.dst)))

\* The ymm forms emit the operand as it is, memory included.
rw_func_vpsrldq(instr) ==
  LET src == instr_get_src(instr, 1) IN
  ByWidth(instr, NULL_INSTR, <<Vex("vpsrldq", instr.dst, <<src>>, 2)>>,
          IF src = MEM THEN vpsrldq_disp2xmm_gen(src, instr.dst)
                       ELSE vpsrldq_xmm2xmm_gen(src, instr.dst))
-----------------------------------------------------------------------------
\* Rotates of 64-bit elements by an immediate, reduced modulo 64 first: the
\* source shifted left, or'ed with the source shifted right by the rest of 64.

Shifts(op) == CASE op = "vprolq" -> [left |-> "vpsllq imm", right |-> "vpsrlq 64-imm"]
                [] op = "vprorq" -> [left |-> "vpsllq 64-imm", right |-> "vpsrlq imm"]

\* sll and srl hold the source.
RotateInto(op, n, dst, sll, srl) ==
  <<Vex(Shifts(op).left, sll, <<sll>>, n), Vex(Shifts(op).right, srl, <<srl>>, n),
    Vex("vpor", dst, <<srl, sll>>, n)>>

\* The destination is not avoided, and high registers are emitted as they are.
RotateNarrow(op, n, src, dst, sll, srl) ==
  Bracketed(<<sll, srl>>, n,
    <<Vex("mov", sll, <<src>>, n), Vex("mov", srl, <<src>>, n)>> \o RotateInto(op, n, dst, sll, srl))

RotateXmm(op, src, dst) == RotateNarrow(op, 1, src, dst, 14, 15)

RotateYmm(op, src, dst) ==
  LET sll == find_one_available_spill(src)
  IN  RotateNarrow(op, 2, src, dst, sll, find_available_spill_avoiding(src, sll, DR_REG_NULL))

\* The ymm selector is asked to avoid the two zmm registers, which are not in
\* its pool: the answer is always the first two pool registers.
RotateZmm(op, src, dst) ==
  LET copy == Vex("mov", SLOT1, <<SLOT0>>, 2) IN
  Bracketed(<<SLOT0, SLOT1>>, 2,
    (IF NEED_SPILL(src) THEN <<RESTORE_SIMD_FROM_SIZED_TLS(SLOT0, src, 0, 2), copy>>
     ELSE <<Vex("mov", SLOT0, <<src>>, 2), Vex("mov", SLOT1, <<src>>, 2)>>)
      \o RotateInto(op, 2, StandIn(dst, SLOT0), SLOT0, SLOT1)
      \o When(NEED_SPILL(dst), <<SAVE_SIMD_TO_SIZED_TLS(SLOT0, dst, 0, 2)>>)
      \o <<RESTORE_SIMD_FROM_SIZED_TLS(SLOT0, src, 1, 2), copy>>
      \o RotateInto(op, 2, SLOT0, SLOT0, SLOT1)
      \o <<SAVE_SIMD_TO_SIZED_TLS(SLOT0, dst, 1, 2)>>)

vprolq_xmm_and_immed_gen(src, dst) == RotateXmm("vprolq", src, dst)
vprolq_ymm_and_immed_gen(src, dst) == RotateYmm("vprolq", src, dst)
vprolq_zmm_and_immed_gen(src, dst) == RotateZmm("vprolq", src, dst)
vprorq_xmm_and_immed_gen(src, dst) == RotateXmm("vprorq", src, dst)
vprorq_ymm_and_immed_gen(src, dst) == RotateYmm("vprorq", src, dst)
vprorq_zmm_and_immed_gen(src, dst) == RotateZmm("vprorq", src, dst)

rw_func_vprolq(instr) ==
  LET src == instr_get_src(instr, 2) IN
  ByImmediate(instr, ByWidth(instr, vprolq_zmm_and_immed_gen(src, instr.dst),
                                    vprolq_ymm_and_immed_gen(src, instr.dst),
                                    vprolq_xmm_and_immed_gen(src, instr.dst)), NULL_INSTR)

rw_func_vprorq(instr) ==
  LET src == instr_get_src(instr, 2) IN
  ByImmediate(instr, ByWidth(instr, vprorq_zmm_and_immed_gen(src, instr.dst),
                                    vprorq_ymm_and_immed_gen(src, instr.dst),
                                    vprorq_xmm_and_immed_gen(src, instr.dst)), NULL_INSTR)
=============================================================================
