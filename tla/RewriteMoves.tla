---------------------------- MODULE RewriteMoves ----------------------------
(***************************************************************************)
(* The full-register moves of core/arch/rewrite.c (vmovaps and the         *)
(* vmovdqu and vmovdqa families), and the table of rewrite functions that  *)
(* exec_rewrite_avx512_instr indexes by opcode.                            *)
(***************************************************************************)
EXTENDS RewriteFuncs

-----------------------------------------------------------------------------
\* Register to register.

\* A low source and a low destination, or two high ones, go through scratch
\* registers; the mixed cases have no code.
vmovaps_zmm_reg2reg_gen(src1, dst) ==
  LET src1_upper == find_available_spill_avoiding(src1, dst, DR_REG_NULL)
      dst_upper  == find_available_spill_avoiding(src1, src1_upper, dst)
      four       == <<SLOT0, SLOT1, SLOT0, SLOT1>>
  IN
  CASE ~ NEED_SPILL(src1) /\ ~ NEED_SPILL(dst) ->
         Bracketed(<<src1_upper, dst_upper>>, 2,
           <<RESTORE_SIMD_FROM_SIZED_TLS(src1_upper, src1, 1, 2),
             RESTORE_SIMD_FROM_SIZED_TLS(dst_upper, dst, 1, 2),
             Vex("mov", dst, <<src1>>, 2),
             Vex("mov", dst_upper, <<src1_upper>>, 2),
             SAVE_SIMD_TO_SIZED_TLS(dst, dst, 0, 2),
             SAVE_SIMD_TO_SIZED_TLS(dst_upper, dst, 1, 2)>>)
    [] NEED_SPILL(src1) /\ NEED_SPILL(dst) ->
         Bracketed(four, 2,
           <<RESTORE_SIMD_FROM_SIZED_TLS(SLOT0, src1, 0, 2),
             RESTORE_SIMD_FROM_SIZED_TLS(SLOT1, src1, 1, 2),
             Vex("mov", SLOT0, <<SLOT0>>, 2),
             Vex("mov", SLOT1, <<SLOT1>>, 2),
             SAVE_SIMD_TO_SIZED_TLS(SLOT0, dst, 0, 2),
             SAVE_SIMD_TO_SIZED_TLS(SLOT1, dst, 1, 2)>>)
    [] OTHER -> NULL_INSTR

\* One scratch register; with two high operands it stands for both.
NarrowMove(n, src1, dst) == OneScratch("mov", n, src1, dst)

vmovaps_ymm_reg2reg_gen(src1, dst) == NarrowMove(2, src1, dst)
vmovaps_xmm_reg2reg_gen(src1, dst) == NarrowMove(1, src1, dst)

\* The vmovdqu family moves the upper half through one scratch register,
\* straight from slot to slot.
ZmmMove(src, dst) ==
  LET r == CASE NEED_SPILL(src) /\ NEED_SPILL(dst)   -> SLOT0
             [] NEED_SPILL(src) /\ ~ NEED_SPILL(dst) -> find_one_available_spill(dst)
             [] ~ NEED_SPILL(src) /\ NEED_SPILL(dst) -> find_one_available_spill(src)
             [] OTHER -> find_available_spill_avoiding(src, dst, DR_REG_NULL)
      low == IF NEED_SPILL(src) THEN r ELSE src
  IN  Bracketed(<<r>>, 2,
        When(NEED_SPILL(src), <<RESTORE_SIMD_FROM_SIZED_TLS(r, src, 0, 2)>>)
          \o (IF NEED_SPILL(dst) THEN <<SAVE_SIMD_TO_SIZED_TLS(low, dst, 0, 2)>>
                                 ELSE <<Vex("mov", dst, <<low>>, 2)>>)
          \o <<RESTORE_SIMD_FROM_SIZED_TLS(r, src, 1, 2),
               SAVE_SIMD_TO_SIZED_TLS(r, dst, 1, 2)>>)

vmovdqu64_zmm_reg2reg_gen(src, dst) == ZmmMove(src, dst)
vmovdqu32_zmm_reg2reg_gen(src, dst) == ZmmMove(src, dst)
vmovdqu16_zmm_reg2reg_gen(src, dst) == ZmmMove(src, dst)
vmovdqu8_zmm_reg2reg_gen(src, dst)  == ZmmMove(src, dst)

\* Variant: high registers are emitted as they are.
SlotMoveAsIs(n, src, dst) == <<Vex("mov", dst, <<src>>, n)>>

\* Narrower members of the family copy between a register and a slot.
SlotMove(n, src, dst) ==
  CASE ~ NEED_SPILL(src) /\ ~ NEED_SPILL(dst) -> <<Vex("mov", dst, <<src>>, n)>>
    [] NEED_SPILL(src) /\ ~ NEED_SPILL(dst) -> <<RESTORE_SIMD_FROM_SIZED_TLS(dst, src, 0, n)>>
    [] ~ NEED_SPILL(src) /\ NEED_SPILL(dst) -> <<SAVE_SIMD_TO_SIZED_TLS(src, dst, 0, n)>>
    [] OTHER -> Bracketed(<<SLOT0>>, n, <<RESTORE_SIMD_FROM_SIZED_TLS(SLOT0, src, 0, n),
                                          SAVE_SIMD_TO_SIZED_TLS(SLOT0, dst, 0, n)>>)

vmovdqu64_ymm_reg2reg_gen(src, dst) == SlotMove(2, src, dst)
vmovdqu64_xmm_reg2reg_gen(src, dst) == SlotMove(1, src, dst)
vmovdqu32_ymm_reg2reg_gen(src, dst) == SlotMove(2, src, dst)
vmovdqu32_xmm_reg2reg_gen(src, dst) == SlotMove(1, src, dst)
vmovdqu8_ymm_reg2reg_gen(src, dst)  == SlotMove(2, src, dst)
vmovdqu8_xmm_reg2reg_gen(src, dst)  == SlotMove(1, src, dst)

\* No provision for high registers.
vmovdqu16_ymm_reg2reg_gen(src, dst) == <<Vex("mov", dst, <<src>>, 2)>>
vmovdqu16_xmm_reg2reg_gen(src, dst) == <<Vex("mov", dst, <<src>>, 1)>>

-----------------------------------------------------------------------------
\* Register to memory.

\* "reload" is the extra load of a low source from its own slot.
ZmmStore(mem, src, reload) ==
  LET up == find_one_available_spill(src) IN
  IF NEED_SPILL(src)
  THEN Bracketed(<<SLOT0, SLOT1>>, 2,
         <<RESTORE_SIMD_FROM_SIZED_TLS(SLOT0, src, 0, 2),
           RESTORE_SIMD_FROM_SIZED_TLS(SLOT1, src, 1, 2),
           Store(mem, 0, SLOT0, 2), Store(mem, 1, SLOT1, 2)>>)
  ELSE Bracketed(<<up>>, 2,
         <<RESTORE_SIMD_FROM_SIZED_TLS(up, src, 1, 2)>>
           \o When(reload, <<RESTORE_SIMD_FROM_SIZED_TLS(src, src, 0, 2)>>)
           \o <<Store(mem, 0, src, 2), Store(mem, 1, up, 2)>>)

\* Variant: the low half is reloaded from the scratch half of its slot.
vmovaps_zmm_reg2disp_reload(src1, mem) == ZmmStore(mem, src1, TRUE)

vmovaps_zmm_reg2disp_gen(src1, mem)      == ZmmStore(mem, src1, FALSE)
vmovdqu64_zmm_reg2disp_gen(src, mem)     == ZmmStore(mem, src, FALSE)
vmovdqu32_zmm_reg2disp_gen(src, mem)     == ZmmStore(mem, src, TRUE)
vmovdqu16_zmm_reg2disp_gen(src, mem)     == ZmmStore(mem, src, TRUE)
vmovdqu8_zmm_reg2disp_gen(src, mem)      == ZmmStore(mem, src, TRUE)
vmovdqu64_zmm_reg2reladdr_gen(src, mem)  == ZmmStore(mem, src, TRUE)

\* Variant: the scratch register is neither saved nor restored.
NarrowStoreUnsaved(mem, n, src) ==
  IF NEED_SPILL(src) THEN <<RESTORE_SIMD_FROM_SIZED_TLS(SLOT0, src, 0, n), Store(mem, 0, SLOT0, n)>>
                     ELSE <<Store(mem, 0, src, n)>>

NarrowStore(mem, n, src) ==
  IF NEED_SPILL(src)
  THEN Bracketed(<<SLOT0>>, n, <<RESTORE_SIMD_FROM_SIZED_TLS(SLOT0, src, 0, n),
                                 Store(mem, 0, SLOT0, n)>>)
  ELSE <<Store(mem, 0, src, n)>>

vmovaps_ymm_reg2disp_gen(src1, mem)  == NarrowStore(mem, 2, src1)
vmovaps_xmm_reg2disp_gen(src1, mem)  == NarrowStore(mem, 1, src1)
vmovdqu64_ymm_reg2disp_gen(src, mem) == NarrowStore(mem, 2, src)
vmovdqu64_xmm_reg2disp_gen(src, mem) == NarrowStore(mem, 1, src)
vmovdqu32_ymm_reg2disp_gen(src, mem) == NarrowStore(mem, 2, src)
vmovdqu32_xmm_reg2disp_gen(src, mem) == NarrowStore(mem, 1, src)
vmovdqu8_ymm_reg2disp_gen(src, mem)  == NarrowStore(mem, 2, src)
vmovdqu8_xmm_reg2disp_gen(src, mem)  == NarrowStore(mem, 1, src)

\* No provision for high registers.
vmovdqu16_ymm_reg2disp_gen(src, mem)    == <<Store(mem, 0, src, 2)>>
vmovdqu16_xmm_reg2disp_gen(src, mem)    == <<Store(mem, 0, src, 1)>>
vmovdqu64_ymm_reg2reladdr_gen(src, mem) == <<Store(mem, 0, src, 2)>>
vmovdqu64_xmm_reg2reladdr_gen(src, mem) == <<Store(mem, 0, src, 1)>>

-----------------------------------------------------------------------------
\* Memory to register.

vmovaps_zmm_disp2reg_gen(mem, dst) ==
  LET low == IF NEED_SPILL(dst) THEN SLOT0 ELSE dst
      up  == IF NEED_SPILL(dst) THEN SLOT1 ELSE find_one_available_spill(dst)
  IN  Bracketed(When(NEED_SPILL(dst), <<low>>) \o <<up>>, 2,
        <<Load(low, mem, 0, 2), Load(up, mem, 1, 2),
          SAVE_SIMD_TO_SIZED_TLS(low, dst, 0, 2), SAVE_SIMD_TO_SIZED_TLS(up, dst, 1, 2)>>)

ZmmLoad(mem, dst) ==
  LET r == IF NEED_SPILL(dst) THEN SLOT0 ELSE find_one_available_spill(dst) IN
  Bracketed(<<r>>, 2,
    (IF NEED_SPILL(dst) THEN <<Load(r, mem, 0, 2), SAVE_SIMD_TO_SIZED_TLS(r, dst, 0, 2)>>
                        ELSE <<Load(dst, mem, 0, 2)>>)
      \o <<Load(r, mem, 1, 2), SAVE_SIMD_TO_SIZED_TLS(r, dst, 1, 2)>>)

vmovdqu64_zmm_disp2reg_gen(mem, dst) == ZmmLoad(mem, dst)
vmovdqu32_zmm_disp2reg_gen(mem, dst) == ZmmLoad(mem, dst)
vmovdqu16_zmm_disp2reg_gen(mem, dst) == ZmmLoad(mem, dst)
vmovdqu8_zmm_disp2reg_gen(mem, dst)  == ZmmLoad(mem, dst)

\* Variant: the value never reaches the slot of a high destination.
NarrowLoadUncommitted(mem, n, dst) ==
  IF NEED_SPILL(dst) THEN Bracketed(<<SLOT0>>, n, <<Load(SLOT0, mem, 0, n)>>)
                     ELSE <<Load(dst, mem, 0, n)>>

NarrowLoad(mem, n, dst) ==
  IF NEED_SPILL(dst)
  THEN Bracketed(<<SLOT0>>, n, <<Load(SLOT0, mem, 0, n), SAVE_SIMD_TO_SIZED_TLS(SLOT0, dst, 0, n)>>)
  ELSE <<Load(dst, mem, 0, n)>>

vmovaps_ymm_disp2reg_gen(mem, dst)   == NarrowLoad(mem, 2, dst)
vmovaps_xmm_disp2reg_gen(mem, dst)   == NarrowLoad(mem, 1, dst)
vmovdqu64_ymm_disp2reg_gen(mem, dst) == NarrowLoad(mem, 2, dst)
vmovdqu64_xmm_disp2reg_gen(mem, dst) == NarrowLoad(mem, 1, dst)
vmovdqu32_ymm_disp2reg_gen(mem, dst) == NarrowLoad(mem, 2, dst)
vmovdqu16_ymm_disp2reg_gen(mem, dst) == NarrowLoad(mem, 2, dst)
vmovdqu16_xmm_disp2reg_gen(mem, dst) == NarrowLoad(mem, 1, dst)
vmovdqu8_ymm_disp2reg_gen(mem, dst)  == NarrowLoad(mem, 2, dst)
vmovdqu8_xmm_disp2reg_gen(mem, dst)  == NarrowLoad(mem, 1, dst)
vmovdqu64_xmm_reladdr2reg_gen(mem, dst) == NarrowLoad(mem, 1, dst)

\* No provision for high registers.
vmovdqu32_xmm_disp2reg_gen(mem, dst)    == <<Load(dst, mem, 0, 1)>>
vmovdqu64_ymm_reladdr2reg_gen(mem, dst) == <<Load(dst, mem, 0, 2)>>

-----------------------------------------------------------------------------
\* Dispatch on operand kinds.  Rip-relative operands are covered for the
\* 64-bit element size only; absolute addresses are not covered.

rw_func_vmovaps(instr) ==
  LET src1 == instr_get_src(instr, 1)  dst == instr.dst IN
  CASE src1 = MEM -> ByWidth(instr, vmovaps_zmm_disp2reg_gen(src1, dst),
                                    vmovaps_ymm_disp2reg_gen(src1, dst),
                                    vmovaps_xmm_disp2reg_gen(src1, dst))
    [] dst = MEM  -> ByWidth(instr, vmovaps_zmm_reg2disp_gen(src1, dst),
                                    vmovaps_ymm_reg2disp_gen(src1, dst),
                                    vmovaps_xmm_reg2disp_gen(src1, dst))
    [] OTHER      -> ByWidth(instr, vmovaps_zmm_reg2reg_gen(src1, dst),
                                    vmovaps_ymm_reg2reg_gen(src1, dst),
                                    vmovaps_xmm_reg2reg_gen(src1, dst))

rw_func_vmovdqu64(instr) ==
  LET src == instr_get_src(instr, 1)  dst == instr.dst IN
  CASE src = MEM -> ByWidth(instr, vmovdqu64_zmm_disp2reg_gen(src, dst),
                                   vmovdqu64_ymm_disp2reg_gen(src, dst),
                                   vmovdqu64_xmm_disp2reg_gen(src, dst))
    [] dst = MEM -> ByWidth(instr, vmovdqu64_zmm_reg2disp_gen(src, dst),
                                   vmovdqu64_ymm_reg2disp_gen(src, dst),
                                   vmovdqu64_xmm_reg2disp_gen(src, dst))
    [] src = REL -> ByWidth(instr, NULL_INSTR, vmovdqu64_ymm_reladdr2reg_gen(src, dst),
                                   vmovdqu64_xmm_reladdr2reg_gen(src, dst))
    [] dst = REL -> ByWidth(instr, vmovdqu64_zmm_reg2reladdr_gen(src, dst),
                                   vmovdqu64_ymm_reg2reladdr_gen(src, dst),
                                   vmovdqu64_xmm_reg2reladdr_gen(src, dst))
    [] OTHER     -> ByWidth(instr, vmovdqu64_zmm_reg2reg_gen(src, dst),
                                   vmovdqu64_ymm_reg2reg_gen(src, dst),
                                   vmovdqu64_xmm_reg2reg_gen(src, dst))

rw_func_vmovdqu32(instr) ==
  LET src == instr_get_src(instr, 1)  dst == instr.dst IN
  CASE src = MEM -> ByWidth(instr, vmovdqu32_zmm_disp2reg_gen(src, dst),
                                   vmovdqu32_ymm_disp2reg_gen(src, dst),
                                   vmovdqu32_xmm_disp2reg_gen(src, dst))
    [] dst = MEM -> ByWidth(instr, vmovdqu32_zmm_reg2disp_gen(src, dst),
                                   vmovdqu32_ymm_reg2disp_gen(src, dst),
                                   vmovdqu32_xmm_reg2disp_gen(src, dst))
    [] OTHER     -> ByWidth(instr, vmovdqu32_zmm_reg2reg_gen(src, dst),
                                   vmovdqu32_ymm_reg2reg_gen(src, dst),
                                   vmovdqu32_xmm_reg2reg_gen(src, dst))

rw_func_vmovdqu16(instr) ==
  LET src == instr_get_src(instr, 1)  dst == instr.dst IN
  CASE src = MEM -> ByWidth(instr, vmovdqu16_zmm_disp2reg_gen(src, dst),
                                   vmovdqu16_ymm_disp2reg_gen(src, dst),
                                   vmovdqu16_xmm_disp2reg_gen(src, dst))
    [] dst = MEM -> ByWidth(instr, vmovdqu16_zmm_reg2disp_gen(src, dst),
                                   vmovdqu16_ymm_reg2disp_gen(src, dst),
                                   vmovdqu16_xmm_reg2disp_gen(src, dst))
    [] OTHER     -> ByWidth(instr, vmovdqu16_zmm_reg2reg_gen(src, dst),
                                   vmovdqu16_ymm_reg2reg_gen(src, dst),
                                   vmovdqu16_xmm_reg2reg_gen(src, dst))

rw_func_vmovdqu8(instr) ==
  LET src == instr_get_src(instr, 1)  dst == instr.dst IN
  CASE src = MEM -> ByWidth(instr, vmovdqu8_zmm_disp2reg_gen(src, dst),
                                   vmovdqu8_ymm_disp2reg_gen(src, dst),
                                   vmovdqu8_xmm_disp2reg_gen(src, dst))
    [] dst = MEM -> ByWidth(instr, vmovdqu8_zmm_reg2disp_gen(src, dst),
                                   vmovdqu8_ymm_reg2disp_gen(src, dst),
                                   vmovdqu8_xmm_reg2disp_gen(src, dst))
    [] OTHER     -> ByWidth(instr, vmovdqu8_zmm_reg2reg_gen(src, dst),
                                   vmovdqu8_ymm_reg2reg_gen(src, dst),
                                   vmovdqu8_xmm_reg2reg_gen(src, dst))

\* The aligned moves call the generators of the unaligned ones.
rw_func_vmovdqa64(instr) == rw_func_vmovdqu64(instr)
rw_func_vmovdqa32(instr) == rw_func_vmovdqu32(instr)

-----------------------------------------------------------------------------
\* The entries of rewrite_funcs that are modelled.
exec_rewrite_avx512_instr(instr) ==
  CASE instr.op = "vmovss"      -> rw_func_vmovss(instr)
    [] instr.op = "vmovsd"      -> rw_func_vmovsd(instr)
    [] instr.op = "vunpcklps"   -> rw_func_vunpcklps(instr)
    [] instr.op = "vunpcklpd"   -> rw_func_vunpcklpd(instr)
    [] instr.op = "vunpckhps"   -> rw_func_vunpckhps(instr)
    [] instr.op = "vunpckhpd"   -> rw_func_vunpckhpd(instr)
    [] instr.op = "vsqrtss"     -> rw_func_vsqrtss(instr)
    [] instr.op = "vsqrtsd"     -> rw_func_vsqrtsd(instr)
    [] instr.op = "vpaddd"      -> rw_func_vpaddd(instr)
    [] instr.op = "vpaddw"      -> rw_func_vpaddw(instr)
    [] instr.op = "vpaddq"      -> rw_func_vpaddq(instr)
    [] instr.op = "vpsubd"      -> rw_func_vpsubd(instr)
    [] instr.op = "vpsubw"      -> rw_func_vpsubw(instr)
    [] instr.op = "vpsubq"      -> rw_func_vpsubq(instr)
    [] instr.op = "vporq"       -> rw_func_vporq(instr)
    [] instr.op = "vpxorq"      -> rw_func_vpxorq(instr)
    [] instr.op = "vpsubb"      -> rw_func_vpsubb(instr)
    [] instr.op = "vpmulld"     -> rw_func_vpmulld(instr)
    [] instr.op = "vpandd"      -> rw_func_vpandd(instr)
    [] instr.op = "vpackuswb"   -> rw_func_vpackuswb(instr)
    [] instr.op = "vpxord"      -> rw_func_vpxord(instr)
    [] instr.op = "vpsrlq"      -> rw_func_vpsrlq(instr)
    [] instr.op = "vpsrad"      -> rw_func_vpsrad(instr)
    [] instr.op = "vpsrldq"     -> rw_func_vpsrldq(instr)
    [] instr.op = "vpsllw"      -> rw_func_vpsllw(instr)
    [] instr.op = "vpslld"      -> rw_func_vpslld(instr)
    [] instr.op = "vpsllq"      -> rw_func_vpsllq(instr)
    [] instr.op = "vprolq"      -> rw_func_vprolq(instr)
    [] instr.op = "vprorq"      -> rw_func_vprorq(instr)
    [] instr.op = "vmovups"     -> rw_func_vmovups(instr)
    [] instr.op = "vmovupd"     -> rw_func_vmovupd(instr)
    [] instr.op = "vmovapd"     -> rw_func_vmovapd(instr)
    [] instr.op = "vmovsldup"   -> rw_func_vmovsldup(instr)
    [] instr.op = "vmovshdup"   -> rw_func_vmovshdup(instr)
    [] instr.op = "vmovddup"    -> rw_func_vmovddup(instr)
    [] instr.op = "vsqrtps"     -> rw_func_vsqrtps(instr)
    [] instr.op = "vsqrtpd"     -> rw_func_vsqrtpd(instr)
    [] instr.op = "vcvttss2si"  -> rw_func_vcvttss2si(instr)
    [] instr.op = "vcvttsd2si"  -> rw_func_vcvttsd2si(instr)
    [] instr.op = "vcvtss2si"   -> rw_func_vcvtss2si(instr)
    [] instr.op = "vcvtsd2si"   -> rw_func_vcvtsd2si(instr)
    [] instr.op = "vucomiss"    -> rw_func_vucomiss(instr)
    [] instr.op = "vucomisd"    -> rw_func_vucomisd(instr)
    [] instr.op = "vcomiss"     -> rw_func_vcomiss(instr)
    [] instr.op = "vcomisd"     -> rw_func_vcomisd(instr)
    [] instr.op = "vmovaps"     -> rw_func_vmovaps(instr)
    [] instr.op = "vmovdqu64"   -> rw_func_vmovdqu64(instr)
    [] instr.op = "vmovdqu32"   -> rw_func_vmovdqu32(instr)
    [] instr.op = "vmovdqu16"   -> rw_func_vmovdqu16(instr)
    [] instr.op = "vmovdqu8"    -> rw_func_vmovdqu8(instr)
    [] instr.op = "vmovdqa64"   -> rw_func_vmovdqa64(instr)
    [] instr.op = "vmovdqa32"   -> rw_func_vmovdqa32(instr)
=============================================================================
