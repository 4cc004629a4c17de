----------------------------- MODULE MCRewrite -----------------------------
(***************************************************************************)
(* Model values shared by the runs of RewriteExec: symbolic lane contents, *)
(* and the sets of programs each run executes.                             *)
(***************************************************************************)
EXTENDS RewriteExec

\* Lane contents are terms over the initial contents of every place.  The one
\* law of the operations the generators rely on: x xor x is 0.
MCZero == <<"0", 0, 0>>
MCInitial(place, opnd, lane) == <<place, opnd, lane>>
MCOp(op, args) ==
  IF op = "vpxor" /\ args[1] = args[2] THEN MCZero ELSE <<op>> \o args

Atoms == {"0", "hw", "tls", "ext"} \X Int \X Int
LaneOps == {"avx2", "vpaddd", "vpaddw", "vpaddq", "vpsubd", "vpsubw", "vpsubq", "vpor", "vpxor",
            "vpsllq", "vmovss", "vmovsd", "vunpcklps", "vunpcklpd", "vunpckhps", "vunpckhpd",
            "vsqrtss", "vsqrtsd", "vcvttss2si", "vucomiss", "vucomisd", "vcomiss", "vcomisd",
            "vpsubb", "vpmulld", "vpand", "vpackuswb", "vpsrlq", "vpsrad", "vpsrldq", "vpsllw", "vpslld",
            "vpsllq imm", "vpsrlq imm", "vpsllq 64-imm", "vpsrlq 64-imm"}
Applied(terms) == terms \cup (LaneOps \X terms) \cup (LaneOps \X terms \X terms)
MCValue == Applied(Applied(Atoms))

MCNull == -1
MCNoInstr == [op |-> "none", w |-> 0, srcs |-> <<>>, dst |-> DR_REG_NULL]

-----------------------------------------------------------------------------
\* Decoded instructions.  DynamoRIO puts the mask first.
I(op, w, srcs, dst) == [op |-> op, w |-> w, srcs |-> srcs, dst |-> dst]

Binary(ops, w, regs) ==
  {I(op, w, <<K0, s1, s2>>, d) : op \in ops, s1 \in regs, s2 \in regs, d \in regs}
Move(ops, w, srcs, dsts) ==
  {I(op, w, <<K0, s>>, d) : op \in ops, s \in srcs, d \in dsts}
ShiftImm(ops, w, srcs, dsts) ==
  {I(op, w, <<K0, IMM, s>>, d) : op \in ops, s \in srcs, d \in dsts}
Native(srcs, dsts) == {I("avx2", 2, <<s>>, d) : s \in srcs, d \in dsts}

\* Programs of one instruction, or of two in a row.
One(lanes, instrs) == {[obs |-> lanes, instrs |-> <<i>>] : i \in instrs}
Two(lanes, instrs) == {[obs |-> lanes, instrs |-> <<i, j>>] : i \in instrs, j \in instrs}
Xmm == {0}
Ymm == 0 .. 1
Zmm == 0 .. 3

\* zmm arithmetic on every combination of low, pool and high registers; three
\* distinct pool operands leave exactly the three registers the code needs.
ZmmBinops == Binary({"vpaddq", "vpsubd", "vporq"}, 4, {0, 10, 11, 12, 16, 17, 18})
               \cup Binary({"vpaddd", "vpsubq", "vpxorq"}, 4, {0, 10, 16, 17})

\* The functions other than vpaddd name their scratch registers, or find them
\* without regard to every operand: pool operands are all low, or beside high
\* operands not ymm10 or ymm11 (see FixedPool).
WithPool(ops, w) == Binary(ops, w, {0, 10, 11}) \cup Binary(ops, w, {0, 13, 14, 16, 17})

\* ymm arithmetic.
YmmBinops == Binary({"vpaddd", "vpaddw", "vpsubw", "vporq"}, 2, {0, 16, 17, 18})
               \cup WithPool({"vpaddw", "vpsubw", "vpsubd", "vpsubq", "vporq", "vpsubb"}, 2)

\* ymm vpaddd on pool operands, except a pool register that is both source 1
\* and destination (see YmmInPlace).
YmmPoolBinops ==
  {i \in Binary({"vpaddd"}, 2, {0, 10, 11, 15, 16, 17, 18}) :
     ~ (i.srcs[2] = i.dst /\ i.dst = 10 /\ i.srcs[3] >= 16)}

\* Short ymm arithmetic among native code.
YmmShort == Binary({"vpaddd", "vporq"}, 2, {0, 16}) \cup Native({0, 10}, {0, 10})

\* xmm instructions, without the two shapes of XmmTight and without vporq of a
\* high register with itself into another high register, which is emitted as it
\* is.
XmmBinops ==
  {i \in Binary({"vpaddd", "vporq", "vpsubw", "vpsllq", "vmovss", "vunpcklps", "vsqrtss"}, 1,
                {0, 1, 16, 17, 18})
          \cup WithPool({"vpaddd", "vpaddw", "vporq", "vpsubb", "vpsubw", "vpsubd", "vpsubq", "vpsllq",
                         "vmovss", "vmovsd", "vunpcklps", "vunpcklpd", "vunpckhps", "vunpckhpd",
                         "vsqrtss", "vsqrtsd"}, 1) :
     /\ i.op \in {"vpaddd", "vpaddw", "vpsubd", "vpsubq"} => SpillFlag(i.srcs[2], i.srcs[3], i.dst) \notin {3, 6}
     /\ ~ (i.op = "vporq" /\ i.srcs[2] = i.srcs[3] /\ i.srcs[2] >= 16
             /\ i.dst >= 16 /\ i.dst # i.srcs[2])}

\* Scalar comparisons and conversions have no mask operand.
Scalars == {I("vucomiss", 1, <<s1, s2>>, FLAGS) : s1 \in {0, 10, 11, 16, 17}, s2 \in {0, 10, 11, 16, 17}}
             \cup {I(op, 1, <<s1, s2>>, FLAGS) :
                     op \in {"vucomisd", "vcomiss", "vcomisd"}, s1 \in {0, 10, 16}, s2 \in {0, 10, 17}}
             \cup {I("vcvttss2si", 1, <<s>>, GPR) : s \in {0, 10, 16}}

\* vpmulld, vpandd and vpackuswb avoid every low operand; vpmulld and vpandd
\* xmm without the shape of XmmReload.
AvoidingBinops == Binary({"vpmulld", "vpandd"}, 2, {0, 10, 11, 16, 17})
XmmAvoidingBinops ==
  {i \in Binary({"vpmulld", "vpandd"}, 1, {0, 10, 11, 16, 17}) :
     SpillFlag(i.srcs[2], i.srcs[3], i.dst) # 1}
    \cup Binary({"vpackuswb"}, 1, {0, 10, 11, 16, 17})
    \cup Binary({"vpxord"}, 1, {0, 10, 16, 17})

\* Shifts by an immediate.
YmmShifts == ShiftImm({"vpsrlq", "vpsrad", "vpsllw", "vpslld"}, 2, {0, 10, 11, 16, 17}, {0, 10, 11, 16, 17})
XmmShifts == ShiftImm({"vpsrad", "vpslld", "vpsllq"}, 1, {0, 10, 11, 16, 17}, {0, 10, 11, 16, 17})
               \cup {I("vpsrldq", 1, <<IMM, s>>, d) : s \in {0, 10, 11, 16, 17, MEM}, d \in {0, 10, 11, 16, 17}}

\* Rotates, except into a pool register that may be a scratch register (see
\* RotateIntoPool).
ZmmRotates == ShiftImm({"vprolq", "vprorq"}, 4, {0, 10, 11, 16, 17}, {0, 12, 16, 17})
YmmRotates == ShiftImm({"vprolq", "vprorq"}, 2, {0, 10, 11}, {0, 13})
XmmRotates == ShiftImm({"vprolq", "vprorq"}, 1, {0, 14, 15}, {0, 10})

\* Functions that emit the operands as they are.
LowOnly == Binary({"vpxorq", "vpxord"}, 2, {0, 10}) \cup ShiftImm({"vpsllq"}, 2, {0, 10}, {0, 10})
             \cup {I("vpsrldq", 2, <<IMM, s>>, d) : s \in {0, 10}, d \in {0, 10}}
XmmLowOnly == Binary({"vpxorq", "vpsllw", "vpslld"}, 1, {0, 10})

Arithmetic == One(Zmm, ZmmBinops \cup ZmmRotates)
                \cup One(Ymm, YmmBinops \cup YmmPoolBinops \cup AvoidingBinops \cup YmmShifts \cup YmmRotates
                                \cup LowOnly)
                \cup Two(Ymm, YmmShort)
                \cup One(Xmm, XmmBinops \cup XmmAvoidingBinops \cup XmmShifts \cup XmmRotates \cup Scalars
                                \cup XmmLowOnly)

\* zmm moves, two in a row: values travel between registers and memory.
ZmmMoves ==
  Move({"vmovaps", "vmovdqu64", "vmovdqu32"}, 4, {0, 10, 16, 17}, {0, 10, 16, 17})
    \cup Move({"vmovaps", "vmovdqu64"}, 4, {0, 10, 16}, {MEM})
    \cup Move({"vmovaps", "vmovdqa64"}, 4, {MEM}, {0, 10, 16})

\* Moves of every width among native instructions.
MixedMoves ==
  Move({"vmovaps", "vmovdqu64"}, 2, {0, 10, 16}, {0, 10, 16})
    \cup Move({"vmovdqu64"}, 4, {0, 10, 16}, {0, 10, 17})
    \cup Move({"vmovdqu32", "vmovaps"}, 2, {0, 16}, {MEM})
    \cup Move({"vmovdqu8", "vmovaps"}, 2, {MEM}, {0, 16})
    \cup Native({0, 10}, {0, 10})

\* The members of the family that share a template with the ones above.
\* vmovdqu16 and the xmm load of vmovdqu32 make no provision for high registers.
OtherZmmMoves ==
  Move({"vmovdqu16", "vmovdqu8", "vmovdqa64", "vmovdqa32"}, 4, {0, 10, 16, 17}, {0, 10, 16, 17})
    \cup Move({"vmovdqa64"}, 4, {0, 10, 16}, {MEM})
    \cup Move({"vmovdqu64", "vmovdqu32", "vmovdqu16", "vmovdqu8", "vmovdqa32"}, 4, {MEM}, {0, 10, 16})
OtherYmmMoves ==
  Move({"vmovdqu32", "vmovdqu8", "vmovdqa64", "vmovdqa32"}, 2, {0, 10, 16, 17, MEM}, {0, 10, 16, 17})
    \cup Move({"vmovdqu64", "vmovdqu8", "vmovdqa64", "vmovdqa32"}, 2, {0, 10, 16}, {MEM})
    \cup Move({"vmovdqu64"}, 2, {MEM}, {0, 10, 16})
    \cup Move({"vmovdqu16"}, 2, {0, 10}, {0, 10, MEM}) \cup Move({"vmovdqu16"}, 2, {MEM}, {0, 16})
    \cup Move({"vmovdqu64"}, 2, {0, 10}, {REL}) \cup Move({"vmovdqu64"}, 2, {REL}, {0, 10})
XmmMoves ==
  Move({"vmovaps", "vmovdqu64", "vmovdqu32", "vmovdqu8"}, 1, {0, 10, 16, 17}, {0, 10, 16, 17, MEM})
    \cup Move({"vmovaps", "vmovdqu64", "vmovdqu16", "vmovdqu8"}, 1, {MEM}, {0, 10, 16})
    \cup Move({"vmovdqu16"}, 1, {0, 10}, {0, 10, MEM}) \cup Move({"vmovdqu32"}, 1, {MEM}, {0, 10})
    \cup Move({"vmovdqu64"}, 1, {0, 10}, {REL}) \cup Move({"vmovdqu64"}, 1, {REL}, {0, 10, 16})

Moves == Two(Zmm, ZmmMoves) \cup Two(Ymm, MixedMoves)
           \cup One(Zmm, OtherZmmMoves) \cup One(Ymm, OtherYmmMoves) \cup One(Xmm, XmmMoves)

Rewrites == Arithmetic \cup Moves

-----------------------------------------------------------------------------
\* Instructions whose replacement is not equivalent.

\* vpaddd ymm10, ymm10, ymm16
YmmInPlace == One(Ymm, Binary({"vpaddd"}, 2, {0, 10, 16}))

\* vpsubw ymm0, ymm10, ymm16: the scratch register for ymm16 is ymm10.
FixedPool == One(Ymm, Binary({"vpsubw", "vpsubd", "vpsubq", "vpaddw", "vporq", "vpsubb"}, 2, {0, 10, 16}))
               \cup One(Xmm, Binary({"vmovss", "vunpcklps", "vsqrtss", "vporq"}, 1, {0, 10, 16}))

\* Two spilled sources, or a spilled second source and destination.
XmmTight == One(Xmm, Binary({"vpaddd", "vpsubq"}, 1, {0, 16, 17}))

\* vprolq zmm10, zmm0: the result is lost when zmm10's low half is restored.
RotateIntoPool == One(Zmm, ShiftImm({"vprolq", "vprorq"}, 4, {0, 16}, {0, 10}))

\* vpmulld xmm0, xmm16, xmm1: the scratch register is reloaded from outside
\* zmm_regs.
XmmReload == One(Xmm, Binary({"vpmulld", "vpandd"}, 1, {0, 1, 16}))

\* A ymm byte shift of memory, which VEX cannot encode.
MemShift == One(Ymm, {I("vpsrldq", 2, <<IMM, MEM>>, d) : d \in {0, 16}})

\* Scalar instructions observed on the whole ymm registers.
XmmScratch == One(Ymm, Scalars)

\* A zmm store after native code.
StaleStore == Two(Zmm, Move({"vmovdqu32"}, 4, {0, 16}, {MEM}) \cup Native({0}, {0}))

\* ymm arithmetic observed on the whole zmm registers.
YmmUpper == One(Zmm, YmmBinops)

\* A move between xmm registers.
XmmUnary == One(Xmm, Move({"vmovups", "vmovapd"}, 1, {0, 1, 16}, {0, 1, 16}))
=============================================================================
