----------------------------- MODULE Avx512Isa -----------------------------
(***************************************************************************)
(* What the application expects of the processor: the architectural effect *)
(* of the unmasked AVX-512 instructions that core/arch/rewrite.c replaces, *)
(* and of the AVX/AVX2 instructions it leaves alone.                       *)
(*                                                                         *)
(* The instruction set is not part of the repository.  This module states  *)
(* it as far as the generators rely on it: an instruction computes each    *)
(* 128-bit lane of its destination from the same lane of its sources,      *)
(* clears the lanes above its width, and changes nothing else.  What a     *)
(* lane operation computes is left open: Op builds an uninterpreted term.  *)
(*                                                                         *)
(* The state may hold only some of the lanes (the domain of arch[o]), so   *)
(* that one can ask for equivalence on the lanes a program is about.       *)
(***************************************************************************)
EXTENDS Integers, Sequences

CONSTANTS VecRegs,     \* vector registers, by index
          ExtOpnds,    \* other operands: gpr, flags, memory
          Instrs,      \* the instructions of the application
          NoInstr,     \* no instruction in flight
          Op(_, _),    \* the term an operation builds from its argument lanes
          Zero         \* a cleared lane

VARIABLES arch,   \* contents of the operands
          cur     \* the instruction being executed

vars == <<arch, cur>>

MoveOps == {"vmovups", "vmovupd", "vmovapd", "vmovaps", "vmovdqu64", "vmovdqu32",
            "vmovdqu16", "vmovdqu8", "vmovdqa64", "vmovdqa32", "mov"}

\* The element size of a bitwise operation matters only to masking.
LaneOp(op) ==
  CASE op = "vporq" -> "vpor" [] op \in {"vpxorq", "vpxord"} -> "vpxor" [] op = "vpandd" -> "vpand"
    [] OTHER -> op

\* Neither the mask k0 nor an immediate, which is part of the operation.
IsData(opnd) == opnd \in VecRegs \cup ExtOpnds

Args(instr, lane) ==
  LET data == SelectSeq(instr.srcs, IsData)
  IN  [k \in 1 .. Len(data) |-> arch[data[k]][lane]]

\* A rotate is the union of two shifts.
Rotates == [vprolq |-> <<"vpsrlq 64-imm", "vpsllq imm">>,
            vprorq |-> <<"vpsrlq imm", "vpsllq 64-imm">>]

Computed(op, args) ==
  IF op \in DOMAIN Rotates THEN Op("vpor", <<Op(Rotates[op][1], args), Op(Rotates[op][2], args)>>)
  ELSE Op(LaneOp(op), args)

Result(instr, lane) ==
  CASE lane < instr.w /\ instr.op \in MoveOps    -> Args(instr, lane)[1]
    [] lane < instr.w /\ instr.op \notin MoveOps -> Computed(instr.op, Args(instr, lane))
    [] lane >= instr.w /\ instr.dst \in VecRegs    -> Zero
    [] lane >= instr.w /\ instr.dst \notin VecRegs -> arch[instr.dst][lane]

Init == cur = NoInstr /\ DOMAIN arch = VecRegs \cup ExtOpnds

Fetch ==
  /\ cur = NoInstr
  /\ cur' \in Instrs
  /\ UNCHANGED arch

Retire ==
  /\ cur # NoInstr
  /\ arch' = [arch EXCEPT ![cur.dst] = [lane \in DOMAIN arch[cur.dst] |-> Result(cur, lane)]]
  /\ cur' = NoInstr

Next == Fetch \/ Retire

Spec == Init /\ [][Next]_vars
=============================================================================
