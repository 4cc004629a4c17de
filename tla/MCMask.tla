------------------------------- MODULE MCMask -------------------------------
(***************************************************************************)
(* Instances of MaskExec: three masks, the scratch registers of the chains *)
(* and rsi, which no chain uses.                                           *)
(***************************************************************************)
EXTENDS MaskExec

MCOrder == <<"rax", "rbx", "rcx", "rdx", "rsi", "r11", "r12", "r15">>
MCGprs  == {MCOrder[j] : j \in DOMAIN MCOrder}
MCKRegs == {1, 2, 3}

\* The j-th register has bits in every part that a narrow write could reach.
Sparse(j) == {j - 1, 16 - j, 15 + j, 63 - j}

\* Flags and masks: border bits of every width, their complement, full and
\* empty ones.
Borders == {0, 7, 8, 15, 16, 31, 32, 63}
MCValues ==
  {<<{CF}, Bits, {}, Borders>>, <<{ZF}, {}, {}, Bits>>, <<{CF}, Borders, 0 .. 15, {}>>,
   <<{ZF}, 0 .. 7, Bits \ Borders, {1, 33}>>, <<{CF}, {0, 3, 9, 20, 40}, {0, 9, 10, 41}, Bits>>}

MCStarts ==
  {[l \in AppLocs |->
      IF l = Flags THEN start[1]
      ELSE IF IsK(l) THEN start[l[2] + 1]
      ELSE Sparse(CHOOSE j \in DOMAIN MCOrder : R(MCOrder[j]) = l)] :
   start \in MCValues}

Masks == {K(k) : k \in MCKRegs}

Instr(op, w, d, s1, s2, imm) ==
  [op |-> op, w |-> w, dst |-> d, src1 |-> s1, src2 |-> s2, imm |-> imm]

ThreeOperands(ops) ==
  {Instr(op, w, d, a, b, 0) : op \in ops, w \in Widths, d \in Masks, a \in Masks, b \in Masks}
Tests(ops) == {Instr(op, w, a, a, b, 0) : op \in ops, w \in Widths, a \in Masks, b \in Masks}
Nots       == {Instr("knot", w, d, a, a, 0) : w \in Widths, d \in Masks, a \in Masks}
Moves      == {Instr("kmov", w, m[1], m[2], m[2], 0) :
                 w \in Widths, m \in (Masks \X Masks) \cup (Masks \X {rax, R("rsi"), r15})
                                     \cup ({rax, R("rsi")} \X Masks)}

\* Counts at and around the widths, and the first that is negative as a byte.
Counts == {0, 1, 7, 8, 15, 16, 31, 32, 63, 64, 127, 128}
Shifts == {Instr(op, w, d, a, a, c) :
             op \in {"kshiftl", "kshiftr"}, w \in Widths, d \in Masks, a \in Masks, c \in Counts}

AllInstrs ==
  {i \in ThreeOperands({"kand", "kandn", "kor", "kxnor", "kxor", "kadd", "kunpck"})
           \cup Tests({"kortest", "ktest"}) \cup Nots \cup Moves \cup Shifts :
     i.op = "kunpck" => i.w # 8}

\* Instructions outside of Disciplined, one disagreement each.
FromRax    == {Instr("kmov", 16, K(1), rax, rax, 0)}
NarrowAnd  == {Instr("kand", 16, K(1), K(1), K(2), 0)}
EqualXnord == {Instr("kxnor", 32, K(2), K(1), K(1), 0)}
TestFirst  == {Instr("ktest", 16, K(1), K(1), K(2), 0)}
BigCount   == {Instr("kshiftl", 64, K(1), K(1), K(1), 128)}

\* Second instructions that read what the first wrote, at every width.
Readers ==
  {i \in AllInstrs :
     \/ i.op = "kmov" /\ i.dst = R("rsi") /\ i.w # 16
     \/ i.op = "kmov" /\ i.dst = rax /\ i.w = 16
     \/ i.op \in {"kandn", "kunpck", "kortest"} /\ i.dst = K(1) /\ i.src1 = K(1) /\ i.src2 = K(2)}
=============================================================================
