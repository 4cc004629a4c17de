------------------------------ MODULE MaskIsa ------------------------------
(***************************************************************************)
(* What the AVX-512 mask instructions compute: the reference for the       *)
(* rewritings of module MaskFuncs.                                         *)
(*                                                                         *)
(* A 64-bit value is the set of the positions of its one bits, so that the *)
(* widths are the real ones.  An instruction is a record                   *)
(*   [op, w, dst, src1, src2, imm]                                         *)
(* with op the mnemonic without its last letter, w the width that letter   *)
(* stands for, operands that are locations, and an unsigned 8-bit imm.     *)
(***************************************************************************)
EXTENDS Integers

Bits   == 0 .. 63
Low(w) == 0 .. (w - 1)
Widths == {8, 16, 32, 64}

CF == 0
ZF == 6

\* A location is <<"k", n>>, <<"r", name>>, <<"f", "flags">> or <<"tls", n>>.
K(n)  == <<"k", n>>
R(r)  == <<"r", r>>
Flags == <<"f", "flags">>

Xor(a, b) == (a \ b) \cup (b \ a)

\* Addition, bit by bit.
Plus(a, b) ==
  LET carry[n \in 0 .. 64] ==
        IF n = 0 THEN FALSE
        ELSE \/ (n - 1) \in a \cap b
             \/ carry[n - 1] /\ (n - 1) \in a \cup b
  IN  {n \in Bits : (n \in Xor(a, b)) # carry[n]}

\* The value of the destination; a and b are the sources.
Result(i, a, b) ==
  LET whole == Low(i.w)
      half  == i.w \div 2
  IN  CASE i.op = "kmov"    -> a \cap whole
        [] i.op = "kand"    -> a \cap b \cap whole
        [] i.op = "kandn"   -> (b \ a) \cap whole
        [] i.op = "kor"     -> (a \cup b) \cap whole
        [] i.op = "kxor"    -> Xor(a, b) \cap whole
        [] i.op = "kxnor"   -> whole \ Xor(a, b)
        [] i.op = "knot"    -> whole \ a
        [] i.op = "kadd"    -> Plus(a \cap whole, b \cap whole) \cap whole
        [] i.op = "kunpck"  -> (b \cap Low(half)) \cup {n + half : n \in a \cap Low(half)}
        [] i.op = "kshiftl" -> {n + i.imm : n \in a \cap whole} \cap whole
        [] i.op = "kshiftr" -> {n \in whole : (n + i.imm) \in a \cap whole}

TestFlags(zero, ones) == {f \in {CF, ZF} : (f = ZF /\ zero) \/ (f = CF /\ ones)}

\* The flags of the two instructions that write them.
FlagResult(i, a, b) ==
  LET whole == Low(i.w)
  IN  CASE i.op = "kortest" -> TestFlags((a \cup b) \cap whole = {}, whole \subseteq a \cup b)
        [] i.op = "ktest"   -> TestFlags(a \cap b \cap whole = {}, (b \ a) \cap whole = {})

WritesFlags(i) == i.op \in {"kortest", "ktest"}

\* One instruction on the registers s of the application.
IsaStep(s, i) ==
  IF WritesFlags(i)
  THEN [s EXCEPT ![Flags] = FlagResult(i, s[i.src1], s[i.src2])]
  ELSE [s EXCEPT ![i.dst] = Result(i, s[i.src1], s[i.src2])]
=============================================================================
