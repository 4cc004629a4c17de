----------------------------- MODULE Mask_proof -----------------------------
(*****************************************************************************)
(* The chain of kortest, which jumps; the table rewrite_funcs, every entry   *)
(* of which is then sound; and so, with the step of MaskFrame_proof, the     *)
(* three properties of the mask rewritings.                                  *)
(*****************************************************************************)
EXTENDS MaskChains_proof

\* Contents with a in rax, and with the flags f.
Rax(a)     == {u \in Vals : u[rax] = a}

Both(a, f) == {u \in Vals : u[rax] = a /\ u[Flags] = f}

\* From rax the ten instructions of Classify set ZF for zero and CF for all ones.
LEMMA ClassifyDoes ==
  ASSUME NEW i, WritesFlags(i), NEW w \in {8, 16}, NEW at \in Nat, at >= 1, NEW st, NEW tl,
         NEW a, a \subseteq Low(w)
  PROVE  Does(i, st, tl, Classify(w, at), at - 1, Rax(a), Both(a, TestFlags(a = {}, a = Low(w))))
\* Instructions that write only the flags.
<1>TestEffect.
  ASSUME NEW u \in Vals, NEW w0
  PROVE  Outs(Alu("test", w0, rax, rax), u)
           = {[u EXCEPT ![Flags] = TestFlags(u[rax] \cap Low(w0) = {}, FALSE)]}
  <2> DEFINE x == Alu("test", w0, rax, rax)
             a0 == u[rax] \cap Low(w0)
  <2>0. rax[1] # "imm"
    BY Zenon DEF rax, R
  <2>1. x.what = "test" /\ x.d = rax /\ x.s = rax /\ x.w = w0
    BY Zenon DEF Alu
  <2> HIDE DEF x
  <2>2. Value(u, x.s) = u[rax]
    BY <2>0, <2>1, Zenon DEF Value
  <2>3. Outcome("test", w0, a0, a0) = a0
    BY Zenon DEF Outcome
  <2>4. Computed(u, x) = [u EXCEPT ![Flags] = TestFlags(Outcome("test", w0, a0, a0) = {}, FALSE)]
    BY <2>1, <2>2, Zenon DEF Computed
  <2>5. Outs(x, u) = {Computed(u, x)}
    BY <2>1, Zenon DEF Outs
  <2> QED BY ZenonT(60), <2>3, <2>4, <2>5 DEF x
<1>CmpEffect.
  ASSUME NEW u \in Vals, NEW w0, NEW y
  PROVE  Outs(Alu("cmp", w0, rax, Imm(y)), u)
           = {[u EXCEPT ![Flags] = TestFlags(u[rax] \cap Low(w0) = y \cap Low(w0),
                                             Less(u[rax] \cap Low(w0), y \cap Low(w0)))]}
  <2> DEFINE x == Alu("cmp", w0, rax, Imm(y))
  <2>0. Imm(y)[1] = "imm" /\ Imm(y)[2] = y
    BY Zenon DEF Imm
  <2>1. x.what = "cmp" /\ x.d = rax /\ x.s = Imm(y) /\ x.w = w0
    BY Zenon DEF Alu
  <2> HIDE DEF x
  <2>2. Value(u, x.s) = y
    BY <2>0, <2>1, Zenon DEF Value
  <2>3. Computed(u, x) = [u EXCEPT ![Flags] = TestFlags(u[rax] \cap Low(w0) = y \cap Low(w0),
                                                        Less(u[rax] \cap Low(w0), y \cap Low(w0)))]
    BY <2>1, <2>2, Zenon DEF Computed
  <2>4. Outs(x, u) = {Computed(u, x)}
    BY <2>1, Zenon DEF Outs
  <2> QED BY Zenon, <2>3, <2>4 DEF x
<1>CarryEffect.
  ASSUME NEW u \in Vals
  PROVE  /\ Outs(Carry(FALSE), u) = {[u EXCEPT ![Flags] = u[Flags] \ {CF}]}
         /\ Outs(Carry(TRUE), u) = {[u EXCEPT ![Flags] = u[Flags] \cup {CF}]}
  <2>1. Carry(FALSE).what = "clc" /\ Carry(TRUE).what = "stc"
    BY Zenon DEF Carry
  <2>2. Carried(u, Carry(FALSE)) = [u EXCEPT ![Flags] = u[Flags] \ {CF}]
    BY Zenon, <2>1 DEF Carried
  <2>3. Carried(u, Carry(TRUE)) = [u EXCEPT ![Flags] = u[Flags] \cup {CF}]
    BY <2>1, Zenon DEF Carried
  <2>4. /\ Outs(Carry(FALSE), u) = {Carried(u, Carry(FALSE))}
        /\ Outs(Carry(TRUE), u) = {Carried(u, Carry(TRUE))}
    BY Zenon, <2>1 DEF Outs
  <2> QED BY ZenonT(60), <2>2, <2>3, <2>4
<1>BothSteps.
  ASSUME NEW a0, NEW w0, NEW e, a0 \subseteq Low(w0), Low(w0) \subseteq Low(e)
  PROVE  /\ \A u \in Rax(a0) : Outs(Alu("test", w0, rax, rax), u) \subseteq Both(a0, TestFlags(a0 = {}, FALSE))
         /\ \A u \in Rax(a0) : Outs(Alu("cmp", e, rax, Imm(Low(w0))), u)
                                \subseteq Both(a0, TestFlags(a0 = Low(w0), Less(a0, Low(w0))))
         /\ \A f : \A u \in Both(a0, f) : /\ Outs(Carry(FALSE), u) \subseteq Both(a0, f \ {CF})
                                         /\ Outs(Carry(TRUE), u) \subseteq Both(a0, f \cup {CF})
  <2> USE <1>BothSteps
  <2>0. a0 \cap Low(w0) = a0 /\ a0 \cap Low(e) = a0 /\ Low(w0) \cap Low(e) = Low(w0) /\ CF \in Bits
    BY DEF CF, Bits
  <2>1. ASSUME NEW u \in Rax(a0), NEW f \in SUBSET Bits PROVE {[u EXCEPT ![Flags] = f]} \subseteq Both(a0, f)
    <3>1. [u EXCEPT ![Flags] = f] \in Both(a0, f)
      BY LocFacts, Zenon DEF Vals, Scratch, Rax, Both
    <3> QED BY <3>1, ZenonT(60)
  <2>2. \A z, c : TestFlags(z, c) \in SUBSET Bits
    BY FlagsType, Zenon
  <2>3. ASSUME NEW u \in Rax(a0)
        PROVE  /\ Outs(Alu("test", w0, rax, rax), u) \subseteq Both(a0, TestFlags(a0 = {}, FALSE))
               /\ Outs(Alu("cmp", e, rax, Imm(Low(w0))), u) \subseteq Both(a0, TestFlags(a0 = Low(w0), Less(a0, Low(w0))))
    <3>0. \A x, y : Outs(Alu("cmp", x, rax, Imm(y)), u)
                      = {[u EXCEPT ![Flags] = TestFlags(u[rax] \cap Low(x) = y \cap Low(x),
                                                        Less(u[rax] \cap Low(x), y \cap Low(x)))]}
      <4>1. u \in Vals
        BY Zenon DEF Rax
      <4> QED BY <4>1, <1>CmpEffect, ZenonT(60)
    <3>1. u \in Vals /\ u[rax] = a0
      BY Zenon DEF Rax
    <3>2. Outs(Alu("test", w0, rax, rax), u) = {[u EXCEPT ![Flags] = TestFlags(u[rax] \cap Low(w0) = {}, FALSE)]}
      BY <3>1, <1>TestEffect, Zenon
    <3>3. Outs(Alu("cmp", e, rax, Imm(Low(w0))), u)
            = {[u EXCEPT ![Flags] = TestFlags(u[rax] \cap Low(e) = Low(w0) \cap Low(e),
                                              Less(u[rax] \cap Low(e), Low(w0) \cap Low(e)))]}
      <4> DEFINE y == Low(w0)
      <4> HIDE DEF y
      <4>1. Outs(Alu("cmp", e, rax, Imm(y)), u)
              = {[u EXCEPT ![Flags] = TestFlags(u[rax] \cap Low(e) = y \cap Low(e),
                                                Less(u[rax] \cap Low(e), y \cap Low(e)))]}
        BY <3>0, Zenon
      <4> QED BY <4>1, Zenon DEF y
    <3>4. Outs(Alu("test", w0, rax, rax), u) = {[u EXCEPT ![Flags] = TestFlags(a0 = {}, FALSE)]}
      BY <2>0, <3>1, <3>2, ZenonT(60)
    <3>5. Outs(Alu("cmp", e, rax, Imm(Low(w0))), u) = {[u EXCEPT ![Flags] = TestFlags(a0 = Low(w0), Less(a0, Low(w0)))]}
      BY <2>0, <3>1, <3>3, ZenonT(60)
    <3>6. /\ {[u EXCEPT ![Flags] = TestFlags(a0 = {}, FALSE)]} \subseteq Both(a0, TestFlags(a0 = {}, FALSE))
          /\ {[u EXCEPT ![Flags] = TestFlags(a0 = Low(w0), Less(a0, Low(w0)))]}
               \subseteq Both(a0, TestFlags(a0 = Low(w0), Less(a0, Low(w0))))
      BY <2>1, <2>2, Zenon
    <3> QED BY <3>4, <3>5, <3>6, ZenonT(60)
  <2>4. ASSUME NEW f, NEW u \in Both(a0, f)
        PROVE  /\ Outs(Carry(FALSE), u) \subseteq Both(a0, f \ {CF})
               /\ Outs(Carry(TRUE), u) \subseteq Both(a0, f \cup {CF})
    <3>1. u \in Vals /\ u[Flags] = f /\ u \in Rax(a0)
      BY Zenon DEF Both, Rax
    <3>2. u[Flags] \in SUBSET Bits
      BY <3>1, LocFacts, Zenon DEF Vals
    <3>3. f \ {CF} \in SUBSET Bits /\ f \cup {CF} \in SUBSET Bits
      BY <2>0, <3>1, <3>2, Zenon
    <3>4. /\ Outs(Carry(FALSE), u) = {[u EXCEPT ![Flags] = f \ {CF}]}
          /\ Outs(Carry(TRUE), u) = {[u EXCEPT ![Flags] = f \cup {CF}]}
      BY <3>1, <1>CarryEffect, ZenonT(60)
    <3>5. /\ {[u EXCEPT ![Flags] = f \ {CF}]} \subseteq Both(a0, f \ {CF})
          /\ {[u EXCEPT ![Flags] = f \cup {CF}]} \subseteq Both(a0, f \cup {CF})
      <4> DEFINE g == f \ {CF}
                 h == f \cup {CF}
      <4> HIDE DEF g, h
      <4>1. g \in SUBSET Bits /\ h \in SUBSET Bits
        BY <3>3, Zenon DEF g, h
      <4>2. {[u EXCEPT ![Flags] = g]} \subseteq Both(a0, g) /\ {[u EXCEPT ![Flags] = h]} \subseteq Both(a0, h)
        BY <2>1, <3>1, <4>1, ZenonT(60)
      <4> QED BY <4>2, Zenon DEF g, h
    <3> QED BY <3>4, <3>5, ZenonT(60)
  <2> QED BY <2>3, <2>4, ZenonT(60)
<1>ClassifyShape.
  ASSUME NEW i0, WritesFlags(i0), NEW w0 \in {8, 16}, NEW at0 \in Nat, at0 >= 1, NEW st0, NEW tl0
  PROVE  Classify(w0, at0) \in Seq(Ops) /\ Inside(i0, st0, tl0, Classify(w0, at0), at0 - 1)
  <2> USE <1>ClassifyShape
  <2> DEFINE c == Classify(w0, at0)
  <2>1. Len(c) = 10 /\ DOMAIN c = 1 .. 10
    BY DEF Classify
  <2>2. rax \in Locs /\ Flags \in Locs /\ Flags \in Operands /\ rax \in Operands /\ Imm(Low(w0)) \in Operands
    <3>1. Low(w0) \in SUBSET Bits
      BY DEF Low, Bits
    <3> QED BY <3>1, LocFacts, Zenon DEF Scratch, Operands
  <2>3. c \in Seq(Ops)
    <3>1. /\ Alu("test", w0, rax, rax) \in Ops /\ Alu("cmp", 32, rax, Imm(Low(w0))) \in Ops
          /\ Carry(FALSE) \in Ops /\ Carry(TRUE) \in Ops
      BY <2>2, SMTT(30) DEF Alu, Carry, Ops, Whats, Widths
    <3>2. /\ Jump("jz", at0 + 6) \in Ops /\ Jump("jz", at0 + 8) \in Ops /\ Jump("jmp", at0 + 10) \in Ops
      BY <2>2 DEF Jump, Ops, Whats, Widths
    <3>3. ASSUME NEW t \in Ops, NEW x \in Ops, NEW y \in Ops, NEW z \in Ops, NEW e \in Ops, NEW f \in Ops, NEW g \in Ops
          PROVE  <<t, x, e, y, f, z, f, z, t, g>> \in Seq(Ops)
      BY SMTT(30)
    <3> QED BY <3>1, <3>2, <3>3, ZenonT(60) DEF Classify
  <2>4. \A k \in 1 .. 10 : /\ c[k].what \in {"test", "cmp", "jz", "jmp", "clc", "stc"}
                           /\ Jumps(c[k]) => c[k].sz \in {at0 + 6, at0 + 8, at0 + 10}
    BY DEF Classify, Alu, Jump, Carry, Jumps
  <2>5. Flags \in Exempt(i0)
    BY Zenon DEF Exempt, Written
  <2>6. \A k \in 1 .. 10 : Harmless(i0, c[k], st0, tl0)
    BY <2>4, <2>5, ZenonT(60) DEF Harmless, Changes
  <2>7. \A k \in 1 .. 10 : Jumps(c[k]) => c[k].sz - (at0 - 1) \in 1 .. 11
    BY <2>4, SMTT(30)
  <2> HIDE DEF c
  <2> QED BY <2>1, <2>3, <2>6, <2>7, SMTT(30) DEF Inside, c
\* Sets of contents at the eleven positions of Classify, carried from one to
\* the next by its ten instructions.
<1>ClassifyFlow.
  ASSUME NEW w0, NEW at0 \in Nat, at0 >= 1, NEW A \in [1 .. 11 -> SUBSET Vals],
         \A u \in A[1] : Outs(Alu("test", w0, rax, rax), u) \subseteq A[2],
         \A u \in A[2] : u \in IF ZF \in u[Flags] THEN A[7] ELSE A[3],
         \A u \in A[3] : Outs(Alu("cmp", 32, rax, Imm(Low(w0))), u) \subseteq A[4],
         \A u \in A[4] : u \in IF ZF \in u[Flags] THEN A[9] ELSE A[5],
         \A u \in A[5] : Outs(Carry(FALSE), u) \subseteq A[6],
         A[6] \subseteq A[11],
         \A u \in A[7] : Outs(Carry(FALSE), u) \subseteq A[8],
         A[8] \subseteq A[11],
         \A u \in A[9] : Outs(Alu("test", w0, rax, rax), u) \subseteq A[10],
         \A u \in A[10] : Outs(Carry(TRUE), u) \subseteq A[11]
  PROVE  Flow(Classify(w0, at0), at0 - 1, A)
  <2> USE <1>ClassifyFlow
  <2> DEFINE c == Classify(w0, at0)
             G(k, u) == Goal(c[k], u, (at0 - 1) + k) - (at0 - 1)
  <2>1. Len(c) = 10
    BY Zenon DEF Classify
  <2>2. /\ c[1] = Alu("test", w0, rax, rax) /\ c[2] = Jump("jz", at0 + 6)
        /\ c[3] = Alu("cmp", 32, rax, Imm(Low(w0))) /\ c[4] = Jump("jz", at0 + 8)
        /\ c[5] = Carry(FALSE) /\ c[6] = Jump("jmp", at0 + 10)
        /\ c[7] = Carry(FALSE) /\ c[8] = Jump("jmp", at0 + 10)
        /\ c[9] = Alu("test", w0, rax, rax) /\ c[10] = Carry(TRUE)
    BY ZenonT(60) DEF Classify
  <2> HIDE DEF c
  <2>3. /\ \A k \in {1, 3, 5, 7, 9, 10} : c[k].what \in {"test", "cmp", "clc", "stc"}
        /\ \A k \in {2, 4, 6, 8} : c[k].what \in {"jz", "jmp"}
        /\ c[2].what = "jz" /\ c[2].sz = at0 + 6 /\ c[4].what = "jz" /\ c[4].sz = at0 + 8
        /\ c[6].what = "jmp" /\ c[6].sz = at0 + 10 /\ c[8].what = "jmp" /\ c[8].sz = at0 + 10
    BY <2>2 DEF Alu, Jump, Carry
  <2>4. \A u : /\ \A k \in {1, 3, 5, 7, 9, 10} : G(k, u) = k + 1
               /\ G(2, u) = (IF ZF \in u[Flags] THEN 7 ELSE 3) /\ G(4, u) = (IF ZF \in u[Flags] THEN 9 ELSE 5)
               /\ G(6, u) = 11 /\ G(8, u) = 11
    BY SMTT(30), <2>3 DEF Goal
  <2>5. \A u : \A k \in {2, 4, 6, 8} : Outs(c[k], u) = {u}
    BY <2>3 DEF Outs
  <2> HIDE DEF G
  <2>6. /\ \A u \in A[1] : Outs(c[1], u) \subseteq A[2]
        /\ \A u \in A[3] : Outs(c[3], u) \subseteq A[4]
        /\ \A u \in A[5] : Outs(c[5], u) \subseteq A[6]
        /\ \A u \in A[7] : Outs(c[7], u) \subseteq A[8]
        /\ \A u \in A[9] : Outs(c[9], u) \subseteq A[10]
        /\ \A u \in A[10] : Outs(c[10], u) \subseteq A[11]
    BY <2>2, Zenon
  <2>7. ASSUME NEW k \in 1 .. 10, NEW u \in A[k]
        PROVE  G(k, u) \in 1 .. 11 /\ Outs(c[k], u) \subseteq A[G(k, u)]
    <3>1. k \in {1, 3, 5, 7, 9, 10} \/ k \in {2, 4, 6, 8}
      OBVIOUS
    <3>2. CASE k \in {1, 3, 5, 7, 9, 10}
      <4>1. G(k, u) = k + 1 /\ k + 1 \in 1 .. 11
        BY <2>4, <3>2, SMTT(30)
      <4>2. Outs(c[k], u) \subseteq A[k + 1]
        BY <2>6, <3>2, SMTT(30)
      <4> QED BY <4>1, <4>2, ZenonT(60)
    <3>3. CASE k \in {2, 4, 6, 8}
      <4>1. Outs(c[k], u) = {u}
        BY <2>5, <3>3, ZenonT(60)
      <4>2. G(k, u) \in 1 .. 11 /\ u \in A[G(k, u)]
        BY <2>4, <3>3, SMTT(30)
      <4> QED BY <4>1, <4>2, ZenonT(60)
    <3> QED BY <3>1, <3>2, <3>3, ZenonT(60)
  <2>8. 1 .. Len(c) = 1 .. 10 /\ 1 .. Len(c) + 1 = 1 .. 11
    BY <2>1
  <2> QED BY <2>7, <2>8, Zenon DEF Flow, c, G
<1> DEFINE e  == 32
           fz == TestFlags(a = {}, FALSE)
           fo == TestFlags(a = Low(w), Less(a, Low(w)))
           ff == TestFlags(a = {}, a = Low(w))
           S1 == Rax(a)
           S2 == Both(a, fz)
           S3 == IF a = {} THEN {} ELSE Rax(a)
           S4 == IF a = {} THEN {} ELSE Both(a, fo)
           S5 == IF a = {} \/ a = Low(w) THEN {} ELSE Both(a, fo)
           S6 == IF a = {} \/ a = Low(w) THEN {} ELSE Both(a, {})
           S7 == IF a = {} THEN Both(a, {ZF}) ELSE {}
           S9 == IF a = Low(w) THEN Rax(a) ELSE {}
           S10 == IF a = Low(w) THEN Both(a, {}) ELSE {}
           SE == Both(a, ff)
<1>1. Low(w) \subseteq Low(e) /\ Low(w) # {} /\ ZF # CF
  BY DEF Low, ZF, CF
<1> HIDE DEF e
<1>2. /\ \A u \in Rax(a) : Outs(Alu("test", w, rax, rax), u) \subseteq Both(a, fz)
      /\ \A u \in Rax(a) : Outs(Alu("cmp", e, rax, Imm(Low(w))), u) \subseteq Both(a, fo)
      /\ \A f : \A u \in Both(a, f) : /\ Outs(Carry(FALSE), u) \subseteq Both(a, f \ {CF})
                                      /\ Outs(Carry(TRUE), u) \subseteq Both(a, f \cup {CF})
  BY <1>1, <1>BothSteps, ZenonT(60)
<1>3. /\ a = {} => fz = {ZF} /\ ff = {ZF}
      /\ a # {} => fz = {}
      /\ a = Low(w) => ff = {CF} /\ ZF \in fo
      /\ a # Low(w) => ZF \notin fo /\ fo \ {CF} = {}
      /\ a # {} /\ a # Low(w) => ff = {}
  BY <1>1, Zenon DEF TestFlags
<1>4. {ZF} \ {CF} = {ZF} /\ {} \cup {CF} = {CF}
  BY <1>1, Zenon
<1> HIDE DEF fz, fo, ff
<1>5. /\ \A f : Both(a, f) \subseteq Rax(a) /\ Both(a, f) \in SUBSET Vals /\ \A u \in Both(a, f) : u[Flags] = f
      /\ Rax(a) \in SUBSET Vals
  BY Zenon DEF Both, Rax
<1>6. \A u \in S2 : u \in IF ZF \in u[Flags] THEN S7 ELSE S3
  BY <1>3, <1>5, Zenon
<1>7. \A u \in S4 : u \in IF ZF \in u[Flags] THEN S9 ELSE S5
  BY <1>3, <1>5, Zenon
<1>8. \A u \in S3 : Outs(Alu("cmp", e, rax, Imm(Low(w))), u) \subseteq S4
  BY <1>2, Zenon
<1>9. \A u \in S5 : Outs(Carry(FALSE), u) \subseteq S6
  BY <1>2, <1>3, ZenonT(60)
<1>10. S6 \subseteq SE /\ S7 \subseteq SE
  BY <1>3, Zenon
<1>11. \A u \in S7 : Outs(Carry(FALSE), u) \subseteq S7
  BY <1>2, <1>4, ZenonT(60)
<1>12. \A u \in S9 : Outs(Alu("test", w, rax, rax), u) \subseteq S10
  BY <1>1, <1>2, <1>3, ZenonT(60)
<1>13. \A u \in S10 : Outs(Carry(TRUE), u) \subseteq SE
  BY <1>2, <1>3, <1>4, ZenonT(60)
<1>14. /\ S1 \in SUBSET Vals /\ S2 \in SUBSET Vals /\ S3 \in SUBSET Vals /\ S4 \in SUBSET Vals /\ S5 \in SUBSET Vals
       /\ S6 \in SUBSET Vals /\ S7 \in SUBSET Vals /\ S9 \in SUBSET Vals /\ S10 \in SUBSET Vals /\ SE \in SUBSET Vals
  BY <1>5, Zenon
<1>15. \A u \in S1 : Outs(Alu("test", w, rax, rax), u) \subseteq S2
  BY <1>2, ZenonT(60)
<1> HIDE DEF S1, S2, S3, S4, S5, S6, S7, S9, S10, SE
<1> DEFINE A == [k \in 1 .. 11 |-> IF k = 1 THEN S1 ELSE IF k = 2 THEN S2 ELSE IF k = 3 THEN S3 ELSE IF k = 4 THEN S4
                                  ELSE IF k = 5 THEN S5 ELSE IF k = 6 THEN S6 ELSE IF k \in {7, 8} THEN S7
                                  ELSE IF k = 9 THEN S9 ELSE IF k = 10 THEN S10 ELSE SE]
<1>16. /\ A[1] = S1 /\ A[2] = S2 /\ A[3] = S3 /\ A[4] = S4 /\ A[5] = S5 /\ A[6] = S6 /\ A[7] = S7 /\ A[8] = S7
       /\ A[9] = S9 /\ A[10] = S10 /\ A[11] = SE
  OBVIOUS
<1>17. A \in [1 .. 11 -> SUBSET Vals]
  BY <1>14, Zenon
<1> HIDE DEF A
<1>18. Flow(Classify(w, at), at - 1, A)
  <2>1. \A u \in A[3] : Outs(Alu("cmp", 32, rax, Imm(Low(w))), u) \subseteq A[4]
    BY <1>8, <1>16, Zenon DEF e
  <2> QED BY ZenonT(60), <1>6, <1>7, <1>9, <1>10, <1>11, <1>12, <1>13, <1>15, <1>16, <1>17, <2>1, <1>ClassifyFlow
<1>19. Classify(w, at) \in Seq(Ops) /\ Inside(i, st, tl, Classify(w, at), at - 1)
  BY <1>ClassifyShape, Zenon
<1>20. Len(Classify(w, at)) = 10
  BY Zenon DEF Classify
<1>21. Leads(Classify(w, at), at - 1, S1, SE)
  BY <1>16, <1>18, <1>19, <1>20, SMTT(30) DEF Leads
<1> QED BY <1>19, <1>21, Zenon DEF Does, S1, SE, ff

\* kortest writes the flags alone, and its scratch registers are kept.
LEMMA KortestFacts ==
  ASSUME NEW i, IsMaskInstr(i), i.op = "kortest"
  PROVE  /\ WritesFlags(i) /\ Written(i) = Flags /\ Written(i) \in Locs
         /\ rax \in Scratch /\ rdx \in Scratch /\ rax # rdx /\ rdx # rax
         /\ rax \in AppLocs \ Exempt(i) /\ rdx \in AppLocs \ Exempt(i) /\ Flags \in Exempt(i)
         /\ i.src1 \in AppLocs /\ IsK(i.src1) /\ i.src2 \in AppLocs /\ IsK(i.src2)
<1>1. WritesFlags(i) /\ ~ClobbersFlags(i)
  BY Zenon DEF WritesFlags, ClobbersFlags, FromGpr
<1>2. Exempt(i) = {Flags} /\ Written(i) = Flags
  BY <1>1, Zenon DEF Exempt, Written
<1>3. rax \in Scratch /\ rdx \in Scratch
  BY Zenon DEF Scratch
<1> QED BY <1>1, <1>2, <1>3, LocFacts, ScratchDistinct, ZenonT(60) DEF IsMaskInstr

\* The flags after Classify are those of kortest.
LEMMA KortestPost ==
  ASSUME NEW i, IsMaskInstr(i), i.op = "kortest", NEW b, NEW a,
         a = (b[i.src1] \cup b[i.src2]) \cap Low(i.w)
  PROVE  Both(a, TestFlags(a = {}, a = Low(i.w))) \subseteq Post(i, b)
<1> DEFINE m == b[i.src1] \cup b[i.src2]
<1>1. WritesFlags(i)
  BY Zenon DEF WritesFlags
<1>2. FlagResult(i, b[i.src1], b[i.src2]) = TestFlags(m \cap Low(i.w) = {}, Low(i.w) \subseteq m)
  BY Zenon DEF FlagResult
<1> HIDE DEF m
<1>3. a = m \cap Low(i.w)
  BY Zenon DEF m
<1>4. a = Low(i.w) <=> Low(i.w) \subseteq m
  BY <1>3, Zenon
<1>5. TestFlags(m \cap Low(i.w) = {}, Low(i.w) \subseteq m) = TestFlags(a = {}, a = Low(i.w))
  BY <1>3, <1>4, ZenonT(60) DEF TestFlags
<1> QED BY <1>1, <1>2, <1>5, ZenonT(60) DEF Post, Both

\* Where 64 bits are known, so are the low ones.
LEMMA RegsRax ==
  ASSUME NEW w \in {8, 16}, NEW a
  PROVE  /\ \A r : Regs(Wide, r, a \cap Low(Wide)) \subseteq Regs(w, r, a \cap Low(w))
         /\ Regs(Wide, rax, a) \subseteq Rax(a)
<1>1. Low(w) \subseteq Low(Wide) /\ Low(Wide) = Bits
  BY DEF Low, Wide, Bits
<1>2. \A r : Regs(Wide, r, a \cap Low(Wide)) \subseteq Regs(w, r, a \cap Low(w))
  BY <1>1, Zenon DEF Regs
<1>3. \A u \in Vals : u[rax] \cap Bits = u[rax]
  BY LocFacts, Zenon DEF Vals, Scratch
<1> QED BY <1>1, <1>2, <1>3, Zenon DEF Regs, Rax

\* kortest of a mask with itself.
LEMMA KortestOne ==
  ASSUME NEW i, IsMaskInstr(i), i.op = "kortest", NEW w \in {8, 16}, w = i.w, i.src1 = i.src2, NEW b
  PROVE  Sound(i, b, Pushing(rax, <<Load(rax, Wide, i.src1), Movzx(rax, w)>> \o Classify(w, 4)), 0, <<>>, <<>>)
<1> DEFINE st == On1(rax)
           a == b[i.src1] \cap Low(w)
           F == Body(b)
           G == F \cap Regs(Wide, rax, b[i.src1] \cap Low(Wide))
           H == F \cap Regs(w, rax, a)
           E == F \cap Regs(Wide, rax, a)
           f == TestFlags(a = {}, a = Low(w))
           e == <<Load(rax, Wide, i.src1), Movzx(rax, w)>>
<1>1. /\ WritesFlags(i) /\ Written(i) \in Locs /\ rax \in Scratch /\ rax \in AppLocs \ Exempt(i) /\ rax \in AppLocs
      /\ i.src1 \in AppLocs /\ IsK(i.src1)
  BY KortestFacts, Zenon
<1>2. st \in Stacks /\ Kept(st, <<>>) = {rax} /\ <<>> \in Savings
  BY <1>1, OnFacts, KeptNone, Zenon
<1> HIDE DEF st
<1>3. Room(i, st, <<>>, {rax})
  BY <1>2, Zenon DEF Room
<1>4. w \in Widths /\ Wide \in Widths
  BY Zenon DEF Widths, Wide
<1>5. Untouched(rax, F) /\ F \subseteq Body(b) /\ Start(b) \subseteq F
  BY <1>1, BodyFacts, ZenonT(60)
<1> HIDE DEF F
<1>6. Anywhere(i, st, <<>>, <<Load(rax, Wide, i.src1)>>, F, G)
  BY <1>1, <1>3, <1>4, <1>5, LoadAny, ZenonT(60)
<1>7. Anywhere(i, st, <<>>, <<Movzx(rax, w)>>, H, E)
  <2> HIDE DEF a
  <2> QED BY <1>1, <1>3, <1>4, <1>5, MovzxAny, ZenonT(60)
<1>8. G \subseteq H /\ E \subseteq Rax(a)
  <2>1. Regs(Wide, rax, b[i.src1] \cap Low(Wide)) \subseteq Regs(w, rax, b[i.src1] \cap Low(w))
    BY RegsRax, Zenon
  <2>2. Regs(Wide, rax, a) \subseteq Rax(a)
    BY RegsRax, Zenon
  <2> QED BY <2>1, <2>2, ZenonT(60)
<1> HIDE DEF G, H, E
<1>9. Anywhere(i, st, <<>>, <<Movzx(rax, w)>>, G, Rax(a))
  <2>1. ASSUME NEW R1, R1 = Rax(a) PROVE Anywhere(i, st, <<>>, <<Movzx(rax, w)>>, G, R1)
    <3>1. E \subseteq R1 /\ G \subseteq H
      BY <1>8, <2>1, Zenon
    <3> QED BY <1>7, <3>1, AnyWeak, ZenonT(60)
  <2> QED BY <2>1, Zenon
<1>10. Anywhere(i, st, <<>>, e, F, Rax(a))
  BY <1>6, <1>9, AnyTwo, ZenonT(60)
<1>11. Len(e) = 2 /\ e \in Seq(Ops)
  BY <1>10, AnyOps, ZenonT(60)
<1> HIDE DEF e
<1>12. Does(i, st, <<>>, e, 1, F, Rax(a))
  BY <1>10, Zenon DEF Anywhere
<1>13. Does(i, st, <<>>, Classify(w, 4), 1 + Len(e), Rax(a), Both(a, f))
  <2>1. 4 \in Nat /\ 4 >= 1 /\ 4 - 1 = 1 + Len(e) /\ a \subseteq Low(w)
    BY <1>11
  <2>2. ASSUME NEW at \in Nat, at >= 1 PROVE Does(i, st, <<>>, Classify(w, at), at - 1, Rax(a), Both(a, f))
    <3> HIDE DEF a
    <3> QED BY <1>1, <2>1, <2>2, ClassifyDoes, ZenonT(60)
  <2>3. Does(i, st, <<>>, Classify(w, 4), 4 - 1, Rax(a), Both(a, f))
    BY <2>1, <2>2, ZenonT(60)
  <2> QED BY <2>1, <2>3, Zenon
<1>14. Does(i, st, <<>>, e \o Classify(w, 4), 1, F, Both(a, f))
  BY <1>12, <1>13, DoesJoin, ZenonT(60)
<1>15. Both(a, f) \subseteq Post(i, b)
  <2>1. a = (b[i.src1] \cup b[i.src2]) \cap Low(i.w)
    BY ZenonT(60)
  <2> HIDE DEF a
  <2> QED BY <2>1, KortestPost, ZenonT(60)
<1> HIDE DEF a, f
<1>16. Does(i, st, <<>>, e \o Classify(w, 4), 1, Start(b), Post(i, b))
  BY <1>5, <1>14, <1>15, DoesWeak, ZenonT(60)
<1>17. Sound(i, b, e \o Classify(w, 4), 1, st, <<>>)
  BY <1>2, <1>16, SoundDoes, ZenonT(60)
<1> QED BY <1>1, <1>17, Push1, Zenon DEF st, e

\* kortest of two masks.
LEMMA KortestTwo ==
  ASSUME NEW i, IsMaskInstr(i), i.op = "kortest", NEW w \in {8, 16}, w = i.w, NEW b
  PROVE  Sound(i, b, Pushing(rax, Pushing(rdx,
                       <<Load(rax, Wide, i.src1), Load(rdx, Wide, i.src2), Movzx(rax, w), Movzx(rdx, w),
                         Alu("or", w, rax, rdx)>> \o Classify(w, 8))), 0, <<>>, <<>>)
<1>KortestLoad.
  ASSUME NEW i00, IsMaskInstr(i00), i00.op = "kortest", NEW w00 \in {8, 16}, w00 = i00.w, NEW b00, NEW st, NEW tl,
         Kept(st, tl) = {rax, rdx}
  PROVE  Anywhere(i00, st, tl, <<Load(rax, Wide, i00.src1), Load(rdx, Wide, i00.src2), Movzx(rax, w00), Movzx(rdx, w00),
                               Alu("or", w00, rax, rdx)>>,
                  Body(b00), Rax((b00[i00.src1] \cup b00[i00.src2]) \cap Low(w00)))
  <2> USE <1>KortestLoad
  \* The or of two registers that hold no more than w00 bits.
  <2>OrWhole.
    ASSUME NEW i0, NEW st0, NEW tl0, Room(i0, st0, tl0, {rax, Flags}), NEW w0 \in Widths, NEW b0,
           NEW a, NEW c, a \subseteq Low(w0), c \subseteq Low(w0)
    PROVE  Anywhere(i0, st0, tl0, <<Alu("or", w0, rax, rdx)>>, Two(b0, Wide, a, rdx, c), Rax(a \cup c))
    <3> USE <2>OrWhole
    <3> DEFINE x == Alu("or", w0, rax, rdx)
               P == Two(b0, Wide, a, rdx, c)
    <3>1. rax \in Scratch /\ rdx \in Locs /\ rdx \in Operands /\ "or" \in {"and", "or", "xor", "not"}
      BY LocFacts, Zenon DEF Scratch, Operands
    <3>2. Shaped(i0, st0, tl0, x, "or", w0, rax, rdx)
      BY <3>1, AluShape, ZenonT(60)
    <3> HIDE DEF x
    <3>3. x \in Ops /\ ~Jumps(x) /\ Harmless(i0, x, st0, tl0) /\ x.what = "or" /\ x.d = rax /\ x.w = w0 /\ x.s = rdx /\ rax # Flags
      BY <3>2, Zenon DEF Shaped
    <3>4. ASSUME NEW u \in P PROVE u \in Vals /\ u[rax] = a /\ u[rdx] = c
      <4>1. Low(Wide) = Bits
        BY DEF Low, Wide, Bits
      <4>2. u \in Vals /\ u[rax] \cap Bits = a /\ u[rdx] \cap Bits = c
        BY <4>1, Zenon DEF Two, Regs
      <4> QED BY <3>1, <4>2, LocFacts, ZenonT(60) DEF Vals
    <3>5. ASSUME NEW u \in P PROVE Outs(x, u) \subseteq Rax(a \cup c)
      <4>1. u \in Vals /\ u[rax] = a /\ u[rdx] = c
        BY <3>4, Zenon
      <4>2. Value(u, rdx) = c
        BY <4>1, Zenon DEF Value, rdx, R
      <4>3. a \cap Low(w0) = a /\ c \cap Low(w0) = c /\ a \ Low(w0) = {}
        BY Zenon
      <4>4. Outcome("or", w0, a, c) = a \cup c
        BY Zenon DEF Outcome
      <4>5. /\ Outs(x, u) = {Computed(u, x)}
            /\ Became(u, Computed(u, x), {rax, Flags}, rax, w0, a \cup c)
        <5>1. x.what \in {"and", "or", "xor", "not"} /\ x.d # Flags
          BY <3>3, Zenon
        <5>2. /\ Outs(x, u) = {Computed(u, x)}
              /\ Became(u, Computed(u, x), {x.d, Flags}, x.d, x.w,
                        Outcome(x.what, x.w, u[x.d] \cap Low(x.w), Value(u, x.s) \cap Low(x.w)))
          BY <3>3, <4>1, <5>1, AluEffect, ZenonT(60)
        <5>3. Outcome(x.what, x.w, u[x.d] \cap Low(x.w), Value(u, x.s) \cap Low(x.w)) = a \cup c
          BY <3>3, <4>1, <4>2, <4>3, <4>4, ZenonT(60)
        <5> QED BY <3>3, <5>2, <5>3, ZenonT(60)
      <4>6. Computed(u, x) \in Vals /\ Computed(u, x)[rax] = a \cup c
        BY <4>1, <4>3, <4>5, ZenonT(60) DEF Became
      <4> QED BY <4>5, <4>6, Zenon DEF Rax
    <3>6. P \in SUBSET Vals /\ Rax(a \cup c) \in SUBSET Vals
      BY <3>4, Zenon DEF Rax
    <3> HIDE DEF P
    <3>7. Anywhere(i0, st0, tl0, <<x>>, P, Rax(a \cup c))
      BY <3>3, <3>5, <3>6, AnyOne, Zenon
    <3> QED BY <3>7, Zenon DEF x, P
  <2> DEFINE a1 == b00[i00.src1] \cap Low(w00)
             a2 == b00[i00.src2] \cap Low(w00)
             w1 == b00[i00.src1] \cap Low(Wide)
             w2 == b00[i00.src2] \cap Low(Wide)
             x1 == Load(rax, Wide, i00.src1)
             x2 == Load(rdx, Wide, i00.src2)
             x3 == Movzx(rax, w00)
             x4 == Movzx(rdx, w00)
             x5 == Alu("or", w00, rax, rdx)
             F == Body(b00)
             P2 == Two(b00, Wide, w1, rdx, w2)
             P3 == (F \cap Regs(w00, rdx, a2)) \cap Regs(w00, rax, a1)
             P4 == (F \cap Regs(w00, rdx, a2)) \cap Regs(Wide, rax, a1)
             P5 == (F \cap Regs(Wide, rax, a1)) \cap Regs(w00, rdx, a2)
             P6 == (F \cap Regs(Wide, rax, a1)) \cap Regs(Wide, rdx, a2)
             P7 == Two(b00, Wide, a1, rdx, a2)
  <2>1. /\ rax \in Scratch /\ rdx \in Scratch /\ rax # rdx /\ rdx # rax /\ Flags \in Exempt(i00)
        /\ i00.src1 \in AppLocs /\ IsK(i00.src1) /\ i00.src2 \in AppLocs /\ IsK(i00.src2)
    BY KortestFacts, Zenon
  <2>2. Room(i00, st, tl, {rax}) /\ Room(i00, st, tl, {rdx}) /\ Room(i00, st, tl, {rax, Flags})
    BY <2>1, Zenon DEF Room
  <2>3. w00 \in Widths /\ Wide \in Widths
    BY Zenon DEF Widths, Wide
  <2>4. Untouched(rax, F \cap Regs(w00, rdx, a2)) /\ Untouched(rdx, F \cap Regs(Wide, rax, a1))
    <3>1. Untouched(rax, F) /\ Untouched(rdx, F)
      BY <2>1, BodyFacts, ZenonT(60)
    <3> HIDE DEF F, a1, a2
    <3> QED BY <2>1, <3>1, UntouchedRegs, ZenonT(60)
  <2>5. P2 \subseteq P3 /\ P4 = P5 /\ P6 = P7
    <3>1. /\ Regs(Wide, rax, w1) \subseteq Regs(w00, rax, a1)
          /\ Regs(Wide, rdx, w2) \subseteq Regs(w00, rdx, a2)
      BY RegsRax, Zenon
    <3> HIDE DEF F, a1, a2, w1, w2
    <3> QED BY <3>1, Zenon DEF Two, F
  <2>6. Anywhere(i00, st, tl, <<x1, x2>>, F, P2)
    BY <2>1, <2>2, <2>3, LoadTwo, ZenonT(60)
  <2>7. Anywhere(i00, st, tl, <<x3>>, P3, P4)
    <3> HIDE DEF F, a1, a2
    <3> DEFINE G == F \cap Regs(w00, rdx, a2)
    <3> HIDE DEF G
    <3>1. Untouched(rax, G)
      BY <2>4, Zenon DEF G
    <3>2. Anywhere(i00, st, tl, <<x3>>, G \cap Regs(w00, rax, a1), G \cap Regs(Wide, rax, a1))
      BY <2>1, <2>2, <2>3, <3>1, MovzxAny, ZenonT(60)
    <3> QED BY <3>2, ZenonT(60) DEF G
  <2>8. Anywhere(i00, st, tl, <<x4>>, P5, P6)
    <3> HIDE DEF F, a1, a2
    <3> DEFINE G == F \cap Regs(Wide, rax, a1)
    <3> HIDE DEF G
    <3>1. Untouched(rdx, G)
      BY <2>4, Zenon DEF G
    <3>2. Anywhere(i00, st, tl, <<x4>>, G \cap Regs(w00, rdx, a2), G \cap Regs(Wide, rdx, a2))
      BY <2>1, <2>2, <2>3, <3>1, MovzxAny, ZenonT(60)
    <3> QED BY <3>2, ZenonT(60) DEF G
  <2>9. Anywhere(i00, st, tl, <<x5>>, P7, Rax(a1 \cup a2))
    <3>1. a1 \subseteq Low(w00) /\ a2 \subseteq Low(w00)
      BY Zenon
    <3> HIDE DEF a1, a2
    <3> QED BY <2>2, <2>3, <3>1, <2>OrWhole, ZenonT(60)
  <2>10. a1 \cup a2 = (b00[i00.src1] \cup b00[i00.src2]) \cap Low(w00)
    BY Zenon
  <2> HIDE DEF P2, P3, P4, P5, P6, P7, F, a1, a2, x1, x2, x3, x4, x5
  <2>11. Anywhere(i00, st, tl, <<x3>>, P2, P4)
    <3>1. P4 \subseteq P4
      BY Zenon
    <3> QED BY <2>5, <2>7, <3>1, AnyWeak, ZenonT(60)
  <2>12. Anywhere(i00, st, tl, <<x1, x2, x3>>, F, P4)
    BY <2>6, <2>11, AnyThree, ZenonT(60)
  <2>13. Anywhere(i00, st, tl, <<x4, x5>>, P4, Rax(a1 \cup a2))
    BY <2>5, <2>8, <2>9, AnyTwo, ZenonT(60)
  <2>14. Anywhere(i00, st, tl, <<x1, x2, x3, x4, x5>>, F, Rax(a1 \cup a2))
    BY <2>12, <2>13, AnyFive, ZenonT(60)
  <2> QED BY <2>10, <2>14, ZenonT(60) DEF F, x1, x2, x3, x4, x5
<1> DEFINE st == On2(rax, rdx)
           a == (b[i.src1] \cup b[i.src2]) \cap Low(w)
           f == TestFlags(a = {}, a = Low(w))
           e == <<Load(rax, Wide, i.src1), Load(rdx, Wide, i.src2), Movzx(rax, w), Movzx(rdx, w),
                  Alu("or", w, rax, rdx)>>
<1>1. /\ WritesFlags(i) /\ Written(i) \in Locs /\ rax # rdx
      /\ rax \in AppLocs \ Exempt(i) /\ rax \in AppLocs /\ rdx \in AppLocs \ Exempt(i) /\ rdx \in AppLocs
  BY KortestFacts, Zenon
<1>2. st \in Stacks /\ Kept(st, <<>>) = {rax, rdx} /\ <<>> \in Savings
  BY <1>1, OnFacts, KeptNone, Zenon
<1> HIDE DEF st
<1>3. Anywhere(i, st, <<>>, e, Body(b), Rax(a))
  BY <1>2, <1>KortestLoad, ZenonT(60)
<1>4. Len(e) = 5
  BY Zenon
<1>5. Does(i, st, <<>>, e, 2, Body(b), Rax(a))
  BY <1>3, Zenon DEF Anywhere
<1> HIDE DEF e
<1>6. Does(i, st, <<>>, Classify(w, 8), 2 + Len(e), Rax(a), Both(a, f))
  <2>1. 8 \in Nat /\ 8 >= 1 /\ 8 - 1 = 2 + Len(e) /\ a \subseteq Low(w)
    BY <1>4
  <2>2. ASSUME NEW at \in Nat, at >= 1 PROVE Does(i, st, <<>>, Classify(w, at), at - 1, Rax(a), Both(a, f))
    <3> HIDE DEF a
    <3> QED BY <1>1, <2>1, <2>2, ClassifyDoes, ZenonT(60)
  <2>3. Does(i, st, <<>>, Classify(w, 8), 8 - 1, Rax(a), Both(a, f))
    BY <2>1, <2>2, Zenon
  <2> QED BY <2>1, <2>3, ZenonT(60)
<1>7. Both(a, f) \subseteq Post(i, b) /\ Start(b) \subseteq Body(b)
  <2> HIDE DEF a
  <2>1. a = (b[i.src1] \cup b[i.src2]) \cap Low(i.w)
    BY Zenon DEF a
  <2> QED BY <2>1, KortestPost, BodyFacts, ZenonT(60)
<1> HIDE DEF a, f
<1>8. Does(i, st, <<>>, e \o Classify(w, 8), 2, Body(b), Both(a, f))
  BY ZenonT(60), <1>5, <1>6, DoesJoin
<1>9. Does(i, st, <<>>, e \o Classify(w, 8), 2, Start(b), Post(i, b))
  BY <1>7, <1>8, DoesWeak, Zenon
<1>10. Sound(i, b, e \o Classify(w, 8), 2, st, <<>>)
  BY <1>2, <1>9, SoundDoes, Zenon
<1> QED BY <1>1, <1>10, Push2, Zenon DEF st, e

\* kortest, whether or not its operands are the same.
LEMMA KortestSound ==
  ASSUME NEW i, IsMaskInstr(i), i.op = "kortest", i.w \in {8, 16}, NEW b
  PROVE  Sound(i, b, Kortest(i.w, i), 0, <<>>, <<>>)
BY KortestOne, KortestTwo, ZenonT(60) DEF Kortest, Wide

\* The entries of the table that Supported admits.
LEMMA Entries ==
  ASSUME NEW i
  PROVE  /\ i.op = "kmov" /\ i.w = 8 => rewrite_funcs(i) = rw_func_kmovb(i)
         /\ i.op = "kmov" /\ i.w = 16 => rewrite_funcs(i) = rw_func_kmovw(i)
         /\ i.op = "kmov" /\ i.w = 32 => rewrite_funcs(i) = rw_func_kmovd(i)
         /\ i.op = "kmov" /\ i.w = 64 => rewrite_funcs(i) = rw_func_kmovq(i)
         /\ i.op = "kand" /\ i.w = 8 => rewrite_funcs(i) = rw_func_kandb(i)
         /\ i.op = "kand" /\ i.w = 16 => rewrite_funcs(i) = rw_func_kandw(i)
         /\ i.op = "kand" /\ i.w = 32 => rewrite_funcs(i) = rw_func_kandd(i)
         /\ i.op = "kand" /\ i.w = 64 => rewrite_funcs(i) = rw_func_kandq(i)
         /\ i.op = "kandn" /\ i.w = 8 => rewrite_funcs(i) = rw_func_kandnb(i)
         /\ i.op = "kandn" /\ i.w = 16 => rewrite_funcs(i) = rw_func_kandnw(i)
         /\ i.op = "kandn" /\ i.w = 32 => rewrite_funcs(i) = rw_func_kandnd(i)
         /\ i.op = "kandn" /\ i.w = 64 => rewrite_funcs(i) = rw_func_kandnq(i)
         /\ i.op = "kor" /\ i.w = 8 => rewrite_funcs(i) = rw_func_korb(i)
         /\ i.op = "kor" /\ i.w = 16 => rewrite_funcs(i) = rw_func_korw(i)
         /\ i.op = "kor" /\ i.w = 32 => rewrite_funcs(i) = rw_func_kord(i)
         /\ i.op = "kor" /\ i.w = 64 => rewrite_funcs(i) = rw_func_korq(i)
         /\ i.op = "knot" /\ i.w = 8 => rewrite_funcs(i) = rw_func_knotb(i)
         /\ i.op = "knot" /\ i.w = 16 => rewrite_funcs(i) = rw_func_knotw(i)
         /\ i.op = "knot" /\ i.w = 32 => rewrite_funcs(i) = rw_func_knotd(i)
         /\ i.op = "knot" /\ i.w = 64 => rewrite_funcs(i) = rw_func_knotq(i)
         /\ i.op = "kxnor" /\ i.w = 8 => rewrite_funcs(i) = rw_func_kxnorb(i)
         /\ i.op = "kxnor" /\ i.w = 16 => rewrite_funcs(i) = rw_func_kxnorw(i)
         /\ i.op = "kxnor" /\ i.w = 32 => rewrite_funcs(i) = rw_func_kxnord(i)
         /\ i.op = "kxnor" /\ i.w = 64 => rewrite_funcs(i) = rw_func_kxnorq(i)
         /\ i.op = "kortest" /\ i.w = 8 => rewrite_funcs(i) = rw_func_kortestb(i)
         /\ i.op = "kortest" /\ i.w = 16 => rewrite_funcs(i) = rw_func_kortestw(i)
         /\ i.op = "kshiftl" /\ i.w = 8 => rewrite_funcs(i) = rw_func_kshiftlb(i)
         /\ i.op = "kshiftl" /\ i.w = 16 => rewrite_funcs(i) = rw_func_kshiftlw(i)
         /\ i.op = "kshiftl" /\ i.w = 32 => rewrite_funcs(i) = rw_func_kshiftld(i)
         /\ i.op = "kshiftl" /\ i.w = 64 => rewrite_funcs(i) = rw_func_kshiftlq(i)
         /\ i.op = "kshiftr" /\ i.w = 8 => rewrite_funcs(i) = rw_func_kshiftrb(i)
         /\ i.op = "kshiftr" /\ i.w = 16 => rewrite_funcs(i) = rw_func_kshiftrw(i)
         /\ i.op = "kshiftr" /\ i.w = 32 => rewrite_funcs(i) = rw_func_kshiftrd(i)
         /\ i.op = "kshiftr" /\ i.w = 64 => rewrite_funcs(i) = rw_func_kshiftrq(i)
         /\ i.op = "kunpck" /\ i.w = 16 => rewrite_funcs(i) = rw_func_kunpckbw(i)
         /\ i.op = "kunpck" /\ i.w = 32 => rewrite_funcs(i) = rw_func_kunpckwd(i)
<1>1. ASSUME i.op = "kmov" PROVE /\ i.w = 8 => rewrite_funcs(i) = rw_func_kmovb(i)
                                 /\ i.w = 16 => rewrite_funcs(i) = rw_func_kmovw(i)
                                 /\ i.w = 32 => rewrite_funcs(i) = rw_func_kmovd(i)
                                 /\ i.w = 64 => rewrite_funcs(i) = rw_func_kmovq(i)
  BY SMTT(30), <1>1 DEF rewrite_funcs
<1>2. ASSUME i.op = "kand" PROVE /\ i.w = 8 => rewrite_funcs(i) = rw_func_kandb(i)
                                 /\ i.w = 16 => rewrite_funcs(i) = rw_func_kandw(i)
                                 /\ i.w = 32 => rewrite_funcs(i) = rw_func_kandd(i)
                                 /\ i.w = 64 => rewrite_funcs(i) = rw_func_kandq(i)
  BY SMTT(30), <1>2 DEF rewrite_funcs
<1>3. ASSUME i.op = "kandn" PROVE /\ i.w = 8 => rewrite_funcs(i) = rw_func_kandnb(i)
                                  /\ i.w = 16 => rewrite_funcs(i) = rw_func_kandnw(i)
                                  /\ i.w = 32 => rewrite_funcs(i) = rw_func_kandnd(i)
                                  /\ i.w = 64 => rewrite_funcs(i) = rw_func_kandnq(i)
  BY SMTT(30), <1>3 DEF rewrite_funcs
<1>4. ASSUME i.op = "kor" PROVE /\ i.w = 8 => rewrite_funcs(i) = rw_func_korb(i)
                                /\ i.w = 16 => rewrite_funcs(i) = rw_func_korw(i)
                                /\ i.w = 32 => rewrite_funcs(i) = rw_func_kord(i)
                                /\ i.w = 64 => rewrite_funcs(i) = rw_func_korq(i)
  BY SMTT(30), <1>4 DEF rewrite_funcs
<1>5. ASSUME i.op = "knot" PROVE /\ i.w = 8 => rewrite_funcs(i) = rw_func_knotb(i)
                                 /\ i.w = 16 => rewrite_funcs(i) = rw_func_knotw(i)
                                 /\ i.w = 32 => rewrite_funcs(i) = rw_func_knotd(i)
                                 /\ i.w = 64 => rewrite_funcs(i) = rw_func_knotq(i)
  BY SMTT(30), <1>5 DEF rewrite_funcs
<1>6. ASSUME i.op = "kxnor" PROVE /\ i.w = 8 => rewrite_funcs(i) = rw_func_kxnorb(i)
                                  /\ i.w = 16 => rewrite_funcs(i) = rw_func_kxnorw(i)
                                  /\ i.w = 32 => rewrite_funcs(i) = rw_func_kxnord(i)
                                  /\ i.w = 64 => rewrite_funcs(i) = rw_func_kxnorq(i)
  BY SMTT(30), <1>6 DEF rewrite_funcs
<1>7. ASSUME i.op = "kortest" PROVE /\ i.w = 8 => rewrite_funcs(i) = rw_func_kortestb(i)
                                    /\ i.w = 16 => rewrite_funcs(i) = rw_func_kortestw(i)
  BY SMTT(30), <1>7 DEF rewrite_funcs
<1>8. ASSUME i.op = "kshiftl" PROVE /\ i.w = 8 => rewrite_funcs(i) = rw_func_kshiftlb(i)
                                    /\ i.w = 16 => rewrite_funcs(i) = rw_func_kshiftlw(i)
                                    /\ i.w = 32 => rewrite_funcs(i) = rw_func_kshiftld(i)
                                    /\ i.w = 64 => rewrite_funcs(i) = rw_func_kshiftlq(i)
  BY SMTT(30), <1>8 DEF rewrite_funcs
<1>9. ASSUME i.op = "kshiftr" PROVE /\ i.w = 8 => rewrite_funcs(i) = rw_func_kshiftrb(i)
                                    /\ i.w = 16 => rewrite_funcs(i) = rw_func_kshiftrw(i)
                                    /\ i.w = 32 => rewrite_funcs(i) = rw_func_kshiftrd(i)
                                    /\ i.w = 64 => rewrite_funcs(i) = rw_func_kshiftrq(i)
  BY SMTT(30), <1>9 DEF rewrite_funcs
<1>10. ASSUME i.op = "kunpck" PROVE /\ i.w = 16 => rewrite_funcs(i) = rw_func_kunpckbw(i)
                                    /\ i.w = 32 => rewrite_funcs(i) = rw_func_kunpckwd(i)
  BY SMTT(30), <1>10 DEF rewrite_funcs
<1> QED BY SMTT(30), <1>1, <1>2, <1>3, <1>4, <1>5, <1>6, <1>7, <1>8, <1>9, <1>10

\* The entries of the table for kand, kandn, kor and knot.
LEMMA LogicChains ==
  ASSUME NEW i, IsMaskInstr(i), NEW b
  PROVE  /\ i.op = "kand" => Sound(i, b, rewrite_funcs(i), 0, <<>>, <<>>)
         /\ i.op = "kandn" => Sound(i, b, rewrite_funcs(i), 0, <<>>, <<>>)
         /\ i.op = "kor" => Sound(i, b, rewrite_funcs(i), 0, <<>>, <<>>)
         /\ i.op = "knot" => Sound(i, b, rewrite_funcs(i), 0, <<>>, <<>>)
<1>1. i.w \in {8, 16, 32, 64}
  BY Zenon DEF IsMaskInstr, Widths
<1>2. i.op \in {"kand", "kandn", "kor", "knot"} => ToMask(i) /\ IsK(i.src1) /\ IsK(i.src2)
  BY Zenon DEF IsMaskInstr, ToMask, WritesFlags
<1>3. ASSUME i.op = "kand" PROVE Sound(i, b, rewrite_funcs(i), 0, <<>>, <<>>)
  <2>1. Sound(i, b, KeptWith(TwoMasks(i.w, i, <<Alu("and", i.w, rax, rbx)>>)), 0, <<>>, <<>>)
    BY <1>2, <1>3, KandSound, ZenonT(60)
  <2>2. rewrite_funcs(i) = KeptWith(TwoMasks(i.w, i, <<Alu("and", i.w, rax, rbx)>>))
    BY <1>1, <1>3, Entries, ZenonT(60) DEF rw_func_kandb, rw_func_kandw, rw_func_kandd, rw_func_kandq
  <2> QED BY <2>1, <2>2, ZenonT(60)
<1>4. ASSUME i.op = "kandn" PROVE Sound(i, b, rewrite_funcs(i), 0, <<>>, <<>>)
  <2>1. Sound(i, b, KeptWith(TwoMasks(i.w, i, AndNot(i.w))), 0, <<>>, <<>>)
    BY <1>2, <1>4, KandnSound, ZenonT(60)
  <2>2. rewrite_funcs(i) = KeptWith(TwoMasks(i.w, i, AndNot(i.w)))
    BY <1>1, <1>4, Entries, ZenonT(60) DEF rw_func_kandnb, rw_func_kandnw, rw_func_kandnd, rw_func_kandnq
  <2> QED BY <2>1, <2>2, Zenon
<1>5. ASSUME i.op = "kor" PROVE Sound(i, b, rewrite_funcs(i), 0, <<>>, <<>>)
  <2>1. /\ Sound(i, b, TwoMasks(i.w, i, OrMasked(i.w)), 0, <<>>, <<>>)
        /\ Sound(i, b, TwoMasks(i.w, i, <<Alu("or", i.w, rax, rbx)>>), 0, <<>>, <<>>)
    BY <1>2, <1>5, KorSound, Zenon
  <2>2. \/ rewrite_funcs(i) = TwoMasks(i.w, i, OrMasked(i.w))
        \/ rewrite_funcs(i) = TwoMasks(i.w, i, <<Alu("or", i.w, rax, rbx)>>)
    BY <1>1, <1>5, Entries, Zenon DEF rw_func_korb, rw_func_korw, rw_func_kord, rw_func_korq
  <2> QED BY <2>1, <2>2, Zenon
<1>6. ASSUME i.op = "knot" PROVE Sound(i, b, rewrite_funcs(i), 0, <<>>, <<>>)
  <2>1. /\ Sound(i, b, OneMask(i.w, i, NotMasked(i.w)), 0, <<>>, <<>>)
        /\ Sound(i, b, OneMask(i.w, i, <<Alu("not", i.w, rax, rax)>>), 0, <<>>, <<>>)
    BY <1>2, <1>6, KnotSound, Zenon
  <2>2. \/ rewrite_funcs(i) = OneMask(i.w, i, NotMasked(i.w))
        \/ rewrite_funcs(i) = OneMask(i.w, i, <<Alu("not", i.w, rax, rax)>>)
    BY <1>1, <1>6, Entries, ZenonT(60) DEF rw_func_knotb, rw_func_knotw, rw_func_knotd, rw_func_knotq
  <2> QED BY <2>1, <2>2, Zenon
<1> QED BY <1>3, <1>4, <1>5, <1>6, ZenonT(60)

\* The entries for kshiftl and kshiftr.
LEMMA ShiftChains ==
  ASSUME NEW i, IsMaskInstr(i), Supported(i), NEW b, i.op \in {"kshiftl", "kshiftr"}
  PROVE  Sound(i, b, rewrite_funcs(i), 0, <<>>, <<>>)
<1>1. i.w \in {8, 16, 32, 64}
  BY Zenon DEF IsMaskInstr, Widths
<1>2. ToMask(i) /\ Shifts(i) /\ ~WritesFlags(i)
  BY Zenon DEF IsMaskInstr, ToMask, WritesFlags, Shifts, Supported
<1>3. /\ Sound(i, b, ShiftWide(ShiftOf(i), i.w, i), 0, <<>>, <<>>)
      /\ Sound(i, b, ShiftNarrow(ShiftOf(i), i.w, i.w, i), 0, <<>>, <<>>)
      /\ i.op = "kshiftr" => Sound(i, b, ShiftNarrow(ShiftOf(i), i.w, Wide, i), 0, <<>>, <<>>)
  BY <1>2, ShiftWideSound, ShiftNarrowSound, Zenon
<1>4. /\ Sound(i, b, KeptWith(ShiftWide(ShiftOf(i), i.w, i)), 0, <<>>, <<>>)
      /\ Sound(i, b, KeptWith(ShiftNarrow(ShiftOf(i), i.w, i.w, i)), 0, <<>>, <<>>)
  BY <1>2, <1>3, SoundKept, Zenon
<1>5. CASE i.op = "kshiftl"
  <2>1. ShiftOf(i) = "shl"
    BY <1>5, Zenon DEF ShiftOf
  <2>2. \/ rewrite_funcs(i) = KeptWith(ShiftWide("shl", i.w, i))
        \/ rewrite_funcs(i) = KeptWith(ShiftNarrow("shl", i.w, i.w, i))
    BY <1>1, <1>5, Entries, ZenonT(60) DEF rw_func_kshiftlb, rw_func_kshiftlw, rw_func_kshiftld, rw_func_kshiftlq
  <2> QED BY <1>4, <2>1, <2>2, Zenon
<1>6. CASE i.op = "kshiftr"
  <2>1. ShiftOf(i) = "shr"
    BY <1>6, ZenonT(60) DEF ShiftOf
  <2>2. \/ rewrite_funcs(i) = KeptWith(ShiftWide("shr", i.w, i))
        \/ rewrite_funcs(i) = KeptWith(ShiftNarrow("shr", i.w, i.w, i))
        \/ rewrite_funcs(i) = ShiftNarrow("shr", i.w, Wide, i)
    BY <1>1, <1>6, Entries, SMTT(30) DEF rw_func_kshiftrb, rw_func_kshiftrw, rw_func_kshiftrd, rw_func_kshiftrq, Wide
  <2> QED BY <1>3, <1>4, <1>6, <2>1, <2>2, ZenonT(60)
<1> QED BY <1>5, <1>6, Zenon

\* The entries for kxnor.
LEMMA XnorChains ==
  ASSUME NEW i, IsMaskInstr(i), Supported(i), NEW b, i.op = "kxnor"
  PROVE  Sound(i, b, rewrite_funcs(i), 0, <<>>, <<>>)
<1>1. i.w \in {8, 16, 32, 64}
  BY Zenon DEF IsMaskInstr, Widths
<1>2. ToMask(i) /\ IsK(i.src1) /\ IsK(i.src2) /\ ~WritesFlags(i)
  BY Zenon DEF IsMaskInstr, ToMask, WritesFlags
<1>3. CASE i.src1 = i.src2
  <2>1. rewrite_funcs(i) = AllOnes(i.w, i.dst)
    BY <1>1, <1>3, Entries, SMTT(30) DEF Supported, rw_func_kxnorb, rw_func_kxnorw, rw_func_kxnord, rw_func_kxnorq
  <2> QED BY <1>2, <1>3, <2>1, AllOnesSound, ZenonT(60)
<1>4. CASE i.src1 # i.src2
  <2> DEFINE c1 == Xnor(i, <<Alu("and", Wide, rax, Imm(Low(i.w)))>>)
             c2 == Xnor(i, <<MovImm(rcx, Low(i.w)), Alu("and", Wide, rax, rcx)>>)
  <2>1. /\ Sound(i, b, c1, 0, <<>>, <<>>) /\ (i.w = Wide => Sound(i, b, Xnor(i, <<>>), 0, <<>>, <<>>))
        /\ Sound(i, b, c2, 0, <<>>, <<>>)
    BY <1>2, KxnorSound, Zenon
  <2>2. CASE i.w \in {8, 16}
    <3>1. rewrite_funcs(i) = c1
      <4>1. Low(8) = 0 .. 7 /\ Low(16) = 0 .. 15
        BY DEF Low
      <4>2. i.w = 8 => rewrite_funcs(i) = rw_func_kxnorb(i)
        BY Entries, Zenon
      <4>3. i.w = 16 => rewrite_funcs(i) = rw_func_kxnorw(i)
        BY Entries, Zenon
      <4>4. i.w = 8 \/ i.w = 16
        BY <2>2, Zenon
      <4> QED BY <1>4, <4>1, <4>2, <4>3, <4>4, ZenonT(60) DEF rw_func_kxnorb, rw_func_kxnorw, Wide
    <3> QED BY <2>1, <3>1, Zenon
  <2>3. CASE i.w = 32
    <3>1. rewrite_funcs(i) = KeptWith(c2)
      <4>1. Low(32) = 0 .. 31
        BY DEF Low
      <4>2. rewrite_funcs(i) = rw_func_kxnord(i)
        BY <2>3, Entries, Zenon
      <4> QED BY <1>4, <2>3, <4>1, <4>2, ZenonT(60) DEF rw_func_kxnord, Wide
    <3> HIDE DEF c2
    <3>2. Sound(i, b, KeptWith(c2), 0, <<>>, <<>>)
      BY <1>2, <2>1, SoundKept, Zenon
    <3> QED BY <3>1, <3>2, Zenon
  <2>4. CASE i.w = Wide
    <3>1. rewrite_funcs(i) = Xnor(i, <<>>)
      BY <1>4, <2>4, Entries, ZenonT(60) DEF rw_func_kxnorq, Wide
    <3> QED BY <2>1, <2>4, <3>1, Zenon
  <2> QED BY <1>1, <2>2, <2>3, <2>4, ZenonT(60) DEF Wide
<1> QED BY <1>3, <1>4, Zenon

\* The entries for kunpck.
LEMMA UnpckChains ==
  ASSUME NEW i, IsMaskInstr(i), Supported(i), NEW b, i.op = "kunpck"
  PROVE  Sound(i, b, rewrite_funcs(i), 0, <<>>, <<>>)
<1>1. i.w \in {16, 32} /\ ToMask(i)
  BY ZenonT(60) DEF Supported, IsMaskInstr, ToMask, WritesFlags
<1>2. CASE i.w = 16
  <2>1. Halves(i, 8, 0 .. 7, 8 .. 15)
    BY <1>2 DEF Halves, Low
  <2>2. rewrite_funcs(i) = rw_func_kunpckbw(i)
    BY <1>2, Entries, Zenon
  <2>3. \A h, y, z : Halves(i, h, y, z) =>
          Sound(i, b, Saving(rax, Tls(1), Saving(rcx, Tls(3),
                        <<Load(rax, Wide, i.src1), Load(rcx, Wide, i.src2), Shift("shl", Wide, rax, h),
                          Alu("and", Wide, rax, Imm(z)), Alu("and", Wide, rcx, Imm(y)),
                          Alu("or", Wide, rcx, rax), Store(rcx, Wide, i.dst)>>)), 0, <<>>, <<>>)
    BY <1>1, UnpckNarrowSound, ZenonT(60)
  <2> QED BY <2>1, <2>2, <2>3, SMTT(30) DEF rw_func_kunpckbw, Wide
<1>3. CASE i.w = 32
  <2>1. Halves(i, 16, 0 .. 15, 16 .. 31)
    BY <1>3 DEF Halves, Low
  <2>2. rewrite_funcs(i) = rw_func_kunpckwd(i)
    BY <1>3, Entries, Zenon
  <2>3. \A h, y, z : Halves(i, h, y, z) =>
          Sound(i, b, Saving(rax, Tls(1), Saving(rcx, Tls(3), Saving(rdx, Tls(2),
                        <<Load(rax, Wide, i.src1), Load(rcx, Wide, i.src2), Shift("shl", Wide, rax, h),
                          MovImm(rdx, z), Alu("and", Wide, rax, rdx), MovImm(rdx, y), Alu("and", Wide, rcx, rdx),
                          Alu("or", Wide, rcx, rax), Store(rcx, Wide, i.dst)>>))), 0, <<>>, <<>>)
    BY <1>1, UnpckWideSound, Zenon
  <2> QED BY <2>1, <2>2, <2>3, SMTT(30) DEF rw_func_kunpckwd, Wide
<1> QED BY <1>1, <1>2, <1>3, ZenonT(60)

\* The entries for kortest.
LEMMA KortestChains ==
  ASSUME NEW i, IsMaskInstr(i), Supported(i), NEW b, i.op = "kortest"
  PROVE  Sound(i, b, rewrite_funcs(i), 0, <<>>, <<>>)
<1>1. i.w \in {8, 16}
  BY Zenon DEF Supported
<1>2. Sound(i, b, Kortest(i.w, i), 0, <<>>, <<>>)
  BY <1>1, KortestSound, Zenon
<1>3. rewrite_funcs(i) = Kortest(i.w, i)
  BY <1>1, Entries, Zenon DEF rw_func_kortestb, rw_func_kortestw
<1> QED BY <1>2, <1>3, Zenon

\* The entries for kmov, for the operands that Supported admits.
LEMMA KmovChains ==
  ASSUME NEW i, IsMaskInstr(i), Supported(i), NEW b, i.op = "kmov"
  PROVE  Sound(i, b, rewrite_funcs(i), 0, <<>>, <<>>)
<1>1. i.w \in {8, 16, 32, 64} /\ (IsK(i.dst) \/ IsK(i.src1))
  BY Zenon DEF IsMaskInstr, Widths
<1>2. /\ i.w = 8 => rewrite_funcs(i) = rw_func_kmovb(i)
      /\ i.w = 16 => rewrite_funcs(i) = rw_func_kmovw(i)
      /\ i.w = 32 => rewrite_funcs(i) = rw_func_kmovd(i)
      /\ i.w = 64 => rewrite_funcs(i) = rw_func_kmovq(i)
  BY Entries, Zenon
<1>3. CASE IsK(i.dst) /\ ~IsK(i.src1)
  <2>1. i.w = 64 \/ i.src1 # (IF i.w = 8 THEN r15 ELSE rax)
    BY <1>3, Zenon DEF Supported, FromGpr
  <2>2. CASE i.w \in {16, 32}
    <3>1. rewrite_funcs(i) = Saving(rax, Tls(1), <<Alu("xor", Wide, rax, rax), Store(rax, Wide, i.dst),
                                                   Store(i.src1, i.w, i.dst)>>)
      BY <1>2, <1>3, <2>2, ZenonT(60) DEF rw_func_kmovw, rw_func_kmovd, Wide
    <3>2. i.src1 # rax
      BY <2>1, <2>2, SMTT(30)
    <3> QED BY <1>3, <2>2, <3>1, <3>2, FromGprSound, Zenon
  <2>3. CASE i.w = 8
    <3>1. rewrite_funcs(i) = Pushing(Flags, Pushing(r15, <<Alu("xor", Wide, r15, r15), Store(r15, Wide, i.dst),
                                                           Store(i.src1, i.w, i.dst)>>))
      BY <1>2, <1>3, <2>3, ZenonT(60) DEF rw_func_kmovb, Wide
    <3>2. i.src1 # r15 /\ i.w \notin {16, 32}
      BY <2>1, <2>3, SMTT(30)
    <3> QED BY <1>3, <3>1, <3>2, FromGprSound, ZenonT(60)
  <2>4. CASE i.w = 64
    <3>1. rewrite_funcs(i) = <<Store(i.src1, i.w, i.dst)>>
      BY <1>2, <1>3, <2>4, Zenon DEF rw_func_kmovq
    <3>2. i.w = Wide
      BY <2>4, Zenon DEF Wide
    <3> QED BY <1>3, <3>1, <3>2, FromGprSound, ZenonT(60)
  <2> QED BY <1>1, <2>2, <2>3, <2>4, ZenonT(60)
<1>4. CASE ~IsK(i.dst) /\ IsK(i.src1)
  <2>1. i.w = 16 => i.dst = rax
    BY <1>4, Zenon DEF Supported, ToGpr
  <2>2. CASE i.w \in {32, 64}
    <3>1. rewrite_funcs(i) = <<Load(i.dst, i.w, i.src1)>>
      BY <1>2, <1>4, <2>2, ZenonT(60) DEF rw_func_kmovd, rw_func_kmovq
    <3>2. Sound(i, b, <<Load(i.dst, i.w, i.src1)>>, 0, <<>>, <<>>)
      BY <1>4, <2>2, ToGprSound, ZenonT(60)
    <3> QED BY <3>1, <3>2, Zenon
  <2>3. CASE i.w = 16
    <3>1. rewrite_funcs(i) = <<Load(i.dst, i.w, i.src1), Movzx(rax, i.w)>>
      BY <1>2, <1>4, <2>3, ZenonT(60) DEF rw_func_kmovw
    <3> QED BY <1>4, <2>1, <2>3, <3>1, ToGprSound, Zenon
  <2>4. CASE i.w = 8
    <3>1. rewrite_funcs(i) = Pushing(Flags, <<Alu("xor", 32, i.dst, i.dst), Load(i.dst, i.w, i.src1)>>)
      BY <1>2, <1>4, <2>4, ZenonT(60) DEF rw_func_kmovb
    <3> QED BY <1>4, <3>1, ToGprSound, ZenonT(60)
  <2> QED BY <1>1, <2>2, <2>3, <2>4, ZenonT(60)
<1>5. CASE IsK(i.dst) /\ IsK(i.src1)
  <2>1. i.w \in {8, 16, 64} /\ (i.w = 8 => i.src1 # i.dst)
    BY <1>1, <1>5, Zenon DEF Supported, FromGpr, ToGpr
  <2>2. CASE i.w \in {16, 64}
    <3>1. rewrite_funcs(i) = Saving(rax, Tls(1), <<Load(rax, Wide, i.src1), Store(rax, i.w, i.dst)>>)
      BY <1>2, <1>5, <2>2, ZenonT(60) DEF rw_func_kmovw, rw_func_kmovq, Wide
    <3> QED BY <1>5, <3>1, MaskToMaskSound, Zenon
  <2>3. CASE i.w = 8
    <3>1. rewrite_funcs(i) = Pushing(Flags, Saving(r11, Tls(1), Saving(r12, Tls(2),
                               <<Alu("xor", Wide, r12, r12), Store(r12, Wide, i.dst),
                                 Load(r11, i.w, i.src1), Store(r11, i.w, i.dst)>>)))
      BY <1>2, <1>5, <2>3, ZenonT(60) DEF rw_func_kmovb, Wide
    <3> QED BY <1>5, <2>1, <2>3, <3>1, MaskToMaskSound, ZenonT(60)
  <2> QED BY <2>1, <2>2, <2>3, Zenon
<1> QED BY <1>1, <1>3, <1>4, <1>5, ZenonT(60)

\* Every chain keeps the registers and computes what its instruction should.
LEMMA ChainSound ==
  ASSUME NEW i, IsMaskInstr(i), Supported(i), NEW b
  PROVE  Sound(i, b, rewrite_funcs(i), 0, <<>>, <<>>)
<1>1. i.op \in {"kmov", "kand", "kandn", "kor", "knot", "kxnor", "kunpck", "kortest", "kshiftl", "kshiftr"}
  BY Zenon DEF IsMaskInstr, Supported
<1> QED BY <1>1, LogicChains, ShiftChains, XnorChains, UnpckChains, KortestChains, KmovChains, SMTT(30)

\* No entry that Supported admits is NULL_INSTR.
LEMMA ChainExists ==
  ASSUME NEW i, IsMaskInstr(i), Supported(i)
  PROVE  rewrite_funcs(i) # <<>>
<1>1. i.w \in {8, 16, 32, 64}
  BY Zenon DEF IsMaskInstr, Widths
<1>2. ASSUME i.op = "kmov" PROVE rewrite_funcs(i) # <<>>
  <2>1. IsK(i.dst) \/ IsK(i.src1)
    BY <1>2, Zenon DEF IsMaskInstr
  <2>2. /\ rw_func_kmovb(i) # <<>> /\ rw_func_kmovw(i) # <<>>
        /\ rw_func_kmovd(i) # <<>> /\ rw_func_kmovq(i) # <<>>
    BY <2>1 DEF rw_func_kmovb, rw_func_kmovw, rw_func_kmovd, rw_func_kmovq, Saving, Pushing
  <2> QED BY <1>1, <1>2, <2>2, Entries, ZenonT(60)
<1>3. ASSUME i.op \in {"kand", "kandn"} PROVE rewrite_funcs(i) # <<>>
  <2>1. /\ rw_func_kandb(i) # <<>> /\ rw_func_kandw(i) # <<>>
        /\ rw_func_kandd(i) # <<>> /\ rw_func_kandq(i) # <<>>
    BY DEF rw_func_kandb, rw_func_kandw, rw_func_kandd, rw_func_kandq, KeptWith, TwoMasks, Pushing
  <2>2. /\ rw_func_kandnb(i) # <<>> /\ rw_func_kandnw(i) # <<>>
        /\ rw_func_kandnd(i) # <<>> /\ rw_func_kandnq(i) # <<>>
    BY DEF rw_func_kandnb, rw_func_kandnw, rw_func_kandnd, rw_func_kandnq, KeptWith, TwoMasks, AndNot, Pushing
  <2> QED BY <1>1, <1>3, <2>1, <2>2, Entries, ZenonT(60)
<1>4. ASSUME i.op \in {"kor", "knot"} PROVE rewrite_funcs(i) # <<>>
  <2>1. /\ rw_func_korb(i) # <<>> /\ rw_func_korw(i) # <<>>
        /\ rw_func_kord(i) # <<>> /\ rw_func_korq(i) # <<>>
    BY DEF rw_func_korb, rw_func_korw, rw_func_kord, rw_func_korq, TwoMasks, OrMasked, Pushing
  <2>2. /\ rw_func_knotb(i) # <<>> /\ rw_func_knotw(i) # <<>>
        /\ rw_func_knotd(i) # <<>> /\ rw_func_knotq(i) # <<>>
    BY DEF rw_func_knotb, rw_func_knotw, rw_func_knotd, rw_func_knotq, OneMask, NotMasked, Pushing
  <2> QED BY <1>1, <1>4, <2>1, <2>2, Entries, ZenonT(60)
<1>5. ASSUME i.op \in {"kxnor", "kunpck"} PROVE rewrite_funcs(i) # <<>>
  <2>1. /\ rw_func_kxnorb(i) # <<>> /\ rw_func_kxnorw(i) # <<>>
        /\ rw_func_kxnord(i) # <<>> /\ rw_func_kxnorq(i) # <<>>
    BY DEF rw_func_kxnorb, rw_func_kxnorw, rw_func_kxnord, rw_func_kxnorq, KeptWith, AllOnes, Xnor, Pushing
  <2>2. rw_func_kunpckbw(i) # <<>> /\ rw_func_kunpckwd(i) # <<>>
    BY DEF rw_func_kunpckbw, rw_func_kunpckwd, Saving
  <2>3. i.op = "kunpck" => i.w \in {16, 32}
    BY Zenon DEF Supported
  <2> QED BY <1>1, <1>5, <2>1, <2>2, <2>3, Entries, ZenonT(60)
<1>6. ASSUME i.op = "kortest" PROVE rewrite_funcs(i) # <<>>
  <2>1. rw_func_kortestb(i) # <<>> /\ rw_func_kortestw(i) # <<>>
    BY DEF rw_func_kortestb, rw_func_kortestw, Kortest, Classify, Pushing
  <2>2. i.w \in {8, 16}
    BY <1>6, Zenon DEF Supported
  <2> QED BY <1>6, <2>1, <2>2, Entries, ZenonT(60)
<1>7. ASSUME i.op \in {"kshiftl", "kshiftr"} PROVE rewrite_funcs(i) # <<>>
  <2>1. \A f, w, z : ShiftNarrow(f, w, z, i) # <<>> /\ KeptWith(ShiftNarrow(f, w, z, i)) # <<>>
    BY DEF KeptWith, ShiftNarrow, ClearMask, Pushing
  <2>2. \A f, w : KeptWith(ShiftWide(f, w, i)) # <<>>
    BY DEF KeptWith, ShiftWide, ClearMask, OneMask, Pushing
  <2>3. /\ rw_func_kshiftlb(i) # <<>> /\ rw_func_kshiftlw(i) # <<>>
        /\ rw_func_kshiftld(i) # <<>> /\ rw_func_kshiftlq(i) # <<>>
    BY <2>1, <2>2, Zenon DEF rw_func_kshiftlb, rw_func_kshiftlw, rw_func_kshiftld, rw_func_kshiftlq
  <2>4. /\ rw_func_kshiftrb(i) # <<>> /\ rw_func_kshiftrw(i) # <<>>
        /\ rw_func_kshiftrd(i) # <<>> /\ rw_func_kshiftrq(i) # <<>>
    BY <2>1, <2>2, ZenonT(60) DEF rw_func_kshiftrb, rw_func_kshiftrw, rw_func_kshiftrd, rw_func_kshiftrq
  <2> QED BY <1>1, <1>7, <2>3, <2>4, Entries, ZenonT(60)
<1>8. i.op \in {"kmov", "kand", "kandn", "kor", "knot", "kxnor", "kunpck", "kortest", "kshiftl", "kshiftr"}
  BY Zenon DEF IsMaskInstr, Supported
<1> QED BY <1>2, <1>3, <1>4, <1>5, <1>6, <1>7, <1>8, ZenonT(60)

\* Every chain can be built: its moves have equal widths and no operand is missing.
LEMMA ChainBuildable ==
  ASSUME NEW i, IsMaskInstr(i), Supported(i)
  PROVE  Buildable(rewrite_funcs(i))
<1> DEFINE c == rewrite_funcs(i)
<1> HIDE DEF c
<1>1. Typed(i, c, 0, <<>>, <<>>)
  BY ChainSound, Zenon DEF Sound, c
<1>2. c \in Seq(Ops) /\ \E S, T : Typing(i, c, 0, S, T)
  BY <1>1, Zenon DEF Typed
<1>3. PICK S, T : Typing(i, c, 0, S, T)
  BY <1>2, Zenon
<1>4. ASSUME NEW k \in 1 .. Len(c) PROVE c[k].what = "mov" => c[k].w = c[k].sz
  <2>1. Harmless(i, c[k], S[k], T[k]) \/ Keeps(i, c[k], S[k], T[k], S[k + 1], T[k + 1])
    BY <1>3, Zenon DEF Typing
  <2> QED BY <2>1, Zenon DEF Harmless, Keeps
<1>5. \A o \in Operands : o # NoSrc
  BY LocFacts DEF Operands, NoSrc, Imm, Locs, AppLocs, Slots, K, R, Flags, Tls
<1>6. \A k \in DOMAIN c : c[k].s # NoSrc
  <2>1. \A x \in Ops : x.s \in Operands
    BY Zenon DEF Ops
  <2>2. \A k \in DOMAIN c : c[k] \in Ops
    BY <1>2
  <2> QED BY <1>5, <2>1, <2>2, Zenon
<1>7. c # <<>>
  BY ChainExists, Zenon DEF c
<1> QED BY <1>2, <1>4, <1>6, <1>7, SMTT(30) DEF Buildable, c

\* The assumption under which the step of the invariant was shown.
LEMMA ChainsReliable == Reliable
BY ChainSound, ChainBuildable, Zenon DEF Reliable

-----------------------------------------------------------------------------
\* No original gets into a chain that a processor without AVX-512 executes, if
\* the programs observe Disciplined.
LEMMA OriginalsNext ==
  ASSUME Careful, NoOriginals, [Next]_vars
  PROVE  NoOriginals'
<1>1. CASE \E i \in First \cup Later : Fetch(i)
  <2>1. PICK i : Fetch(i)
    BY <1>1, Zenon
  <2>2. chain' = rewrite_funcs(i) /\ avx512' = avx512 /\ (avx512 \/ ~KeepsOriginal(i))
    BY <2>1, Zenon DEF Fetch, Disciplined
  <2> QED BY <2>2, Zenon DEF NoOriginals, KeepsOriginal
<1>2. CASE UNCHANGED <<chain, avx512>> /\ (status = "run" \/ status' = status)
  BY <1>2, Zenon DEF NoOriginals
<1>3. CASE Move \/ Compute \/ ShiftStep \/ PushStep \/ PopStep
  BY <1>2, <1>3, Zenon DEF Move, Compute, ShiftStep, PushStep, PopStep, Executing, Program
<1>4. CASE JumpStep \/ CarryStep \/ NativeStep \/ Retire
  BY <1>2, <1>4, Zenon DEF JumpStep, CarryStep, NativeStep, Retire, Executing, Program
<1>5. CASE Ended \/ UNCHANGED vars
  BY <1>2, <1>5, Zenon DEF Ended, vars
<1> QED BY <1>1, <1>3, <1>4, <1>5, Zenon DEF Next

\* The invariant holds in every program that observes Disciplined, on
\* processors with and without AVX-512.
THEOREM MaskInvariant ==
  ASSUME Careful
  PROVE  Spec => [](MaskInv /\ NoOriginals)
<1>1. MaskInv /\ NoOriginals /\ [Next]_vars => (MaskInv /\ NoOriginals)'
  BY ChainsReliable, MaskNext, OriginalsNext, Zenon
<1>2. Init => NoOriginals
  BY Zenon DEF Init, NoOriginals
<1> QED BY <1>1, <1>2, MaskInit, PTL DEF Spec

\* In programs that observe Disciplined the chains of rewrite.c for the mask
\* instructions leave in k_regs, in the general-purpose registers and in the
\* flags what AVX-512 would have left there, and every chain is built and
\* executes to its end, also on a processor without AVX-512: for programs of
\* any length, with any registers, contents and shift counts.
THEOREM MasksAgree ==
  ASSUME Careful
  PROVE  Spec => []MaskAgrees
<1>1. MaskInv => MaskAgrees
  BY MaskImplies, ZenonT(60)
<1> QED BY <1>1, MaskInvariant, PTL

\* In such programs, above the width of the instruction, a chain of rewrite.c
\* leaves the mask it writes as it was or zero, never with bits of the scratch
\* register.
THEOREM MasksLeakNothing ==
  ASSUME Careful
  PROVE  Spec => []NoScratchLeak
<1>1. MaskInv => NoScratchLeak
  BY MaskImplies, Zenon
<1> QED BY <1>1, MaskInvariant, PTL

\* In such programs, at every instruction of every chain of rewrite.c, each
\* register of the application that the instruction does not write is in place,
\* above the stack pointer or in a TLS slot, and so are the flags where the
\* chain keeps them.
THEOREM MasksRecoverable ==
  ASSUME Careful
  PROVE  Spec => []MaskRecoverable
<1>1. MaskInv => MaskRecoverable
  BY RunRecoverable, Zenon
<1> QED BY <1>1, MaskInvariant, PTL
=============================================================================
