-------------------------- MODULE MaskChains_proof --------------------------
(*****************************************************************************)
(* The chains of the mask instructions are sound, up to kortest: the         *)
(* logical instructions, the shifts, kxnor, kunpck and kmov.  Each is        *)
(* followed with the rules of MaskFrame_proof, from the loads of its         *)
(* sources to the store of its result.                                       *)
(*****************************************************************************)
EXTENDS MaskFrame_proof

\* Functions that keep the flags and rax on the stack.
LEMMA OneMaskSound ==
  ASSUME NEW i, ToMask(i), ~ClobbersFlags(i), IsK(i.src1), NEW b, NEW w, w = i.w, NEW ops,
         Anywhere(i, On2(Flags, rax), <<>>, ops, Body(b) \cap Regs(w, rax, b[i.src1] \cap Low(w)),
                  Body(b) \cap Regs(w, rax, Result(i, b[i.src1], b[i.src2])))
  PROVE  Sound(i, b, OneMask(w, i, ops), 0, <<>>, <<>>)
<1> DEFINE st == On2(Flags, rax)
           P  == Body(b) \cap Regs(w, rax, b[i.src1] \cap Low(w))
           Q  == Body(b) \cap Regs(w, rax, Result(i, b[i.src1], b[i.src2]))
           x  == Load(rax, w, i.src1)
           y  == Store(rax, w, i.dst)
<1>1. /\ rax \in Scratch /\ w \in Widths /\ i.src1 \in AppLocs /\ Written(i) \in Locs
      /\ Flags \in AppLocs \ Exempt(i) /\ rax \in AppLocs \ Exempt(i) /\ Flags # rax
  BY ToMaskFacts, LocFacts, ZenonT(60) DEF Scratch
<1>2. st \in Stacks /\ Room(i, st, <<>>, {rax})
  <2>1. st \in Stacks /\ Kept(st, <<>>) = {Flags, rax}
    BY <1>1, OnFacts, ZenonT(60)
  <2> QED BY <2>1, ZenonT(60) DEF Room
<1>3. Untouched(rax, Body(b)) /\ Body(b) \subseteq Body(b) /\ Start(b) \subseteq Body(b)
  BY <1>1, BodyFacts, Zenon
<1> HIDE DEF st
<1>4. Anywhere(i, st, <<>>, <<x>>, Body(b), P)
  BY <1>1, <1>2, <1>3, LoadAny, Zenon
<1>5. Anywhere(i, st, <<>>, <<x>> \o ops, Body(b), Q)
  BY <1>4, AnyJoin, Zenon DEF st
<1>6. Anywhere(i, st, <<>>, <<y>>, Q, Post(i, b))
  <2>1. Q \subseteq Body(b) \cap Regs(w, rax, Result(i, b[i.src1], b[i.src2]))
    BY Zenon
  <2> HIDE DEF Q
  <2> QED BY <1>1, <2>1, StoreAny, ZenonT(60)
<1>7. Anywhere(i, st, <<>>, <<x>> \o ops \o <<y>>, Body(b), Post(i, b))
  BY <1>5, <1>6, AnyJoin, Zenon
<1>8. Sound(i, b, <<x>> \o ops \o <<y>>, 2, st, <<>>)
  <2>1. 2 \in Nat /\ <<>> \in Savings
    BY KeptNone, Zenon
  <2> QED BY <1>2, <1>3, <1>7, <2>1, AnySound, ZenonT(60)
<1>9. Sound(i, b, Pushing(Flags, Pushing(rax, <<x>> \o ops \o <<y>>)), 0, <<>>, <<>>)
  BY <1>1, <1>8, Push2, ZenonT(60) DEF st
<1> QED BY <1>9, ZenonT(60) DEF OneMask

\* Two masks in rax and in q.
Two(b, w, a, q, c) == Body(b) \cap Regs(w, rax, a) \cap Regs(w, q, c)

\* Values in rax and in q do not depend on each other.
LEMMA TwoFacts ==
  ASSUME NEW b, NEW w, NEW a, NEW c, NEW q \in Scratch, q # rax
  PROVE  /\ Two(b, w, a, q, c) = (Body(b) \cap Regs(w, q, c)) \cap Regs(w, rax, a)
         /\ Untouched(rax, Body(b) \cap Regs(w, q, c)) /\ Untouched(q, Body(b) \cap Regs(w, rax, a))
         /\ Body(b) \cap Regs(w, q, c) \subseteq Regs(w, q, c)
         /\ Body(b) \cap Regs(w, rax, a) \subseteq Regs(w, rax, a)
<1>1. rax \in Scratch
  BY Zenon DEF Scratch
<1>2. Untouched(rax, Body(b)) /\ Untouched(q, Body(b))
  BY <1>1, BodyFacts, Zenon
<1>3. Untouched(rax, Body(b) \cap Regs(w, q, c)) /\ Untouched(q, Body(b) \cap Regs(w, rax, a))
  BY <1>1, <1>2, UntouchedRegs, Zenon
<1>4. Two(b, w, a, q, c) = (Body(b) \cap Regs(w, q, c)) \cap Regs(w, rax, a)
  BY Zenon DEF Two
<1> QED BY <1>3, <1>4, Zenon

\* The two loads at the beginning of a chain.
LEMMA LoadTwo ==
  ASSUME NEW i, NEW b, NEW st, NEW tl, NEW q \in Scratch, q # rax, Room(i, st, tl, {rax}), Room(i, st, tl, {q}),
         NEW w \in Widths, NEW s1 \in AppLocs, IsK(s1), NEW s2 \in AppLocs, IsK(s2)
  PROVE  Anywhere(i, st, tl, <<Load(rax, w, s1), Load(q, w, s2)>>, Body(b),
                  Two(b, w, b[s1] \cap Low(w), q, b[s2] \cap Low(w)))
<1> DEFINE x == Load(rax, w, s1)
           y == Load(q, w, s2)
           F == Body(b) \cap Regs(w, rax, b[s1] \cap Low(w))
<1>1. rax \in Scratch
  BY Zenon DEF Scratch
<1>2. Untouched(rax, Body(b)) /\ Body(b) \subseteq Body(b)
  BY <1>1, BodyFacts, Zenon
<1>3. Anywhere(i, st, tl, <<x>>, Body(b), F)
  BY <1>1, <1>2, LoadAny, Zenon
<1>4. Untouched(q, F) /\ F \subseteq Body(b)
  BY TwoFacts, Zenon
<1> HIDE DEF F
<1>5. Anywhere(i, st, tl, <<y>>, F, F \cap Regs(w, q, b[s2] \cap Low(w)))
  BY <1>4, LoadAny, Zenon
<1> HIDE DEF x, y
<1>6. Anywhere(i, st, tl, <<x, y>>, Body(b), F \cap Regs(w, q, b[s2] \cap Low(w)))
  BY <1>3, <1>5, AnyTwo, Zenon
<1> QED BY <1>6, Zenon DEF Two, F, x, y

\* The frame of kand, kandn and kor around the instructions ops.
LEMMA TwoMasksSound ==
  ASSUME NEW i, ToMask(i), ~ClobbersFlags(i), IsK(i.src1), IsK(i.src2), NEW b, NEW w, w = i.w, NEW ops, NEW Q,
         Anywhere(i, On3(Flags, rax, rbx), <<>>, ops,
                  Two(b, w, b[i.src1] \cap Low(w), rbx, b[i.src2] \cap Low(w)), Q),
         Q \subseteq Body(b) \cap Regs(w, rax, Result(i, b[i.src1], b[i.src2]))
  PROVE  Sound(i, b, TwoMasks(w, i, ops), 0, <<>>, <<>>)
<1> DEFINE st == On3(Flags, rax, rbx)
           P  == Two(b, w, b[i.src1] \cap Low(w), rbx, b[i.src2] \cap Low(w))
           x  == <<Load(rax, w, i.src1), Load(rbx, w, i.src2)>>
           y  == Store(rax, w, i.dst)
<1>1. /\ rax \in Scratch /\ rbx \in Scratch /\ rbx # rax /\ w \in Widths
      /\ i.src1 \in AppLocs /\ i.src2 \in AppLocs /\ Written(i) \in Locs
      /\ Flags \in AppLocs \ Exempt(i) /\ rax \in AppLocs \ Exempt(i) /\ rbx \in AppLocs \ Exempt(i)
      /\ Flags # rax /\ Flags # rbx /\ rax # rbx
  BY ToMaskFacts, LocFacts, ScratchDistinct, ZenonT(60) DEF Scratch
<1>2. st \in Stacks /\ Room(i, st, <<>>, {rax}) /\ Room(i, st, <<>>, {rbx})
  <2>1. st \in Stacks /\ Kept(st, <<>>) = {Flags, rax, rbx}
    BY <1>1, OnFacts
  <2> QED BY <2>1, ZenonT(60) DEF Room
<1>3. Start(b) \subseteq Body(b)
  BY BodyFacts, Zenon
<1> HIDE DEF st, x
<1>4. Anywhere(i, st, <<>>, x, Body(b), P)
  BY <1>1, <1>2, LoadTwo, Zenon DEF x
<1>5. Anywhere(i, st, <<>>, x \o ops, Body(b), Q)
  BY <1>4, AnyJoin, Zenon DEF st
<1>6. Anywhere(i, st, <<>>, <<y>>, Q, Post(i, b))
  BY <1>1, StoreAny, Zenon
<1>7. Anywhere(i, st, <<>>, x \o ops \o <<y>>, Body(b), Post(i, b))
  BY <1>5, <1>6, AnyJoin, Zenon
<1>8. Sound(i, b, x \o ops \o <<y>>, 3, st, <<>>)
  <2>1. 3 \in Nat /\ <<>> \in Savings
    BY KeptNone, Zenon
  <2> QED BY <1>2, <1>3, <1>7, <2>1, AnySound, ZenonT(60)
<1>9. Sound(i, b, Pushing(Flags, Pushing(rax, Pushing(rbx, x \o ops \o <<y>>))), 0, <<>>, <<>>)
  BY <1>1, <1>8, Push3, ZenonT(60) DEF st
<1> QED BY <1>9, ZenonT(60) DEF TwoMasks, x

\* Operations on rax while q keeps the second mask.
LEMMA TwoAlu ==
  ASSUME NEW i, NEW b, NEW st, NEW tl, NEW q \in Scratch, q # rax, Room(i, st, tl, {rax, Flags}),
         NEW w \in Widths, NEW f \in {"and", "or", "xor"}, NEW a, NEW c
  PROVE  Anywhere(i, st, tl, <<Alu(f, w, rax, q)>>, Two(b, w, a, q, c), Two(b, w, Outcome(f, w, a, c), q, c))
<1> DEFINE F == Body(b) \cap Regs(w, q, c)
<1>1. rax \in Scratch
  BY Zenon DEF Scratch
<1>2. Untouched(rax, F) /\ F \subseteq Regs(w, q, c)
  BY TwoFacts, Zenon
<1>3. /\ Two(b, w, a, q, c) = F \cap Regs(w, rax, a)
      /\ Two(b, w, Outcome(f, w, a, c), q, c) = F \cap Regs(w, rax, Outcome(f, w, a, c))
  BY Zenon DEF Two
<1> HIDE DEF F
<1>4. Anywhere(i, st, tl, <<Alu(f, w, rax, q)>>, F \cap Regs(w, rax, a), F \cap Regs(w, rax, Outcome(f, w, a, c)))
  BY <1>1, <1>2, PairAny, ZenonT(60)
<1> QED BY <1>3, <1>4, Zenon

\* not of rax leaves q.
LEMMA TwoNot ==
  ASSUME NEW i, NEW b, NEW st, NEW tl, NEW q \in Scratch, q # rax, Room(i, st, tl, {rax, Flags}),
         NEW w \in Widths, NEW a, NEW c
  PROVE  Anywhere(i, st, tl, <<Alu("not", w, rax, rax)>>, Two(b, w, a, q, c), Two(b, w, Low(w) \ a, q, c))
<1> DEFINE F == Body(b) \cap Regs(w, q, c)
<1>1. rax \in Scratch
  BY Zenon DEF Scratch
<1>2. Untouched(rax, F)
  BY TwoFacts, Zenon
<1>3. /\ Two(b, w, a, q, c) = F \cap Regs(w, rax, a)
      /\ Two(b, w, Low(w) \ a, q, c) = F \cap Regs(w, rax, Low(w) \ a)
  BY Zenon DEF Two
<1> HIDE DEF F
<1>4. Anywhere(i, st, tl, <<Alu("not", w, rax, rax)>>, F \cap Regs(w, rax, a), F \cap Regs(w, rax, Low(w) \ a))
  BY <1>1, <1>2, NotAny, ZenonT(60)
<1> QED BY <1>3, <1>4, Zenon

\* and of rax with an immediate leaves q.
LEMMA TwoImm ==
  ASSUME NEW i, NEW b, NEW st, NEW tl, NEW q \in Scratch, q # rax, Room(i, st, tl, {rax, Flags}),
         NEW w \in Widths, NEW a, NEW c, NEW z \in SUBSET Bits
  PROVE  Anywhere(i, st, tl, <<Alu("and", w, rax, Imm(z))>>, Two(b, w, a, q, c), Two(b, w, a \cap z, q, c))
<1> DEFINE F == Body(b) \cap Regs(w, q, c)
<1>1. rax \in Scratch
  BY Zenon DEF Scratch
<1>2. Untouched(rax, F)
  BY TwoFacts, Zenon
<1>3. /\ Two(b, w, a, q, c) = F \cap Regs(w, rax, a)
      /\ Two(b, w, a \cap z, q, c) = F \cap Regs(w, rax, a \cap z)
  BY Zenon DEF Two
<1> HIDE DEF F
<1>4. Anywhere(i, st, tl, <<Alu("and", w, rax, Imm(z))>>, F \cap Regs(w, rax, a), F \cap Regs(w, rax, a \cap z))
  BY <1>1, <1>2, ImmAny, ZenonT(60)
<1> QED BY <1>3, <1>4, Zenon

\* The scratch registers and the flags are kept in the logical chains.
LEMMA LogicFacts ==
  ASSUME NEW i, ToMask(i), i.op \notin {"kmov", "kunpck"}
  PROVE  /\ rax \in Scratch /\ rbx \in Scratch /\ rbx # rax
         /\ i.w \in Widths /\ ~ClobbersFlags(i) /\ ~WritesFlags(i)
         /\ Room(i, On3(Flags, rax, rbx), <<>>, {rax, Flags}) /\ Room(i, On2(Flags, rax), <<>>, {rax, Flags})
\* The stacks of these functions.
<1>StackRoom.
  ASSUME NEW i0, NEW p \in AppLocs, NEW q \in AppLocs, NEW r \in AppLocs
  PROVE  /\ Room(i0, On2(p, q), <<>>, {p, q}) /\ Room(i0, On2(p, q), <<>>, {q, p})
         /\ \A L \in SUBSET {p, q, r} : Room(i0, On3(p, q, r), <<>>, L)
  <2>1. Kept(On2(p, q), <<>>) = {p, q} /\ Kept(On3(p, q, r), <<>>) = {p, q, r}
    BY OnFacts, SMTT(30)
  <2> QED BY <2>1, Zenon DEF Room
<1>1. rax \in AppLocs /\ rbx \in AppLocs /\ Flags \in AppLocs
  BY LocFacts, Zenon DEF Scratch
<1>2. Room(i, On3(Flags, rax, rbx), <<>>, {rax, Flags}) /\ Room(i, On2(Flags, rax), <<>>, {rax, Flags})
  BY <1>1, <1>StackRoom, ZenonT(60)
<1> QED BY <1>2, ToMaskFacts, ScratchDistinct, Zenon DEF Scratch, ClobbersFlags, FromGpr, ToMask

\* kand, kandn and kor
LEMMA KandSound ==
  ASSUME NEW i, ToMask(i), i.op = "kand", IsK(i.src1), IsK(i.src2), NEW b
  PROVE  Sound(i, b, KeptWith(TwoMasks(i.w, i, <<Alu("and", i.w, rax, rbx)>>)), 0, <<>>, <<>>)
<1> DEFINE w == i.w
           st == On3(Flags, rax, rbx)
           A == b[i.src1] \cap Low(w)
           C == b[i.src2] \cap Low(w)
           y == Outcome("and", w, A, C)
<1>1. rbx \in Scratch /\ rbx # rax /\ w \in Widths /\ ~ClobbersFlags(i) /\ ~WritesFlags(i)
  BY LogicFacts, Zenon
<1>2. Room(i, st, <<>>, {rax, Flags})
  BY LogicFacts, Zenon
<1>3. y = Result(i, b[i.src1], b[i.src2])
  <2>1. y = A \cap C
    BY <1>1, OutcomeFacts
  <2>2. Result(i, b[i.src1], b[i.src2]) = b[i.src1] \cap b[i.src2] \cap Low(w)
    BY Zenon DEF Result
  <2> QED BY <2>1, <2>2, Zenon
<1> HIDE DEF st, A, C, y, w
<1>4. Anywhere(i, st, <<>>, <<Alu("and", w, rax, rbx)>>, Two(b, w, A, rbx, C), Two(b, w, y, rbx, C))
  <2>1. "and" \in {"and", "or", "xor"}
    BY Zenon
  <2> QED BY <1>1, <1>2, <2>1, TwoAlu, Zenon DEF y
<1>5. Two(b, w, y, rbx, C) \subseteq Body(b) \cap Regs(w, rax, Result(i, b[i.src1], b[i.src2]))
  BY <1>3, Zenon DEF Two
<1>6. Sound(i, b, TwoMasks(w, i, <<Alu("and", w, rax, rbx)>>), 0, <<>>, <<>>)
  BY <1>1, <1>4, <1>5, TwoMasksSound, Zenon DEF w, st, A, C
<1> QED BY <1>1, <1>6, SoundKept, Zenon DEF w

\* kandn, every width.
LEMMA KandnSound ==
  ASSUME NEW i, ToMask(i), i.op = "kandn", IsK(i.src1), IsK(i.src2), NEW b
  PROVE  Sound(i, b, KeptWith(TwoMasks(i.w, i, AndNot(i.w))), 0, <<>>, <<>>)
<1> DEFINE w == i.w
           st == On3(Flags, rax, rbx)
           A == b[i.src1] \cap Low(w)
           C == b[i.src2] \cap Low(w)
           B == Low(w) \ A
           y == Outcome("and", w, B, C)
           c == <<Alu("not", w, rax, rax), Alu("and", w, rax, rbx)>>
<1>0. i.op \notin {"kmov", "kunpck"} /\ "and" \in {"and", "or", "xor"}
  BY Zenon
<1>1. rbx \in Scratch /\ rbx # rax /\ w \in Widths /\ ~ClobbersFlags(i) /\ ~WritesFlags(i)
  BY <1>0, LogicFacts, Zenon
<1>2. Room(i, st, <<>>, {rax, Flags})
  BY <1>0, LogicFacts, ZenonT(60)
<1>3. y = Result(i, b[i.src1], b[i.src2])
  <2>1. y = B \cap C
    BY <1>1, OutcomeFacts
  <2>2. Result(i, b[i.src1], b[i.src2]) = (b[i.src2] \ b[i.src1]) \cap Low(w)
    BY Zenon DEF Result
  <2> QED BY <2>1, <2>2, ZenonT(60)
<1> HIDE DEF st, A, C, y, w
<1>4. Anywhere(i, st, <<>>, <<Alu("not", w, rax, rax)>>, Two(b, w, A, rbx, C), Two(b, w, B, rbx, C))
  BY <1>1, <1>2, TwoNot, Zenon
<1> HIDE DEF B
<1>5. Anywhere(i, st, <<>>, <<Alu("and", w, rax, rbx)>>, Two(b, w, B, rbx, C), Two(b, w, y, rbx, C))
  BY <1>0, <1>1, <1>2, TwoAlu, Zenon DEF y
<1>6. Anywhere(i, st, <<>>, c, Two(b, w, A, rbx, C), Two(b, w, y, rbx, C))
  BY <1>4, <1>5, AnyTwo, Zenon
<1>7. Two(b, w, y, rbx, C) \subseteq Body(b) \cap Regs(w, rax, Result(i, b[i.src1], b[i.src2]))
  BY <1>3, Zenon DEF Two
<1> HIDE DEF c
<1>8. Sound(i, b, TwoMasks(w, i, c), 0, <<>>, <<>>)
  BY <1>1, <1>6, <1>7, TwoMasksSound, Zenon DEF w, st, A, C
<1> QED BY <1>1, <1>8, SoundKept, Zenon DEF w, c, AndNot

\* kor, with and without a mask of the width.
LEMMA KorSound ==
  ASSUME NEW i, ToMask(i), i.op = "kor", IsK(i.src1), IsK(i.src2), NEW b
  PROVE  /\ Sound(i, b, TwoMasks(i.w, i, OrMasked(i.w)), 0, <<>>, <<>>)
         /\ Sound(i, b, TwoMasks(i.w, i, <<Alu("or", i.w, rax, rbx)>>), 0, <<>>, <<>>)
<1> DEFINE w == i.w
           st == On3(Flags, rax, rbx)
           A == b[i.src1] \cap Low(w)
           C == b[i.src2] \cap Low(w)
           B == Outcome("or", w, A, C)
           y == B \cap Low(w)
           c == <<Alu("or", w, rax, rbx), Alu("and", w, rax, Imm(Low(w)))>>
<1>0. i.op \notin {"kmov", "kunpck"} /\ "or" \in {"and", "or", "xor"}
  BY Zenon
<1>1. rbx \in Scratch /\ rbx # rax /\ w \in Widths /\ ~ClobbersFlags(i) /\ ~WritesFlags(i)
  BY <1>0, LogicFacts, Zenon
<1>2. Room(i, st, <<>>, {rax, Flags}) /\ Low(w) \in SUBSET Bits
  BY <1>0, <1>1, LogicFacts, LowFacts, ZenonT(60)
<1>3. y = Result(i, b[i.src1], b[i.src2]) /\ B = Result(i, b[i.src1], b[i.src2])
  <2>1. B = A \cup C
    BY <1>1, OutcomeFacts
  <2>2. Result(i, b[i.src1], b[i.src2]) = (b[i.src1] \cup b[i.src2]) \cap Low(w)
    BY Zenon DEF Result
  <2> QED BY <2>1, <2>2, ZenonT(60)
<1> HIDE DEF st, A, C, B, w
<1>4. Anywhere(i, st, <<>>, <<Alu("or", w, rax, rbx)>>, Two(b, w, A, rbx, C), Two(b, w, B, rbx, C))
  BY <1>0, <1>1, <1>2, TwoAlu, Zenon DEF B
<1>5. Anywhere(i, st, <<>>, <<Alu("and", w, rax, Imm(Low(w)))>>, Two(b, w, B, rbx, C), Two(b, w, y, rbx, C))
  BY <1>1, <1>2, TwoImm, Zenon
<1> HIDE DEF y
<1>6. Anywhere(i, st, <<>>, c, Two(b, w, A, rbx, C), Two(b, w, y, rbx, C))
  BY <1>4, <1>5, AnyTwo, Zenon
<1>7. /\ Two(b, w, y, rbx, C) \subseteq Body(b) \cap Regs(w, rax, Result(i, b[i.src1], b[i.src2]))
      /\ Two(b, w, B, rbx, C) \subseteq Body(b) \cap Regs(w, rax, Result(i, b[i.src1], b[i.src2]))
  BY <1>3, Zenon DEF Two
<1> HIDE DEF c
<1>8. Sound(i, b, TwoMasks(w, i, c), 0, <<>>, <<>>)
  BY <1>1, <1>6, <1>7, TwoMasksSound, Zenon DEF w, st, A, C
<1>9. Sound(i, b, TwoMasks(w, i, <<Alu("or", w, rax, rbx)>>), 0, <<>>, <<>>)
  BY <1>1, <1>4, <1>7, TwoMasksSound, Zenon DEF w, st, A, C
<1> QED BY <1>8, <1>9, Zenon DEF w, c, OrMasked

\* knot
LEMMA KnotSound ==
  ASSUME NEW i, ToMask(i), i.op = "knot", IsK(i.src1), NEW b
  PROVE  /\ Sound(i, b, OneMask(i.w, i, NotMasked(i.w)), 0, <<>>, <<>>)
         /\ Sound(i, b, OneMask(i.w, i, <<Alu("not", i.w, rax, rax)>>), 0, <<>>, <<>>)
<1> DEFINE w == i.w
           st == On2(Flags, rax)
           A == b[i.src1] \cap Low(w)
           B == Low(w) \ A
           y == B \cap Low(w)
           F == Body(b)
           c == <<Alu("not", w, rax, rax), Alu("and", w, rax, Imm(Low(w)))>>
<1>0. i.op \notin {"kmov", "kunpck"}
  BY Zenon
<1>1. rax \in Scratch /\ w \in Widths /\ ~ClobbersFlags(i)
  BY <1>0, LogicFacts, Zenon
<1>2. Room(i, st, <<>>, {rax, Flags}) /\ Low(w) \in SUBSET Bits /\ Untouched(rax, F)
  BY <1>0, <1>1, LogicFacts, LowFacts, BodyFacts, ZenonT(60)
<1>3. y = Result(i, b[i.src1], b[i.src2]) /\ B = Result(i, b[i.src1], b[i.src2])
  <2>1. Result(i, b[i.src1], b[i.src2]) = Low(w) \ b[i.src1]
    BY Zenon DEF Result
  <2> QED BY <2>1, Zenon
<1> HIDE DEF st, A, w
<1>4. Anywhere(i, st, <<>>, <<Alu("not", w, rax, rax)>>, F \cap Regs(w, rax, A), F \cap Regs(w, rax, B))
  BY <1>1, <1>2, NotAny, Zenon
<1> HIDE DEF B
<1>5. Anywhere(i, st, <<>>, <<Alu("and", w, rax, Imm(Low(w)))>>, F \cap Regs(w, rax, B), F \cap Regs(w, rax, y))
  BY <1>1, <1>2, ImmAny, Zenon
<1> HIDE DEF y
<1>6. Anywhere(i, st, <<>>, c, F \cap Regs(w, rax, A), F \cap Regs(w, rax, y))
  BY <1>4, <1>5, AnyTwo, Zenon
<1> HIDE DEF c
<1>7. Sound(i, b, OneMask(w, i, c), 0, <<>>, <<>>)
  BY <1>1, <1>3, <1>6, OneMaskSound, Zenon DEF w, st, A
<1>8. Sound(i, b, OneMask(w, i, <<Alu("not", w, rax, rax)>>), 0, <<>>, <<>>)
  BY <1>1, <1>3, <1>4, OneMaskSound, ZenonT(60) DEF w, st, A
<1> QED BY <1>7, <1>8, Zenon DEF w, c, NotMasked

\* The shifts.
Byte == 0 .. 255

Shifts(i) == i.op \in {"kshiftl", "kshiftr"} /\ i.imm < 128

ShiftOf(i) == IF i.op = "kshiftl" THEN "shl" ELSE "shr"

\* The shifts of a register give the shift of the mask, also when the register is
\* wider.
LEMMA SlidFacts ==
  ASSUME NEW i, Shifts(i), i.w \in Widths, i.imm \in Byte, NEW a, NEW c
  PROVE  /\ Slid(ShiftOf(i), i.w, i.imm, a \cap Low(i.w)) = Result(i, a, c)
         /\ Slid(ShiftOf(i), Wide, i.imm, a \cap Low(i.w)) \cap Low(i.w) = Result(i, a, c)
         /\ i.op = "kshiftr" => Slid(ShiftOf(i), Wide, i.imm, a \cap Low(i.w)) = Result(i, a, c)
         /\ Result(i, a, c) \subseteq Low(i.w)
<1> DEFINE A == a \cap Low(i.w)
<1>0. i.w \in Nat /\ i.w <= 64 /\ i.imm \in Nat
  BY SMTT(30) DEF Widths, Byte
<1>1. CASE i.op = "kshiftl"
  <2>1. Result(i, a, c) = {j + i.imm : j \in A} \cap Low(i.w)
    BY <1>1, Zenon DEF Result
  <2>2. /\ Slid(ShiftOf(i), i.w, i.imm, A) = {j + i.imm : j \in A} \cap Low(i.w)
        /\ Slid(ShiftOf(i), Wide, i.imm, A) = {j + i.imm : j \in A} \cap Low(Wide)
    BY <1>1, Zenon DEF Slid, ShiftOf
  <2> HIDE DEF A
  <2>4. Low(i.w) \subseteq Low(Wide)
    BY <1>0, SMTT(30) DEF Low, Wide
  <2>5. Slid(ShiftOf(i), Wide, i.imm, A) \cap Low(i.w) = Result(i, a, c)
    BY <2>1, <2>2, <2>4, ZenonT(60)
  <2> QED BY Zenon, <1>1, <2>1, <2>2, <2>5 DEF A
<1>2. CASE i.op = "kshiftr"
  <2>1. Result(i, a, c) = {j \in Low(i.w) : (j + i.imm) \in A}
    BY <1>2, Zenon DEF Result
  <2>2. /\ Slid(ShiftOf(i), i.w, i.imm, A) = {j \in Low(i.w) : (j + i.imm) \in A}
        /\ Slid(ShiftOf(i), Wide, i.imm, A) = {j \in Low(Wide) : (j + i.imm) \in A}
    BY <1>2, Zenon DEF Slid, ShiftOf
  <2>3. \A j \in A : j \in Nat /\ j < i.w
    BY <1>0 DEF Low
  <2> HIDE DEF A
  <2>4. {j \in Low(Wide) : (j + i.imm) \in A} = {j \in Low(i.w) : (j + i.imm) \in A}
    BY <1>0, <2>3 DEF Low, Wide
  <2>6. Result(i, a, c) \cap Low(i.w) = Result(i, a, c)
    BY <2>1, Zenon
  <2> QED BY <2>1, <2>2, <2>4, <2>6, Zenon DEF A
<1> QED BY <1>1, <1>2, Zenon DEF Shifts

\* Nothing is left of a mask that is shifted by its width or more.
LEMMA SlidOut ==
  ASSUME NEW i, Shifts(i), i.w \in Widths, i.imm \in Byte, i.imm >= i.w, NEW a, NEW c
  PROVE  Result(i, a, c) = {}
<1>0. i.w \in Nat /\ i.imm \in Nat /\ i.imm >= i.w /\ \A j \in Low(i.w) : j \in Nat /\ j < i.w
  BY DEF Widths, Low, Byte
<1>1. \A j \in Low(i.w) : j + i.imm \notin Low(i.w)
  BY <1>0
<1>2. CASE i.op = "kshiftl"
  <2>1. Result(i, a, c) = {j + i.imm : j \in a \cap Low(i.w)} \cap Low(i.w)
    BY <1>2, Zenon DEF Result
  <2> QED BY <1>1, <2>1, Zenon
<1>3. CASE i.op = "kshiftr"
  <2>1. Result(i, a, c) = {j \in Low(i.w) : (j + i.imm) \in a \cap Low(i.w)}
    BY <1>3, Zenon DEF Result
  <2> QED BY <1>1, <2>1, Zenon
<1> QED BY <1>2, <1>3, Zenon DEF Shifts

\* The count of a shift is a byte that is not negative, and is compared as such.
LEMMA ShiftFacts ==
  ASSUME NEW i, ToMask(i), Shifts(i)
  PROVE  /\ i.op \notin {"kmov", "kunpck"} /\ i.imm \in Nat /\ i.imm \in Byte /\ Signed8(i.imm) = i.imm
         /\ ShiftOf(i) \in {"shl", "shr"} /\ IsK(i.src1) /\ i.src1 \in AppLocs
         /\ (Signed8(i.imm) <= i.w - 1 => i.imm < i.w) /\ (~(Signed8(i.imm) <= i.w - 1) => i.imm >= i.w)
BY ToMaskFacts DEF ToMask, IsMaskInstr, Signed8, ShiftOf, Widths, Byte, Shifts

\* A count of the width or more clears the mask.
LEMMA ClearSound ==
  ASSUME NEW i, ToMask(i), Shifts(i), i.imm >= i.w, NEW b,
         NEW w, w = i.w \/ w = Wide
  PROVE  Sound(i, b, ClearMask(w, i), 0, <<>>, <<>>)
<1> DEFINE st == On2(Flags, rax)
           F == Body(b)
           x == Alu("xor", Wide, rax, rax)
           y == Store(rax, w, i.dst)
<1>0. i.op \notin {"kmov", "kunpck"} /\ 2 \in Nat /\ <<>> \in Savings /\ Wide \in Widths
  BY ShiftFacts, KeptNone, Zenon DEF Wide, Widths
<1>1. rax \in Scratch /\ i.w \in Widths /\ w \in Widths /\ ~ClobbersFlags(i) /\ Room(i, st, <<>>, {rax, Flags})
  BY <1>0, LogicFacts, Zenon
<1>2. Untouched(rax, F) /\ Start(b) \subseteq F
  BY <1>1, BodyFacts, Zenon
<1>3. {} = Result(i, b[i.src1], b[i.src2])
  <2>1. i.imm \in Byte
    BY ShiftFacts, Zenon
  <2> QED BY <1>1, <2>1, SlidOut, Zenon
<1>4. /\ Flags \in AppLocs \ Exempt(i) /\ rax \in AppLocs \ Exempt(i) /\ Flags # rax /\ Written(i) \in Locs
      /\ st \in Stacks
  BY <1>1, ToMaskFacts, LocFacts, OnFacts, Zenon
<1>5. Anywhere(i, st, <<>>, <<x>>, F, F \cap Regs(Wide, rax, {}))
  BY <1>0, <1>1, <1>2, ClearAny, Zenon
<1>6. F \cap Regs(Wide, rax, {}) \subseteq F \cap Regs(w, rax, {}) /\ {} \subseteq Low(i.w)
  <2>1. Low(w) \subseteq Low(Wide)
    BY <1>1 DEF Low, Wide, Widths
  <2> QED BY <2>1, Zenon DEF Regs
<1> HIDE DEF st
<1>7. Anywhere(i, st, <<>>, <<y>>, F \cap Regs(Wide, rax, {}), Post(i, b))
  BY <1>1, <1>3, <1>6, StoreAny, Zenon
<1>8. Anywhere(i, st, <<>>, <<x, y>>, F, Post(i, b))
  BY <1>5, <1>7, AnyTwo, Zenon
<1>9. Sound(i, b, <<x, y>>, 2, st, <<>>)
  BY <1>0, <1>2, <1>4, <1>8, AnySound, Zenon
<1>10. Sound(i, b, Pushing(Flags, Pushing(rax, <<x, y>>)), 0, <<>>, <<>>)
  BY <1>4, <1>9, Push2, ZenonT(60) DEF st
<1> QED BY <1>10, Zenon DEF ClearMask, Wide

\* The shifts of 32 and 64 bits.
LEMMA ShiftWideSound ==
  ASSUME NEW i, ToMask(i), Shifts(i), NEW b
  PROVE  Sound(i, b, ShiftWide(ShiftOf(i), i.w, i), 0, <<>>, <<>>)
<1> DEFINE w == i.w
           f == ShiftOf(i)
           m == i.imm
           A == b[i.src1] \cap Low(w)
           st == On2(Flags, rax)
<1>0. i.op \notin {"kmov", "kunpck"} /\ m \in Nat /\ m \in Byte /\ f \in {"shl", "shr"} /\ IsK(i.src1)
  BY ShiftFacts, Zenon
<1>1. rax \in Scratch /\ w \in Widths /\ ~ClobbersFlags(i) /\ Room(i, st, <<>>, {rax, Flags})
  BY <1>0, LogicFacts, ZenonT(60)
<1>2. CASE Signed8(i.imm) <= i.w - 1
  <2>1. m < w
    BY <1>2, ShiftFacts, Zenon
  <2>2. Untouched(rax, Body(b))
    BY <1>1, BodyFacts, Zenon
  <2>3. Slid(f, w, m, A) = Result(i, b[i.src1], b[i.src2])
    BY <1>0, <1>1, SlidFacts, Zenon
  <2> HIDE DEF w, f, m, A, st
  <2>4. Anywhere(i, st, <<>>, <<Shift(f, w, rax, m)>>, Body(b) \cap Regs(w, rax, A),
                 Body(b) \cap Regs(w, rax, Result(i, b[i.src1], b[i.src2])))
    BY <1>0, <1>1, <2>1, <2>2, <2>3, ShiftAny, ZenonT(60)
  <2>5. Sound(i, b, OneMask(w, i, <<Shift(f, w, rax, m)>>), 0, <<>>, <<>>)
    BY <1>0, <1>1, <2>4, OneMaskSound, ZenonT(60) DEF w, A, st
  <2> QED BY <1>2, <2>5, Zenon DEF ShiftWide, w, f, m
<1>3. CASE ~(Signed8(i.imm) <= i.w - 1)
  <2>1. m >= w
    BY <1>3, ShiftFacts, Zenon
  <2>2. Sound(i, b, ClearMask(w, i), 0, <<>>, <<>>)
    BY <2>1, ClearSound, Zenon
  <2> QED BY <1>3, <2>2, Zenon DEF ShiftWide
<1> QED BY <1>2, <1>3, Zenon

\* The narrow shifts are done in the whole register.
LEMMA ShiftNarrowSound ==
  ASSUME NEW i, ToMask(i), Shifts(i), NEW b,
         NEW z, z = i.w \/ (z = Wide /\ i.op = "kshiftr")
  PROVE  Sound(i, b, ShiftNarrow(ShiftOf(i), i.w, z, i), 0, <<>>, <<>>)
<1> DEFINE w == i.w
           f == ShiftOf(i)
           m == i.imm
           A == b[i.src1] \cap Low(w)
           X == Slid(f, Wide, m, A)
           F == Body(b)
           G == Result(i, b[i.src1], b[i.src2])
           st == On2(Flags, rax)
<1>0. i.op \notin {"kmov", "kunpck"} /\ m \in Nat /\ m \in Byte /\ f \in {"shl", "shr"} /\ IsK(i.src1)
      /\ i.src1 \in AppLocs
  BY ShiftFacts, Zenon
<1>1. rax \in Scratch /\ w \in Widths /\ ~ClobbersFlags(i) /\ Room(i, st, <<>>, {rax, Flags})
  BY <1>0, LogicFacts, ZenonT(60)
<1>2. CASE Signed8(i.imm) <= i.w - 1
  <2>1. m < w
    BY <1>2, ShiftFacts, Zenon
  <2>2. Untouched(rax, F) /\ Start(b) \subseteq F
    BY <1>1, BodyFacts, Zenon
  <2>3. X \cap Low(w) = G /\ (i.op = "kshiftr" => X = G) /\ G \subseteq Low(w)
    BY <1>0, <1>1, SlidFacts, ZenonT(60)
  <2>4. m < Wide /\ Wide \in Widths /\ z \in Widths /\ Low(w) \subseteq Low(Wide) /\ 2 \in Nat /\ <<>> \in Savings
    <3>1. w \in Nat /\ w <= Wide /\ Wide \in Widths
      BY <1>1 DEF Wide, Widths
    <3>2. m < Wide /\ Wide \in Nat
      BY <1>0, <2>1, <3>1 DEF Wide
    <3>3. Low(w) \subseteq Low(Wide)
      BY <3>1, <3>2, SMTT(30) DEF Low
    <3> QED BY <1>1, <3>1, <3>2, <3>3, KeptNone, Zenon
  <2>5. /\ Flags \in AppLocs \ Exempt(i) /\ rax \in AppLocs \ Exempt(i) /\ Flags # rax /\ Written(i) \in Locs
        /\ st \in Stacks /\ Room(i, st, <<>>, {rax})
    BY <1>1, ToMaskFacts, LocFacts, OnFacts, ZenonT(60) DEF Room
  <2> DEFINE x1 == Load(rax, w, i.src1)
             x2 == Movzx(rax, w)
             x3 == Shift(f, Wide, rax, m)
             x4 == Store(rax, z, i.dst)
  <2>6. F \cap Regs(Wide, rax, X) \subseteq F \cap Regs(z, rax, G)
    <3>1. CASE z = i.w
      BY <2>3, <2>4, <3>1, Zenon DEF Regs
    <3>2. CASE z = Wide /\ i.op = "kshiftr"
      BY <2>3, <3>2, Zenon
    <3> QED BY <3>1, <3>2, Zenon
  <2> HIDE DEF A, st, X, F, f, m
  <2>7. Anywhere(i, st, <<>>, <<x1>>, F, F \cap Regs(w, rax, A))
    BY <1>0, <1>1, <2>2, <2>5, LoadAny, ZenonT(60) DEF A, F
  <2>8. Anywhere(i, st, <<>>, <<x2>>, F \cap Regs(w, rax, A), F \cap Regs(Wide, rax, A))
    BY <1>1, <2>2, <2>5, MovzxAny, Zenon
  <2>9. Anywhere(i, st, <<>>, <<x3>>, F \cap Regs(Wide, rax, A), F \cap Regs(Wide, rax, X))
    BY <1>0, <1>1, <2>2, <2>4, ShiftAny, Zenon DEF X
  <2>10. Anywhere(i, st, <<>>, <<x4>>, F \cap Regs(Wide, rax, X), Post(i, b))
    BY <1>1, <2>3, <2>4, <2>6, StoreAny, ZenonT(60) DEF F
  <2> HIDE DEF x1, x2, x3, x4
  <2>11. Anywhere(i, st, <<>>, <<x1, x2>>, F, F \cap Regs(Wide, rax, A))
    BY <2>7, <2>8, AnyTwo, Zenon
  <2>12. Anywhere(i, st, <<>>, <<x3, x4>>, F \cap Regs(Wide, rax, A), Post(i, b))
    BY <2>9, <2>10, AnyTwo, Zenon
  <2>13. Anywhere(i, st, <<>>, <<x1, x2, x3, x4>>, F, Post(i, b))
    BY <2>11, <2>12, AnyFour, Zenon
  <2>14. Sound(i, b, <<x1, x2, x3, x4>>, 2, st, <<>>)
    BY <2>2, <2>4, <2>5, <2>13, AnySound, Zenon
  <2>15. Sound(i, b, Pushing(Flags, Pushing(rax, <<x1, x2, x3, x4>>)), 0, <<>>, <<>>)
    BY <2>5, <2>14, Push2, ZenonT(60) DEF st
  <2> QED BY <1>2, <2>15, Zenon DEF ShiftNarrow, x1, x2, x3, x4, Wide, f, m
<1>3. CASE ~(Signed8(i.imm) <= i.w - 1)
  <2>1. m >= w /\ (z = w \/ z = Wide)
    BY <1>3, ShiftFacts, Zenon
  <2>2. Sound(i, b, ClearMask(z, i), 0, <<>>, <<>>)
    BY <2>1, ClearSound, Zenon
  <2> QED BY <1>3, <2>2, Zenon DEF ShiftNarrow
<1> QED BY <1>2, <1>3, Zenon

\* kxnor.  Equal sources.
LEMMA AllOnesSound ==
  ASSUME NEW i, ToMask(i), i.op = "kxnor", i.src1 = i.src2, NEW b
  PROVE  Sound(i, b, AllOnes(i.w, i.dst), 0, <<>>, <<>>)
<1> DEFINE st == On1(rax)
           F == Body(b)
           w == i.w
           x == MovImm(rax, Low(w))
           y == Store(rax, Wide, i.dst)
<1>0. i.op \notin {"kmov", "kunpck"} /\ 1 \in Nat /\ <<>> \in Savings /\ Wide \in Widths
  BY KeptNone, Zenon DEF Wide, Widths
<1>1. rax \in Scratch /\ w \in Widths /\ Low(w) \in SUBSET Bits
  BY <1>0, LogicFacts, LowFacts, Zenon
<1>2. rax \in AppLocs \ Exempt(i) /\ Written(i) \in Locs
  BY <1>1, ToMaskFacts, LocFacts, Zenon
<1>3. st \in Stacks /\ Room(i, st, <<>>, {rax})
  BY <1>2, OnFacts, Zenon DEF Room
<1>4. Untouched(rax, F) /\ Start(b) \subseteq F
  BY <1>1, BodyFacts, Zenon
<1>5. Low(w) = Result(i, b[i.src1], b[i.src2]) /\ Low(w) \subseteq Low(w)
  BY Zenon DEF Result, Xor
<1> HIDE DEF st, w
<1>6. Anywhere(i, st, <<>>, <<x>>, F, F \cap Regs(Wide, rax, Low(w)))
  BY <1>1, <1>3, <1>4, MovImmAny, Zenon
<1>7. Anywhere(i, st, <<>>, <<y>>, F \cap Regs(Wide, rax, Low(w)), Post(i, b))
  <2>1. F \cap Regs(Wide, rax, Low(w)) \subseteq F \cap Regs(Wide, rax, Low(w))
    BY Zenon
  <2> QED BY <1>0, <1>1, <1>5, <2>1, StoreAny, ZenonT(60) DEF w
<1>8. Anywhere(i, st, <<>>, <<x, y>>, F, Post(i, b))
  BY <1>6, <1>7, AnyTwo, Zenon
<1>9. Sound(i, b, <<x, y>>, 1, st, <<>>)
  BY <1>0, <1>3, <1>4, <1>8, AnySound, Zenon
<1>10. Sound(i, b, Pushing(rax, <<x, y>>), 0, <<>>, <<>>)
  BY <1>2, <1>9, Push1, Zenon DEF st
<1> QED BY <1>10, Zenon DEF AllOnes, Wide, w

\* Different ones: trim has to leave the result in rax.
Nots(i, b) == Low(Wide) \ Xor(b[i.src1] \cap Low(Wide), b[i.src2] \cap Low(Wide))

\* kxnor of two masks, for the three ways of cutting the result to the width.
LEMMA KxnorSound ==
  ASSUME NEW i, ToMask(i), i.op = "kxnor", IsK(i.src1), IsK(i.src2), NEW b
  PROVE  /\ Sound(i, b, Xnor(i, <<Alu("and", Wide, rax, Imm(Low(i.w)))>>), 0, <<>>, <<>>)
         /\ i.w = Wide => Sound(i, b, Xnor(i, <<>>), 0, <<>>, <<>>)
         /\ Sound(i, b, Xnor(i, <<MovImm(rcx, Low(i.w)), Alu("and", Wide, rax, rcx)>>), 0, <<>>, <<>>)
<1>AnyNone.
  ASSUME NEW i0, NEW st, NEW tl, NEW P \in SUBSET Vals
  PROVE  Anywhere(i0, st, tl, <<>>, P, P)
  <2> DEFINE A == [k \in 1 .. 1 |-> P]
  <2>1. A \in [1 .. 1 -> SUBSET Vals] /\ A[1] = P /\ Len(<<>>) = 0 /\ <<>> \in Seq(Ops)
    OBVIOUS
  <2> HIDE DEF A
  <2>2. ASSUME NEW o \in Nat PROVE Does(i0, st, tl, <<>>, o, P, P)
    <3>1. Flow(<<>>, o, A)
      BY <2>1 DEF Flow
    <3>2. Leads(<<>>, o, P, P)
      BY <2>1, <3>1 DEF Leads
    <3>3. Inside(i0, st, tl, <<>>, o)
      BY <2>1 DEF Inside
    <3> QED BY <3>2, <3>3, Zenon DEF Does
  <2> QED BY <2>2, Zenon DEF Anywhere
<1>XnorSound.
  ASSUME NEW i0, ToMask(i0), i0.op = "kxnor", IsK(i0.src1), IsK(i0.src2), NEW b0, NEW trim, NEW Q,
         Anywhere(i0, On3(rax, rcx, Flags), <<>>, trim,
                  Two(b0, Wide, Nots(i0, b0), rcx, b0[i0.src2] \cap Low(Wide)), Q),
         Q \subseteq Body(b0) \cap Regs(Wide, rax, Result(i0, b0[i0.src1], b0[i0.src2]))
  PROVE  Sound(i0, b0, Xnor(i0, trim), 0, <<>>, <<>>)
  <2> USE <1>XnorSound
  <2> DEFINE st == On3(rax, rcx, Flags)
             A == b0[i0.src1] \cap Low(Wide)
             C == b0[i0.src2] \cap Low(Wide)
             x1 == Load(rax, Wide, i0.src1)
             x2 == Load(rcx, Wide, i0.src2)
             x3 == Alu("xor", Wide, rax, rcx)
             x4 == Alu("not", Wide, rax, rax)
             y == Store(rax, Wide, i0.dst)
  <2>0. i0.op \notin {"kmov", "kunpck"} /\ 3 \in Nat /\ <<>> \in Savings /\ Wide \in Widths
    BY KeptNone, Zenon DEF Wide, Widths
  <2>1. /\ rax \in Scratch /\ rcx \in Scratch /\ rcx # rax /\ i0.w \in Widths
        /\ i0.src1 \in AppLocs /\ i0.src2 \in AppLocs /\ Written(i0) \in Locs
        /\ Flags \in AppLocs \ Exempt(i0) /\ rax \in AppLocs \ Exempt(i0) /\ rcx \in AppLocs \ Exempt(i0)
        /\ Flags # rax /\ rax # Flags /\ rcx # Flags /\ rax # rcx
    BY <2>0, LogicFacts, ToMaskFacts, LocFacts, ScratchDistinct, Zenon DEF Scratch
  <2>2. /\ st \in Stacks /\ Room(i0, st, <<>>, {rax}) /\ Room(i0, st, <<>>, {rcx}) /\ Room(i0, st, <<>>, {rax, Flags})
    <3>1. st \in Stacks /\ Kept(st, <<>>) = {rax, rcx, Flags}
      BY <2>1, OnFacts
    <3> QED BY <3>1, Zenon DEF Room
  <2>3. Start(b0) \subseteq Body(b0)
    BY BodyFacts, Zenon
  <2>4. /\ Outcome("xor", Wide, A, C) = Xor(A, C) /\ Result(i0, b0[i0.src1], b0[i0.src2]) \subseteq Low(i0.w)
        /\ Nots(i0, b0) = Low(Wide) \ Xor(A, C)
    <3>1. Result(i0, b0[i0.src1], b0[i0.src2]) = Low(i0.w) \ Xor(b0[i0.src1], b0[i0.src2])
      BY Zenon DEF Result
    <3>3. Outcome("xor", Wide, A, C) = Xor(A, C)
      BY Zenon DEF Outcome
    <3> QED BY <3>1, <3>3, Zenon DEF Nots
  <2> HIDE DEF st, A, C
  <2>5. Anywhere(i0, st, <<>>, <<x1, x2>>, Body(b0), Two(b0, Wide, A, rcx, C))
    BY <2>0, <2>1, <2>2, LoadTwo, ZenonT(60) DEF A, C
  <2>6. Anywhere(i0, st, <<>>, <<x3>>, Two(b0, Wide, A, rcx, C), Two(b0, Wide, Xor(A, C), rcx, C))
    <3>1. "xor" \in {"and", "or", "xor"}
      BY Zenon
    <3>2. Anywhere(i0, st, <<>>, <<x3>>, Two(b0, Wide, A, rcx, C), Two(b0, Wide, Outcome("xor", Wide, A, C), rcx, C))
      BY <2>0, <2>1, <2>2, <3>1, TwoAlu, ZenonT(60)
    <3> QED BY <2>4, <3>2, Zenon
  <2>7. Anywhere(i0, st, <<>>, <<x4>>, Two(b0, Wide, Xor(A, C), rcx, C), Two(b0, Wide, Nots(i0, b0), rcx, C))
    BY <2>0, <2>1, <2>2, <2>4, TwoNot, ZenonT(60)
  <2>8. Anywhere(i0, st, <<>>, <<y>>, Q, Post(i0, b0))
    BY <2>0, <2>1, <2>4, StoreAny, ZenonT(60)
  <2> HIDE DEF x1, x2, x3, x4, y
  <2>9. Anywhere(i0, st, <<>>, <<x3, x4>>, Two(b0, Wide, A, rcx, C), Two(b0, Wide, Nots(i0, b0), rcx, C))
    BY <2>6, <2>7, AnyTwo, Zenon
  <2>10. Anywhere(i0, st, <<>>, <<x1, x2, x3, x4>>, Body(b0), Two(b0, Wide, Nots(i0, b0), rcx, C))
    BY <2>5, <2>9, AnyFour, Zenon
  <2>11. Anywhere(i0, st, <<>>, <<x1, x2, x3, x4>> \o trim, Body(b0), Q)
    BY <2>10, AnyJoin, Zenon DEF st, C
  <2>12. Anywhere(i0, st, <<>>, <<x1, x2, x3, x4>> \o trim \o <<y>>, Body(b0), Post(i0, b0))
    BY <2>8, <2>11, AnyJoin, Zenon
  <2>13. Sound(i0, b0, <<x1, x2, x3, x4>> \o trim \o <<y>>, 3, st, <<>>)
    BY <2>0, <2>2, <2>3, <2>12, AnySound, ZenonT(60)
  <2>14. Sound(i0, b0, Pushing(rax, Pushing(rcx, Pushing(Flags, <<x1, x2, x3, x4>> \o trim \o <<y>>))), 0, <<>>, <<>>)
    BY <2>1, <2>13, Push3, Zenon DEF st
  <2> QED BY <2>14, Zenon DEF Xnor, Wide, x1, x2, x3, x4, y
<1> DEFINE st == On3(rax, rcx, Flags)
           C == b[i.src2] \cap Low(Wide)
           N == Nots(i, b)
           L == Low(i.w)
           P == Two(b, Wide, N, rcx, C)
           x == MovImm(rcx, L)
           y == Alu("and", Wide, rax, rcx)
<1>0. i.op \notin {"kmov", "kunpck"} /\ Wide \in Widths
  BY Zenon DEF Wide, Widths
<1>1. /\ rax \in Scratch /\ rcx \in Scratch /\ rcx # rax /\ i.w \in Widths /\ rax \in AppLocs /\ rcx \in AppLocs
      /\ Flags \in AppLocs /\ L \in SUBSET Bits /\ L \subseteq Low(Wide)
  BY <1>0, LogicFacts, LocFacts, ScratchDistinct, LowFacts, Zenon DEF Scratch, Wide
<1>2. /\ Room(i, st, <<>>, {rcx}) /\ Room(i, st, <<>>, {rax, Flags})
  <2>1. Kept(st, <<>>) = {rax, rcx, Flags}
    BY <1>1, OnFacts
  <2> QED BY <2>1, Zenon DEF Room
<1>3. N \cap L = Result(i, b[i.src1], b[i.src2]) /\ (i.w = Wide => N = Result(i, b[i.src1], b[i.src2]))
  <2>1. Result(i, b[i.src1], b[i.src2]) = L \ Xor(b[i.src1], b[i.src2])
    BY Zenon DEF Result
  <2> QED BY <1>1, <2>1, Zenon DEF Nots, Xor
<1>4. \A a, c : Two(b, Wide, a, rcx, c) \subseteq Body(b) \cap Regs(Wide, rax, a)
  BY Zenon DEF Two
<1>5. P \in SUBSET Vals
  BY Zenon DEF P, Two, Regs
<1> HIDE DEF st, C, N, L
<1>6. Sound(i, b, Xnor(i, <<Alu("and", Wide, rax, Imm(L))>>), 0, <<>>, <<>>)
  <2>1. Anywhere(i, st, <<>>, <<Alu("and", Wide, rax, Imm(L))>>, P, Two(b, Wide, N \cap L, rcx, C))
    BY <1>0, <1>1, <1>2, TwoImm, ZenonT(60)
  <2> QED BY <1>3, <1>4, <2>1, <1>XnorSound, ZenonT(60) DEF st, C, N
<1>7. ASSUME i.w = Wide PROVE Sound(i, b, Xnor(i, <<>>), 0, <<>>, <<>>)
  <2>1. Anywhere(i, st, <<>>, <<>>, P, P)
    BY <1>5, <1>AnyNone, Zenon
  <2>2. P \subseteq Body(b) \cap Regs(Wide, rax, Result(i, b[i.src1], b[i.src2]))
    BY <1>3, <1>4, <1>7, Zenon
  <2> QED BY <2>1, <2>2, <1>XnorSound, Zenon DEF st, C, N
<1>8. Sound(i, b, Xnor(i, <<x, y>>), 0, <<>>, <<>>)
  <2> DEFINE F == Body(b) \cap Regs(Wide, rax, N)
             G == F \cap Regs(Wide, rcx, L)
             M == Two(b, Wide, N, rcx, L)
  <2>1. Untouched(rcx, F)
    BY <1>1, TwoFacts, Zenon
  <2>2. Anywhere(i, st, <<>>, <<x>>, F, G)
    BY <1>1, <1>2, <2>1, MovImmAny, Zenon
  <2>3. P \subseteq F /\ G \subseteq M
    BY Zenon DEF Two
  <2> HIDE DEF P, F, G, M
  <2>4. Anywhere(i, st, <<>>, <<x>>, P, M)
    BY <2>2, <2>3, AnyWeak, Zenon
  <2>5. Outcome("and", Wide, N, L) = N \cap L
    BY Zenon DEF Outcome
  <2>6. Anywhere(i, st, <<>>, <<y>>, M, Two(b, Wide, N \cap L, rcx, L))
    <3>1. "and" \in {"and", "or", "xor"}
      BY Zenon
    <3>2. Anywhere(i, st, <<>>, <<y>>, M, Two(b, Wide, Outcome("and", Wide, N, L), rcx, L))
      BY <1>0, <1>1, <1>2, <3>1, TwoAlu, ZenonT(60) DEF M
    <3> QED BY <2>5, <3>2, Zenon
  <2> HIDE DEF x, y
  <2>7. Anywhere(i, st, <<>>, <<x, y>>, P, Two(b, Wide, N \cap L, rcx, L))
    BY <2>4, <2>6, AnyTwo, Zenon
  <2> QED BY <1>3, <1>4, <2>7, <1>XnorSound, Zenon DEF st, C, N, P
<1> QED BY <1>6, <1>7, <1>8, Zenon DEF L, x, y

-----------------------------------------------------------------------------
\* The unpacks: operations on rax or on q while the other keeps its value.
LEMMA TwoShift ==
  ASSUME NEW i, NEW b, NEW st, NEW tl, NEW q \in Scratch, q # rax, Room(i, st, tl, {rax, Flags}),
         NEW w \in Widths, NEW a, NEW c, NEW m \in Nat, m < w
  PROVE  Anywhere(i, st, tl, <<Shift("shl", w, rax, m)>>, Two(b, w, a, q, c), Two(b, w, Slid("shl", w, m, a), q, c))
<1> DEFINE F == Body(b) \cap Regs(w, q, c)
           e == Slid("shl", w, m, a)
<1>1. rax \in Scratch /\ "shl" \in {"shl", "shr"}
  BY Zenon DEF Scratch
<1>2. Untouched(rax, F)
  BY TwoFacts, Zenon
<1>3. /\ Two(b, w, a, q, c) = F \cap Regs(w, rax, a)
      /\ Two(b, w, e, q, c) = F \cap Regs(w, rax, e)
  BY Zenon DEF Two
<1> HIDE DEF F
<1>4. Anywhere(i, st, tl, <<Shift("shl", w, rax, m)>>, F \cap Regs(w, rax, a), F \cap Regs(w, rax, e))
  BY <1>1, <1>2, ShiftAny, Zenon
<1> QED BY <1>3, <1>4, Zenon

\* or into q, and and of q with an immediate, leave rax.
LEMMA TwoOther ==
  ASSUME NEW i, NEW b, NEW st, NEW tl, NEW q \in Scratch, q # rax, Room(i, st, tl, {q, Flags}),
         NEW w \in Widths, NEW a, NEW c
  PROVE  /\ Anywhere(i, st, tl, <<Alu("or", w, q, rax)>>, Two(b, w, a, q, c), Two(b, w, a, q, c \cup a))
         /\ \A z \in SUBSET Bits :
              Anywhere(i, st, tl, <<Alu("and", w, q, Imm(z))>>, Two(b, w, a, q, c), Two(b, w, a, q, c \cap z))
<1> DEFINE F == Body(b) \cap Regs(w, rax, a)
<1>1. rax \in Scratch /\ "or" \in {"and", "or", "xor"}
  BY Zenon DEF Scratch
<1>2. Untouched(q, F) /\ F \subseteq Regs(w, rax, a)
  BY TwoFacts, Zenon
<1>3. \A e : Two(b, w, a, q, e) = F \cap Regs(w, q, e)
  BY Zenon DEF Two
<1>4. Outcome("or", w, c, a) = c \cup a
  BY Zenon DEF Outcome
<1> HIDE DEF F
<1>5. Anywhere(i, st, tl, <<Alu("or", w, q, rax)>>, F \cap Regs(w, q, c), F \cap Regs(w, q, Outcome("or", w, c, a)))
  BY <1>1, <1>2, PairAny, Zenon
<1>6. \A z \in SUBSET Bits :
        Anywhere(i, st, tl, <<Alu("and", w, q, Imm(z))>>, F \cap Regs(w, q, c), F \cap Regs(w, q, c \cap z))
  BY <1>2, ImmAny, Zenon
<1> QED BY <1>3, <1>4, <1>5, <1>6, ZenonT(60)

\* The lower and the upper half of the result, h bits each.
Halves(i, h, y, z) == i.op = "kunpck" /\ h \in {8, 16} /\ i.w = h + h /\ y = Low(h) /\ z = h .. (h + h - 1)

\* What the unpacks make of the sources a and c.
Unpacked(h, y, z, a, c) == ((c \cap Low(Wide)) \cap y) \cup (Slid("shl", Wide, h, a \cap Low(Wide)) \cap z)

\* The halves, shifted, cut and joined, are what the instruction computes.
LEMMA UnpckValue ==
  ASSUME NEW i, NEW h, NEW y, NEW z, Halves(i, h, y, z), NEW a, NEW c
  PROVE  /\ Unpacked(h, y, z, a, c) = Result(i, a, c)
         /\ Result(i, a, c) \subseteq Low(i.w)
<1> DEFINE A == a \cap Low(Wide)
           X == Slid("shl", Wide, h, A) \cap (h .. (h + h - 1))
           Y == {j + h : j \in a \cap Low(h)}
<1>0. i.op = "kunpck" /\ h \in {8, 16} /\ i.w = h + h /\ y = Low(h) /\ z = h .. (h + h - 1)
  BY Zenon DEF Halves
<1>9. h \in {8, 16}
  BY <1>0, Zenon
<1>1. Result(i, a, c) = (c \cap Low(h)) \cup Y
  <2>1. i.w \div 2 = h
    BY <1>0
  <2> QED BY <1>0, <2>1, Zenon DEF Result
<1>2. Slid("shl", Wide, h, A) = {j + h : j \in A} \cap Low(Wide)
  BY Zenon DEF Slid
<1>3. ASSUME NEW j PROVE j \in X <=> j \in Y
  <2>1. ASSUME j \in X PROVE j \in Y
    <3>1. PICK k \in A : j = k + h
      BY <1>2, <2>1, Zenon
    <3>2. k \in Nat /\ k + h <= h + h - 1
      BY <1>9, <2>1, <3>1 DEF Low, Wide
    <3>3. k \in Low(h)
      BY <1>9, <3>2 DEF Low
    <3> QED BY <3>1, <3>3, Zenon
  <2>2. ASSUME j \in Y PROVE j \in X
    <3>1. PICK k \in a \cap Low(h) : j = k + h
      BY <2>2, Zenon
    <3>2. k \in Low(Wide) /\ k + h \in Low(Wide) /\ k + h \in h .. (h + h - 1)
      BY <1>9, <3>1 DEF Low, Wide
    <3> QED BY Zenon, <1>2, <3>1, <3>2
  <2> QED BY <2>1, <2>2, Zenon
<1>4. X = Y
  BY <1>3, Zenon
<1>5. (c \cap Low(Wide)) \cap Low(h) = c \cap Low(h)
  BY <1>9 DEF Low, Wide
<1>6. Low(h) \subseteq Low(i.w) /\ Y \subseteq Low(i.w)
  BY <1>0 DEF Low
<1> QED BY ZenonT(60), <1>0, <1>1, <1>4, <1>5, <1>6 DEF Unpacked

\* The three scratch registers and slots of the unpack chains.
LEMMA UnpckFacts ==
  ASSUME NEW i, ToMask(i), i.op = "kunpck"
  PROVE  /\ rax \in Scratch /\ rcx \in Scratch /\ rdx \in Scratch
         /\ rcx # rax /\ rax # rcx /\ rdx # rax /\ rax # rdx /\ rdx # rcx /\ rcx # rdx
         /\ rax \in AppLocs \ Exempt(i) /\ rcx \in AppLocs \ Exempt(i) /\ rdx \in AppLocs \ Exempt(i)
         /\ i.src1 \in AppLocs /\ IsK(i.src1) /\ i.src2 \in AppLocs /\ IsK(i.src2)
         /\ Written(i) \in Locs /\ Flags \in Exempt(i) /\ Wide \in Widths /\ <<>> \in Stacks
         /\ Tls(1) \in Slots /\ Tls(2) \in Slots /\ Tls(3) \in Slots
         /\ Tls(1) # Tls(2) /\ Tls(1) # Tls(3) /\ Tls(3) # Tls(2)
<1>1. i.src1 \in AppLocs /\ IsK(i.src1) /\ i.src2 \in AppLocs /\ IsK(i.src2)
  BY Zenon DEF ToMask, IsMaskInstr
<1>2. Flags \in Exempt(i)
  BY Zenon DEF Exempt, ClobbersFlags
<1>3. Wide \in Widths
  BY Zenon DEF Wide, Widths
<1>4. rax \in Scratch /\ rcx \in Scratch /\ rdx \in Scratch
  BY Zenon DEF Scratch
<1> QED BY <1>1, <1>2, <1>3, <1>4, ToMaskFacts, LocFacts, ScratchDistinct, KeptNone, ZenonT(60)

\* With immediates.
LEMMA UnpckNarrowSound ==
  ASSUME NEW i, ToMask(i), NEW h, NEW y, NEW z, Halves(i, h, y, z), NEW b
  PROVE  Sound(i, b, Saving(rax, Tls(1), Saving(rcx, Tls(3),
                       <<Load(rax, Wide, i.src1), Load(rcx, Wide, i.src2), Shift("shl", Wide, rax, h),
                         Alu("and", Wide, rax, Imm(z)), Alu("and", Wide, rcx, Imm(y)),
                         Alu("or", Wide, rcx, rax), Store(rcx, Wide, i.dst)>>)), 0, <<>>, <<>>)
<1> DEFINE tl == In2(Tls(1), rax, Tls(3), rcx)
           A == b[i.src1] \cap Low(Wide)
           C == b[i.src2] \cap Low(Wide)
           B == Slid("shl", Wide, h, A)
           x1 == Load(rax, Wide, i.src1)
           x2 == Load(rcx, Wide, i.src2)
           x3 == Shift("shl", Wide, rax, h)
           x4 == Alu("and", Wide, rax, Imm(z))
           x5 == Alu("and", Wide, rcx, Imm(y))
           x6 == Alu("or", Wide, rcx, rax)
           x7 == Store(rcx, Wide, i.dst)
           G == Result(i, b[i.src1], b[i.src2])
           T(p, q) == Two(b, Wide, p, rcx, q)
<1>1. /\ rax \in Scratch /\ rcx \in Scratch /\ rcx # rax /\ rax # rcx
      /\ rax \in AppLocs \ Exempt(i) /\ rcx \in AppLocs \ Exempt(i)
      /\ i.src1 \in AppLocs /\ IsK(i.src1) /\ i.src2 \in AppLocs /\ IsK(i.src2)
      /\ Written(i) \in Locs /\ Flags \in Exempt(i) /\ Wide \in Widths /\ <<>> \in Stacks
      /\ Tls(1) \in Slots /\ Tls(3) \in Slots /\ Tls(1) # Tls(3)
  BY UnpckFacts, Zenon DEF Halves
<1>2. /\ tl \in Savings /\ Room(i, <<>>, tl, {rax}) /\ Room(i, <<>>, tl, {rcx})
      /\ Room(i, <<>>, tl, {rax, Flags}) /\ Room(i, <<>>, tl, {rcx, Flags})
  <2>1. Tls(2) \in Slots /\ Tls(1) # Tls(2) /\ Tls(3) # Tls(2)
    BY UnpckFacts, Zenon DEF Halves
  <2>2. tl \in Savings /\ Kept(<<>>, tl) = Kept(<<>>, <<>>) \cup {rax, rcx}
    BY <1>1, <2>1, InFacts
  <2> QED BY <1>1, <2>2, Zenon DEF Room
<1>3. (C \cap y) \cup (B \cap z) = G /\ G \subseteq Low(i.w)
  <2>1. Unpacked(h, y, z, b[i.src1], b[i.src2]) = G /\ G \subseteq Low(i.w)
    BY UnpckValue, Zenon
  <2> QED BY <2>1, Zenon DEF Unpacked
<1>4. z \in SUBSET Bits /\ y \in SUBSET Bits /\ h \in Nat /\ h < Wide /\ 2 \in Nat
  BY DEF Bits, Low, Wide, Halves
<1>5. Start(b) \subseteq Body(b)
  BY BodyFacts, Zenon
<1> DEFINE Bz == B \cap z
           Cy == C \cap y
<1>6. T(Bz, G) \subseteq Body(b) \cap Regs(Wide, rcx, G) /\ Cy \cup Bz = G
  BY Zenon, <1>3 DEF Two
<1> HIDE DEF tl, A, C, B, G
<1>7. Anywhere(i, <<>>, tl, <<x1, x2>>, Body(b), T(A, C))
  BY <1>1, <1>2, LoadTwo, Zenon DEF A, C
<1>8. Anywhere(i, <<>>, tl, <<x3>>, T(A, C), T(B, C))
  BY <1>1, <1>2, <1>4, TwoShift, ZenonT(60) DEF B
<1>9. Anywhere(i, <<>>, tl, <<x4>>, T(B, C), T(Bz, C))
  BY <1>1, <1>2, <1>4, TwoImm, ZenonT(60)
<1> HIDE DEF Bz
<1>10. Anywhere(i, <<>>, tl, <<x5>>, T(Bz, C), T(Bz, Cy))
  BY <1>1, <1>2, <1>4, TwoOther, ZenonT(60)
<1> HIDE DEF Cy
<1>11. Anywhere(i, <<>>, tl, <<x6>>, T(Bz, Cy), T(Bz, G))
  <2>1. Anywhere(i, <<>>, tl, <<x6>>, T(Bz, Cy), T(Bz, Cy \cup Bz))
    BY <1>1, <1>2, TwoOther, Zenon
  <2> QED BY <1>6, <2>1, Zenon
<1>12. Anywhere(i, <<>>, tl, <<x7>>, T(Bz, G), Post(i, b))
  <2> HIDE DEF T
  <2> QED BY <1>1, <1>3, <1>6, StoreAny, ZenonT(60) DEF G
<1> HIDE DEF x1, x2, x3, x4, x5, x6, x7, T
<1>13. Anywhere(i, <<>>, tl, <<x1, x2, x3>>, Body(b), T(B, C))
  BY <1>7, <1>8, AnyThree, Zenon
<1>14. Anywhere(i, <<>>, tl, <<x4, x5>>, T(B, C), T(Bz, Cy))
  BY <1>9, <1>10, AnyTwo, Zenon
<1>15. Anywhere(i, <<>>, tl, <<x6, x7>>, T(Bz, Cy), Post(i, b))
  BY <1>11, <1>12, AnyTwo, Zenon
<1>16. Anywhere(i, <<>>, tl, <<x1, x2, x3, x4, x5>>, Body(b), T(Bz, Cy))
  BY <1>13, <1>14, AnyFive, Zenon
<1> DEFINE c == <<x1, x2, x3, x4, x5, x6, x7>>
<1>17. Anywhere(i, <<>>, tl, c, Body(b), Post(i, b))
  BY <1>15, <1>16, AnySeven, Zenon
<1> HIDE DEF c
<1>18. Sound(i, b, c, 2, <<>>, tl)
  BY <1>1, <1>2, <1>4, <1>5, <1>17, AnySound, ZenonT(60)
<1>19. Sound(i, b, Saving(rax, Tls(1), Saving(rcx, Tls(3), c)), 0, <<>>, <<>>)
  BY <1>1, <1>18, Save2, Zenon DEF tl
<1> QED BY <1>19, Zenon DEF c, x1, x2, x3, x4, x5, x6, x7

\* kunpckwd: the cut goes through a third register.
LEMMA UnpckWideSound ==
  ASSUME NEW i, ToMask(i), NEW h, NEW y, NEW z, Halves(i, h, y, z), NEW b
  PROVE  Sound(i, b, Saving(rax, Tls(1), Saving(rcx, Tls(3), Saving(rdx, Tls(2),
                       <<Load(rax, Wide, i.src1), Load(rcx, Wide, i.src2), Shift("shl", Wide, rax, h),
                         MovImm(rdx, z), Alu("and", Wide, rax, rdx), MovImm(rdx, y), Alu("and", Wide, rcx, rdx),
                         Alu("or", Wide, rcx, rax), Store(rcx, Wide, i.dst)>>))), 0, <<>>, <<>>)
\* A mask that is loaded into rdx.
<1>TwoMovAnd.
  ASSUME NEW i0, NEW b0, NEW st, NEW tl, NEW q \in Scratch, q # rax, q # rdx, Room(i0, st, tl, {rdx}),
         Room(i0, st, tl, {rax, Flags}), Room(i0, st, tl, {q, Flags}), NEW a, NEW c, NEW z0 \in SUBSET Bits
  PROVE  /\ Anywhere(i0, st, tl, <<MovImm(rdx, z0), Alu("and", Wide, rax, rdx)>>,
                     Two(b0, Wide, a, q, c), Two(b0, Wide, a \cap z0, q, c))
         /\ Anywhere(i0, st, tl, <<MovImm(rdx, z0), Alu("and", Wide, q, rdx)>>,
                     Two(b0, Wide, a, q, c), Two(b0, Wide, a, q, c \cap z0))
  <2> USE <1>TwoMovAnd
  <2> DEFINE U == Two(b0, Wide, a, q, c)
             F == (Body(b0) \cap Regs(Wide, q, c)) \cap Regs(Wide, rdx, z0)
             H == (Body(b0) \cap Regs(Wide, rax, a)) \cap Regs(Wide, rdx, z0)
             x == MovImm(rdx, z0)
             y1 == Alu("and", Wide, rax, rdx)
             y2 == Alu("and", Wide, q, rdx)
  <2>1. /\ rax \in Scratch /\ rdx \in Scratch /\ rax # rdx /\ rdx # rax /\ rdx # q
        /\ Wide \in Widths /\ "and" \in {"and", "or", "xor"}
    BY ScratchDistinct, Zenon DEF Scratch, Wide, Widths
  <2>2. \A r \in Scratch : Untouched(r, Body(b0))
    BY BodyFacts, Zenon
  <2>3. Untouched(rdx, U)
    <3>1. Untouched(rdx, Body(b0) \cap Regs(Wide, rax, a))
      BY <2>1, <2>2, UntouchedRegs, ZenonT(60)
    <3> QED BY <2>1, <3>1, UntouchedRegs, Zenon DEF Two
  <2>4. Untouched(rax, F) /\ F \subseteq Regs(Wide, rdx, z0)
    <3>1. Untouched(rax, Body(b0) \cap Regs(Wide, q, c))
      BY <2>1, <2>2, UntouchedRegs, Zenon
    <3>2. Untouched(rax, F)
      BY <2>1, <3>1, UntouchedRegs, ZenonT(60)
    <3> QED BY <3>2, Zenon
  <2>5. Untouched(q, H) /\ H \subseteq Regs(Wide, rdx, z0)
    <3>1. Untouched(q, Body(b0) \cap Regs(Wide, rax, a))
      BY <2>1, <2>2, UntouchedRegs, ZenonT(60)
    <3>2. Untouched(q, H)
      BY <2>1, <3>1, UntouchedRegs, Zenon
    <3> QED BY <3>2, Zenon
  <2> DEFINE V == U \cap Regs(Wide, rdx, z0)
             V1 == F \cap Regs(Wide, rax, a)
             V2 == H \cap Regs(Wide, q, c)
             W1 == F \cap Regs(Wide, rax, a \cap z0)
             W2 == H \cap Regs(Wide, q, c \cap z0)
             E1 == Two(b0, Wide, a \cap z0, q, c)
             E2 == Two(b0, Wide, a, q, c \cap z0)
  <2>6. V \subseteq V1 /\ V \subseteq V2
    BY Zenon DEF Two
  <2>7. W1 \subseteq E1 /\ W2 \subseteq E2
    BY Zenon DEF Two
  <2>8. Outcome("and", Wide, a, z0) = a \cap z0 /\ Outcome("and", Wide, c, z0) = c \cap z0
    BY Zenon DEF Outcome
  <2> HIDE DEF U, F, H
  <2>9. Anywhere(i0, st, tl, <<x>>, U, V)
    BY <2>1, <2>3, MovImmAny, Zenon
  <2>10. Anywhere(i0, st, tl, <<y1>>, V1, W1)
    <3>1. Anywhere(i0, st, tl, <<y1>>, V1, F \cap Regs(Wide, rax, Outcome("and", Wide, a, z0)))
      BY <2>1, <2>4, PairAny, Zenon
    <3> QED BY <2>8, <3>1, Zenon
  <2>11. Anywhere(i0, st, tl, <<y2>>, V2, W2)
    <3>1. Anywhere(i0, st, tl, <<y2>>, V2, H \cap Regs(Wide, q, Outcome("and", Wide, c, z0)))
      BY <2>1, <2>5, PairAny, Zenon
    <3> QED BY <2>8, <3>1, Zenon
  <2> HIDE DEF V, V1, V2, W1, W2, E1, E2, x, y1, y2
  <2>12. Anywhere(i0, st, tl, <<y1>>, V, E1)
    BY <2>6, <2>7, <2>10, AnyWeak, ZenonT(60)
  <2>13. Anywhere(i0, st, tl, <<y2>>, V, E2)
    BY <2>6, <2>7, <2>11, AnyWeak, ZenonT(60)
  <2>14. Anywhere(i0, st, tl, <<x, y1>>, U, E1)
    BY <2>9, <2>12, AnyTwo, Zenon
  <2>15. Anywhere(i0, st, tl, <<x, y2>>, U, E2)
    BY <2>9, <2>13, AnyTwo, ZenonT(60)
  <2> QED BY <2>14, <2>15, Zenon DEF U, E1, E2, x, y1, y2
<1> DEFINE tl == In3(Tls(1), rax, Tls(3), rcx, Tls(2), rdx)
           A == b[i.src1] \cap Low(Wide)
           C == b[i.src2] \cap Low(Wide)
           B == Slid("shl", Wide, h, A)
           x1 == Load(rax, Wide, i.src1)
           x2 == Load(rcx, Wide, i.src2)
           x3 == Shift("shl", Wide, rax, h)
           x4 == MovImm(rdx, z)
           x5 == Alu("and", Wide, rax, rdx)
           x6 == MovImm(rdx, y)
           x7 == Alu("and", Wide, rcx, rdx)
           x8 == Alu("or", Wide, rcx, rax)
           x9 == Store(rcx, Wide, i.dst)
           G == Result(i, b[i.src1], b[i.src2])
           T(p, q) == Two(b, Wide, p, rcx, q)
           Bz == B \cap z
           Cy == C \cap y
<1>1. /\ rax \in Scratch /\ rcx \in Scratch /\ rdx \in Scratch /\ rcx # rax /\ rcx # rdx /\ rax # rcx /\ rax # rdx
      /\ rax \in AppLocs \ Exempt(i) /\ rcx \in AppLocs \ Exempt(i) /\ rdx \in AppLocs \ Exempt(i)
      /\ i.src1 \in AppLocs /\ IsK(i.src1) /\ i.src2 \in AppLocs /\ IsK(i.src2)
      /\ Written(i) \in Locs /\ Flags \in Exempt(i) /\ Wide \in Widths /\ <<>> \in Stacks
      /\ Tls(1) \in Slots /\ Tls(2) \in Slots /\ Tls(3) \in Slots
      /\ Tls(1) # Tls(2) /\ Tls(1) # Tls(3) /\ Tls(3) # Tls(2)
  BY UnpckFacts, Zenon DEF Halves
<1>2. /\ tl \in Savings /\ Room(i, <<>>, tl, {rax}) /\ Room(i, <<>>, tl, {rcx}) /\ Room(i, <<>>, tl, {rdx})
      /\ Room(i, <<>>, tl, {rax, Flags}) /\ Room(i, <<>>, tl, {rcx, Flags})
  <2>1. tl \in Savings /\ Kept(<<>>, tl) = Kept(<<>>, <<>>) \cup {rax, rcx, rdx}
    BY <1>1, InFacts
  <2> QED BY <1>1, <2>1, Zenon DEF Room
<1>3. Cy \cup Bz = G /\ G \subseteq Low(i.w)
  <2>1. Unpacked(h, y, z, b[i.src1], b[i.src2]) = G /\ G \subseteq Low(i.w)
    BY UnpckValue, Zenon
  <2> QED BY <2>1, Zenon DEF Unpacked
<1>4. z \in SUBSET Bits /\ y \in SUBSET Bits /\ h \in Nat /\ h < Wide /\ 3 \in Nat
  BY DEF Bits, Low, Wide, Halves
<1>5. Start(b) \subseteq Body(b)
  BY BodyFacts, Zenon
<1>6. T(Bz, G) \subseteq Body(b) \cap Regs(Wide, rcx, G)
  BY Zenon DEF Two
<1> HIDE DEF tl, A, C, B, G
<1>7. Anywhere(i, <<>>, tl, <<x1, x2>>, Body(b), T(A, C))
  BY <1>1, <1>2, LoadTwo, Zenon DEF A, C
<1>8. Anywhere(i, <<>>, tl, <<x3>>, T(A, C), T(B, C))
  BY <1>1, <1>2, <1>4, TwoShift, ZenonT(60) DEF B
<1>9. Anywhere(i, <<>>, tl, <<x4, x5>>, T(B, C), T(Bz, C))
  BY <1>1, <1>2, <1>4, <1>TwoMovAnd, ZenonT(60)
<1> HIDE DEF Bz
<1>10. Anywhere(i, <<>>, tl, <<x6, x7>>, T(Bz, C), T(Bz, Cy))
  BY <1>1, <1>2, <1>4, <1>TwoMovAnd, ZenonT(60)
<1> HIDE DEF Cy
<1>11. Anywhere(i, <<>>, tl, <<x8>>, T(Bz, Cy), T(Bz, G))
  <2>1. Anywhere(i, <<>>, tl, <<x8>>, T(Bz, Cy), T(Bz, Cy \cup Bz))
    BY <1>1, <1>2, TwoOther, Zenon
  <2> QED BY <1>3, <2>1, Zenon
<1>12. Anywhere(i, <<>>, tl, <<x9>>, T(Bz, G), Post(i, b))
  <2> HIDE DEF T
  <2> QED BY <1>1, <1>3, <1>6, StoreAny, ZenonT(60) DEF G
<1> HIDE DEF x1, x2, x3, x4, x5, x6, x7, x8, x9, T
<1>13. Anywhere(i, <<>>, tl, <<x1, x2, x3>>, Body(b), T(B, C))
  BY <1>7, <1>8, AnyThree, Zenon
<1>14. Anywhere(i, <<>>, tl, <<x1, x2, x3, x4, x5>>, Body(b), T(Bz, C))
  BY <1>9, <1>13, AnyFive, ZenonT(60)
<1>15. Anywhere(i, <<>>, tl, <<x1, x2, x3, x4, x5, x6, x7>>, Body(b), T(Bz, Cy))
  BY <1>10, <1>14, AnySeven, ZenonT(60)
<1>16. Anywhere(i, <<>>, tl, <<x8, x9>>, T(Bz, Cy), Post(i, b))
  BY <1>11, <1>12, AnyTwo, Zenon
<1> DEFINE c == <<x1, x2, x3, x4, x5, x6, x7, x8, x9>>
<1>17. Anywhere(i, <<>>, tl, c, Body(b), Post(i, b))
  BY <1>15, <1>16, AnyNine, ZenonT(60)
<1> HIDE DEF c
<1>18. Sound(i, b, c, 3, <<>>, tl)
  BY <1>1, <1>2, <1>4, <1>5, <1>17, AnySound, ZenonT(60)
<1>19. Sound(i, b, Saving(rax, Tls(1), Saving(rcx, Tls(3), Saving(rdx, Tls(2), c))), 0, <<>>, <<>>)
  BY <1>1, <1>18, Save3, ZenonT(60) DEF tl
<1> QED BY <1>19, Zenon DEF c, x1, x2, x3, x4, x5, x6, x7, x8, x9

-----------------------------------------------------------------------------
\* kmov.  Moves between any two locations.
LEMMA MovAny ==
  ASSUME NEW i, NEW st, NEW tl, NEW d \in Locs, NEW s \in Locs, NEW w \in Widths, Room(i, st, tl, {d}),
         NEW P \in SUBSET Vals, NEW Q \in SUBSET Vals,
         \A u \in P, t \in Vals : Became(u, t, {d}, d, w, u[s] \cap Low(w)) => t \in Q
  PROVE  Anywhere(i, st, tl, <<Mov(d, s, w, w)>>, P, Q)
<1> DEFINE x == Mov(d, s, w, w)
<1>0. s[1] # "imm"
  BY LocFacts, Zenon
<1>1. x.what = "mov" /\ x.d = d /\ x.s = s /\ x.w = w /\ x.sz = w
  BY Zenon DEF Mov
<1>2. x \in Ops
  BY DEF Ops, Whats, Widths, Operands, Mov
<1> HIDE DEF x
<1>3. ~Jumps(x) /\ Harmless(i, x, st, tl)
  BY <1>1, Zenon DEF Jumps, Harmless, Changes, Room
<1>4. ASSUME NEW u \in P PROVE Outs(x, u) \subseteq Q
  <2> DEFINE t == Moved(u, x)
  <2>1. Value(u, s) \cap Low(w) = u[s] \cap Low(w)
    BY <1>0, Zenon DEF Value
  <2>2. Outs(x, u) = {t} /\ Became(u, t, {x.d}, x.d, x.w, Value(u, x.s) \cap Low(x.w))
    BY <1>1, <1>2, MovEffect, ZenonT(60)
  <2>3. Became(u, t, {d}, d, w, u[s] \cap Low(w))
    BY <1>1, <2>1, <2>2, ZenonT(60)
  <2> HIDE DEF t
  <2>4. t \in Vals
    BY <2>3, Zenon DEF Became
  <2>5. t \in Q
    BY <2>3, <2>4, Zenon
  <2> QED BY <2>2, <2>5, Zenon
<1>5. Anywhere(i, st, tl, <<x>>, P, Q)
  BY <1>2, <1>3, <1>4, AnyOne, ZenonT(60)
<1> QED BY <1>5, Zenon DEF x

\* The destination is cleared before it is written.
Zeroed(i, b) == {u \in Vals : u[i.src1] = b[i.src1] /\ u[i.dst] = {}}

\* xor and a store clear the destination mask.
LEMMA ClearTo ==
  ASSUME NEW i, ToMask(i), NEW b, NEW st, NEW tl, NEW r \in Scratch, Room(i, st, tl, {r, Flags}),
         i.src1 # r, i.src1 # i.dst
  PROVE  Anywhere(i, st, tl, <<Alu("xor", Wide, r, r), Store(r, Wide, i.dst)>>, Clean(b, {r, Flags}), Zeroed(i, b))
<1> DEFINE F == Clean(b, {r, Flags})
           G == F \cap Regs(Wide, r, {})
           x == Alu("xor", Wide, r, r)
           y == Store(r, Wide, i.dst)
<1>1. /\ Wide \in Widths /\ i.dst \in Locs /\ r \in Locs /\ r \in {r, Flags} /\ Flags \in {r, Flags}
      /\ i.src1 \in AppLocs \ {r, Flags} /\ i.src1 \in Locs /\ Room(i, st, tl, {i.dst})
  BY ToMaskFacts, LocFacts, Zenon DEF Wide, Widths, Room, Exempt
<1>2. Untouched(r, F)
  BY <1>1, UntouchedClean, Zenon
<1>3. Anywhere(i, st, tl, <<x>>, F, G)
  BY <1>1, <1>2, ClearAny, ZenonT(60)
<1>4. G \in SUBSET Vals /\ Zeroed(i, b) \in SUBSET Vals
  BY Zenon DEF Regs, Zeroed
<1>5. ASSUME NEW u \in G, NEW t \in Vals, Became(u, t, {i.dst}, i.dst, Wide, u[r] \cap Low(Wide))
      PROVE  t \in Zeroed(i, b)
  <2>1. u[i.src1] = b[i.src1] /\ u[r] \cap Low(Wide) = {}
    BY <1>1, Zenon DEF Clean, Regs
  <2>2. t[i.dst] = u[r] \cap Low(Wide)
    BY <1>5, Zenon DEF Became, Wide
  <2>3. t[i.src1] = u[i.src1]
    BY <1>1, <1>5, Zenon DEF Became
  <2> QED BY <2>1, <2>2, <2>3, Zenon DEF Zeroed
<1> HIDE DEF F, G
<1>6. Anywhere(i, st, tl, <<Mov(i.dst, r, Wide, Wide)>>, G, Zeroed(i, b))
  BY <1>1, <1>4, <1>5, MovAny, ZenonT(60)
<1>7. Anywhere(i, st, tl, <<y>>, G, Zeroed(i, b))
  BY <1>6, Zenon DEF Store
<1> HIDE DEF x, y
<1>8. Anywhere(i, st, tl, <<x, y>>, F, Zeroed(i, b))
  BY <1>3, <1>7, AnyTwo, ZenonT(60)
<1> QED BY <1>8, Zenon DEF x, y, F

\* The operands of kmov, and its result.
LEMMA KmovFacts ==
  ASSUME NEW i, IsMaskInstr(i), i.op = "kmov"
  PROVE  /\ i.src1 \in AppLocs \ {Flags} /\ i.src1 \in Locs /\ i.dst \in AppLocs \ {Flags} /\ i.dst \in Locs
         /\ i.w \in Widths /\ Wide \in Widths /\ Low(i.w) \subseteq Low(Wide)
         /\ \A b : Result(i, b[i.src1], b[i.src2]) = b[i.src1] \cap Low(i.w)
         /\ ~WritesFlags(i) /\ Written(i) = i.dst /\ Written(i) \in Locs
         /\ 1 \in Nat /\ 2 \in Nat /\ 0 \in Nat /\ <<>> \in Savings /\ <<>> \in Stacks /\ (IsK(i.dst) => ToMask(i))
<1>1. i.w \in Widths /\ i.src1 \in AppLocs \ {Flags} /\ i.dst \in AppLocs \ {Flags}
  BY Zenon DEF IsMaskInstr
<1>2. ~WritesFlags(i)
  BY Zenon DEF WritesFlags
<1>3. Low(i.w) \subseteq Low(Wide) /\ Wide \in Widths
  BY <1>1, LowFacts, SMTT(30) DEF Wide, Widths
<1>4. \A b : Result(i, b[i.src1], b[i.src2]) = b[i.src1] \cap Low(i.w)
  BY Zenon DEF Result
<1>5. i.src1 \in Locs /\ i.dst \in Locs
  BY <1>1, LocFacts, Zenon
<1> QED BY <1>1, <1>2, <1>3, <1>4, <1>5, KeptNone, ZenonT(60) DEF Written, ToMask

\* kmov from a general register to a mask, unless the source is the scratch
\* register of the chain.
LEMMA FromGprSound ==
  ASSUME NEW i, IsMaskInstr(i), i.op = "kmov", IsK(i.dst), ~IsK(i.src1), NEW b
  PROVE  /\ i.w \in {16, 32} /\ i.src1 # rax =>
              Sound(i, b, Saving(rax, Tls(1), <<Alu("xor", Wide, rax, rax), Store(rax, Wide, i.dst),
                                                Store(i.src1, i.w, i.dst)>>), 0, <<>>, <<>>)
         /\ i.w \notin {16, 32} /\ i.src1 # r15 =>
              Sound(i, b, Pushing(Flags, Pushing(r15, <<Alu("xor", Wide, r15, r15), Store(r15, Wide, i.dst),
                                                        Store(i.src1, i.w, i.dst)>>)), 0, <<>>, <<>>)
         /\ i.w = Wide => Sound(i, b, <<Store(i.src1, i.w, i.dst)>>, 0, <<>>, <<>>)
\* From a general-purpose register through the scratch register r.
<1>FromGprBody.
  ASSUME NEW i0, IsMaskInstr(i0), i0.op = "kmov", IsK(i0.dst), ~IsK(i0.src1), NEW b0, NEW st \in Stacks, NEW tl \in Savings,
         NEW r \in Scratch, Room(i0, st, tl, {r, Flags}), i0.src1 # r, NEW o \in Nat
  PROVE  Sound(i0, b0, <<Alu("xor", Wide, r, r), Store(r, Wide, i0.dst), Store(i0.src1, i0.w, i0.dst)>>, o, st, tl)
  <2> USE <1>FromGprBody
  <2> DEFINE F == Clean(b0, {r, Flags})
             a == b0[i0.src1] \cap Low(i0.w)
             x == Alu("xor", Wide, r, r)
             y == Store(r, Wide, i0.dst)
             z == Store(i0.src1, i0.w, i0.dst)
  <2>1. ToMask(i0) /\ i0.src1 # i0.dst /\ i0.src1 \in AppLocs /\ i0.w \in Widths /\ a = Result(i0, b0[i0.src1], b0[i0.src2])
    BY KmovFacts, Zenon
  <2>2. Anywhere(i0, st, tl, <<x, y>>, F, Zeroed(i0, b0))
    BY <2>1, ClearTo, ZenonT(60)
  <2>3. Zeroed(i0, b0) \in SUBSET Vals
    BY Zenon DEF Zeroed
  <2>4. \A u \in Zeroed(i0, b0) : /\ u[i0.src1] \cap Low(i0.w) = a
                                /\ u[i0.dst] \ Low(i0.w) \in {{}, b0[i0.dst] \ Low(i0.w)}
    BY Zenon DEF Zeroed
  <2>5. Start(b0) \subseteq F
    BY Zenon DEF Start, Clean
  <2> HIDE DEF F, a, x, y
  <2>6. Anywhere(i0, st, tl, <<z>>, Zeroed(i0, b0), Post(i0, b0))
    BY <2>1, <2>3, <2>4, StoreFrom, ZenonT(60)
  <2> HIDE DEF z
  <2>7. Anywhere(i0, st, tl, <<x, y, z>>, F, Post(i0, b0))
    BY <2>2, <2>6, AnyThree, ZenonT(60)
  <2>8. Sound(i0, b0, <<x, y, z>>, o, st, tl)
    BY <2>5, <2>7, AnySound, ZenonT(60)
  <2> QED BY <2>8, Zenon DEF x, y, z
<1>0. /\ ToMask(i) /\ Written(i) \in Locs /\ 1 \in Nat /\ 2 \in Nat /\ 0 \in Nat
      /\ <<>> \in Savings /\ <<>> \in Stacks /\ i.src1 \in AppLocs /\ i.w \in Widths
      /\ rax \in Scratch /\ r15 \in Scratch /\ Tls(1) \in Slots
  BY KmovFacts, ScratchDistinct, Zenon DEF Scratch
<1>1. rax \in AppLocs \ Exempt(i) /\ r15 \in AppLocs \ Exempt(i) /\ Flags \in AppLocs /\ Flags # r15
  BY <1>0, ToMaskFacts, LocFacts, Zenon
<1>2. ASSUME i.w \in {16, 32}, i.src1 # rax
      PROVE  Sound(i, b, Saving(rax, Tls(1), <<Alu("xor", Wide, rax, rax), Store(rax, Wide, i.dst),
                                               Store(i.src1, i.w, i.dst)>>), 0, <<>>, <<>>)
  <2> DEFINE tl == In1(Tls(1), rax)
             c == <<Alu("xor", Wide, rax, rax), Store(rax, Wide, i.dst), Store(i.src1, i.w, i.dst)>>
  <2>1. Flags \in Exempt(i)
    BY <1>2, Zenon DEF Exempt, ClobbersFlags, FromGpr
  <2>2. tl \in Savings /\ Kept(<<>>, tl) = Kept(<<>>, <<>>) \cup {rax}
    BY <1>0, <1>1, ScratchDistinct, InFacts, SMTT(30)
  <2>3. Room(i, <<>>, tl, {rax, Flags})
    BY <2>1, <2>2, Zenon DEF Room
  <2> HIDE DEF tl
  <2>4. Sound(i, b, c, 1, <<>>, tl)
    BY <1>0, <1>2, <2>2, <2>3, <1>FromGprBody, Zenon
  <2> HIDE DEF c
  <2>5. Sound(i, b, Saving(rax, Tls(1), c), 0, <<>>, <<>>)
    BY <1>0, <1>1, <2>4, Save1, ZenonT(60) DEF tl
  <2> QED BY <2>5, Zenon DEF c
<1>3. ASSUME i.w \notin {16, 32}, i.src1 # r15
      PROVE  Sound(i, b, Pushing(Flags, Pushing(r15, <<Alu("xor", Wide, r15, r15), Store(r15, Wide, i.dst),
                                                       Store(i.src1, i.w, i.dst)>>)), 0, <<>>, <<>>)
  <2> DEFINE st == On2(Flags, r15)
             c == <<Alu("xor", Wide, r15, r15), Store(r15, Wide, i.dst), Store(i.src1, i.w, i.dst)>>
  <2>1. ~ClobbersFlags(i)
    BY <1>3, Zenon DEF ClobbersFlags, FromGpr
  <2>2. Flags \in AppLocs \ Exempt(i)
    BY <1>0, <1>1, <2>1, ToMaskFacts, Zenon
  <2>3. st \in Stacks /\ Kept(st, <<>>) = {Flags, r15}
    BY <1>1, OnFacts, Zenon
  <2>4. Room(i, st, <<>>, {r15, Flags})
    BY <2>3, Zenon DEF Room
  <2> HIDE DEF st
  <2>5. Sound(i, b, c, 2, st, <<>>)
    BY <1>0, <1>3, <2>3, <2>4, <1>FromGprBody, Zenon
  <2> HIDE DEF c
  <2>6. Sound(i, b, Pushing(Flags, Pushing(r15, c)), 0, <<>>, <<>>)
    BY <1>0, <1>1, <2>2, <2>5, Push2, ZenonT(60) DEF st
  <2> QED BY <2>6, Zenon DEF c
<1>4. Sound(i, b, <<Store(i.src1, i.w, i.dst)>>, 0, <<>>, <<>>)
  <2> DEFINE a == b[i.src1] \cap Low(i.w)
  <2>1. a = Result(i, b[i.src1], b[i.src2]) /\ Start(b) \in SUBSET Vals
    BY KmovFacts, Zenon DEF Start
  <2>2. \A u \in Start(b) : /\ u[i.src1] \cap Low(i.w) = a
                            /\ u[i.dst] \ Low(i.w) \in {{}, b[i.dst] \ Low(i.w)}
    BY <1>0, ToMaskFacts, Zenon DEF Start
  <2> HIDE DEF a
  <2>3. Anywhere(i, <<>>, <<>>, <<Store(i.src1, i.w, i.dst)>>, Start(b), Post(i, b))
    BY <1>0, <2>1, <2>2, StoreFrom, ZenonT(60)
  <2>4. Start(b) \subseteq Start(b)
    BY Zenon
  <2> QED BY <1>0, <2>3, <2>4, AnySound, ZenonT(60)
<1> QED BY <1>2, <1>3, <1>4, Zenon

\* kmov from a mask to a general register; the 16-bit chain clears the upper half
\* of rax only.
LEMMA ToGprSound ==
  ASSUME NEW i, IsMaskInstr(i), i.op = "kmov", ~IsK(i.dst), NEW b
  PROVE  /\ i.w \in {32, 64} => Sound(i, b, <<Load(i.dst, i.w, i.src1)>>, 0, <<>>, <<>>)
         /\ i.dst = rax => Sound(i, b, <<Load(i.dst, i.w, i.src1), Movzx(rax, i.w)>>, 0, <<>>, <<>>)
         /\ Sound(i, b, Pushing(Flags, <<Alu("xor", 32, i.dst, i.dst), Load(i.dst, i.w, i.src1)>>), 0, <<>>, <<>>)
\* To a general-purpose register.
<1>ToGprFacts.
  ASSUME NEW i0, IsMaskInstr(i0), i0.op = "kmov", ~IsK(i0.dst)
  PROVE  /\ i0.dst[1] = "r" /\ i0.dst # Flags /\ IsK(i0.src1) /\ i0.src1 # i0.dst /\ i0.src1 # Flags
         /\ Exempt(i0) = {i0.dst} /\ \A st, tl : Room(i0, st, tl, {i0.dst})
  <2> USE <1>ToGprFacts
  <2>1. i0.dst[1] = "r"
    BY KmovFacts, SMTT(30) DEF AppLocs, R, K, Flags, IsK
  <2>2. IsK(i0.src1)
    BY Zenon DEF IsMaskInstr
  <2>3. ~ClobbersFlags(i0)
    BY <2>2, Zenon DEF ClobbersFlags, FromGpr
  <2>4. Exempt(i0) = {i0.dst}
    BY <2>3, KmovFacts, Zenon DEF Exempt
  <2> QED BY <2>1, <2>2, <2>4, KmovFacts, ZenonT(60) DEF Room
<1>ToGprPlain.
  ASSUME NEW i0, IsMaskInstr(i0), i0.op = "kmov", ~IsK(i0.dst), NEW b0, NEW st, NEW tl, NEW P \in SUBSET Vals,
         \A u \in P : u[i0.src1] = b0[i0.src1] /\ (i0.w \in {32, 64} \/ u[i0.dst] = {})
  PROVE  Anywhere(i0, st, tl, <<Load(i0.dst, i0.w, i0.src1)>>, P, Post(i0, b0))
  <2> USE <1>ToGprPlain
  <2>1. /\ i0.dst \in Locs /\ i0.src1 \in Locs /\ i0.w \in Widths /\ ~WritesFlags(i0)
        /\ Result(i0, b0[i0.src1], b0[i0.src2]) = b0[i0.src1] \cap Low(i0.w)
    BY KmovFacts, Zenon
  <2>2. i0.dst[1] = "r" /\ Room(i0, st, tl, {i0.dst})
    BY <1>ToGprFacts, Zenon
  <2>3. Post(i0, b0) \in SUBSET Vals
    BY Zenon DEF Post
  <2>4. ASSUME NEW u \in P, NEW t \in Vals, Became(u, t, {i0.dst}, i0.dst, i0.w, u[i0.src1] \cap Low(i0.w))
        PROVE  t \in Post(i0, b0)
    <3>1. u[i0.src1] = b0[i0.src1]
      BY Zenon
    <3>2. t[i0.dst] = b0[i0.src1] \cap Low(i0.w)
      <4>1. CASE i0.w \in {32, 64}
        BY <2>2, <2>4, <3>1, <4>1, ZenonT(60) DEF Became
      <4>2. CASE u[i0.dst] = {}
        <5>1. t[i0.dst] \cap Low(i0.w) = b0[i0.src1] \cap Low(i0.w) /\ t[i0.dst] \ Low(i0.w) = {}
          BY <2>4, <3>1, <4>2, Zenon DEF Became
        <5> QED BY <5>1, Zenon
      <4> QED BY <4>1, <4>2, Zenon
    <3> QED BY <2>1, <3>2, Zenon DEF Post
  <2>5. Anywhere(i0, st, tl, <<Mov(i0.dst, i0.src1, i0.w, i0.w)>>, P, Post(i0, b0))
    BY <2>1, <2>2, <2>3, <2>4, MovAny, ZenonT(60)
  <2> QED BY <2>5, Zenon DEF Load
<1>0. /\ i.dst \in AppLocs /\ i.dst \in Locs /\ i.src1 \in AppLocs /\ i.src1 \in Locs /\ i.w \in Widths
      /\ Written(i) \in Locs /\ 0 \in Nat /\ 1 \in Nat /\ <<>> \in Savings /\ <<>> \in Stacks
      /\ Result(i, b[i.src1], b[i.src2]) = b[i.src1] \cap Low(i.w) /\ ~WritesFlags(i) /\ Wide \in Widths
  BY KmovFacts, Zenon
<1>1. /\ i.dst[1] = "r" /\ i.dst # Flags /\ IsK(i.src1) /\ i.src1 # i.dst /\ i.src1 # Flags /\ Exempt(i) = {i.dst}
      /\ \A st, tl : Room(i, st, tl, {i.dst})
  BY <1>ToGprFacts, ZenonT(60)
<1>2. Start(b) \in SUBSET Vals /\ Post(i, b) \in SUBSET Vals /\ Start(b) \subseteq Start(b)
  BY Zenon DEF Start, Post
<1>3. ASSUME i.w \in {32, 64} PROVE Sound(i, b, <<Load(i.dst, i.w, i.src1)>>, 0, <<>>, <<>>)
  <2>1. \A u \in Start(b) : u[i.src1] = b[i.src1]
    BY <1>0, Zenon DEF Start
  <2>2. Anywhere(i, <<>>, <<>>, <<Load(i.dst, i.w, i.src1)>>, Start(b), Post(i, b))
    BY <1>2, <1>3, <2>1, <1>ToGprPlain, Zenon
  <2> QED BY <1>0, <1>2, <2>2, AnySound, ZenonT(60)
<1>4. ASSUME i.dst = rax
      PROVE  Sound(i, b, <<Load(i.dst, i.w, i.src1), Movzx(rax, i.w)>>, 0, <<>>, <<>>)
  <2> DEFINE F == Body(b)
             w == i.w
             a == b[i.src1] \cap Low(w)
             x == Load(rax, w, i.src1)
             y == Movzx(rax, w)
             Q == F \cap Regs(Wide, rax, a)
  <2>1. rax \in Scratch /\ Room(i, <<>>, <<>>, {rax})
    BY ZenonT(60), <1>1, <1>4 DEF Scratch
  <2>2. Untouched(rax, F) /\ F \subseteq F /\ Start(b) \subseteq F
    BY <2>1, BodyFacts, Zenon
  <2>3. Q \subseteq Post(i, b)
    <3>1. ASSUME NEW u \in Q PROVE u \in Post(i, b)
      <4>1. u \in Vals /\ u[rax] \cap Low(Wide) = a /\ u[rax] \in SUBSET Bits
        BY <1>0, <1>4, Zenon DEF Regs, Vals
      <4>2. u[rax] = a
        BY <4>1, LowFacts, Zenon DEF Wide
      <4> QED BY <1>0, <1>4, <4>1, <4>2, Zenon DEF Post
    <3> QED BY <3>1, Zenon
  <2> HIDE DEF F, a, w
  <2>4. Anywhere(i, <<>>, <<>>, <<x>>, F, F \cap Regs(w, rax, a))
    BY <1>0, <1>1, <2>1, <2>2, LoadAny, ZenonT(60) DEF F, a, w
  <2>5. Anywhere(i, <<>>, <<>>, <<y>>, F \cap Regs(w, rax, a), Q)
    BY <1>0, <2>1, <2>2, MovzxAny, ZenonT(60) DEF w
  <2> HIDE DEF x, y, Q
  <2>6. Anywhere(i, <<>>, <<>>, <<x, y>>, F, Q)
    BY <2>4, <2>5, AnyTwo, ZenonT(60)
  <2>7. F \subseteq F
    BY Zenon
  <2>8. Anywhere(i, <<>>, <<>>, <<x, y>>, F, Post(i, b))
    BY <2>3, <2>6, <2>7, AnyWeak, ZenonT(60)
  <2>9. Sound(i, b, <<x, y>>, 0, <<>>, <<>>)
    BY <1>0, <2>2, <2>8, AnySound, Zenon
  <2> QED BY <1>4, <2>9, Zenon DEF x, y, w
<1>5. Sound(i, b, Pushing(Flags, <<Alu("xor", 32, i.dst, i.dst), Load(i.dst, i.w, i.src1)>>), 0, <<>>, <<>>)
  <2> DEFINE st == On1(Flags)
             x == Alu("xor", 32, i.dst, i.dst)
             y == Load(i.dst, i.w, i.src1)
             Q == {u \in Vals : u[i.src1] = b[i.src1] /\ u[i.dst] = {}}
  <2>1. Flags \in AppLocs \ Exempt(i)
    BY <1>1, LocFacts, Zenon
  <2>2. st \in Stacks /\ Kept(st, <<>>) = {Flags}
    BY <2>1, OnFacts, Zenon
  <2>3. x.what = "xor" /\ x.d = i.dst /\ x.s = i.dst /\ x.w = 32
    BY Zenon DEF Alu
  <2>4. x \in Ops
    BY <1>0, Zenon DEF Ops, Whats, Widths, Operands, Alu
  <2> HIDE DEF x
  <2>5. ~Jumps(x) /\ Harmless(i, x, st, <<>>)
    BY <1>1, <2>2, <2>3, ZenonT(60) DEF Jumps, Harmless, Changes
  <2>6. ASSUME NEW u \in Start(b) PROVE Outs(x, u) \subseteq Q
    <3> DEFINE t == Computed(u, x)
               e == Outcome(x.what, x.w, u[x.d] \cap Low(x.w), Value(u, x.s) \cap Low(x.w))
    <3>1. u \in Vals /\ u[i.src1] = b[i.src1]
      BY <1>0, Zenon DEF Start
    <3>2. x.what \in {"and", "or", "xor", "not"} /\ x.d # Flags
      BY <1>1, <2>3, Zenon
    <3>3. Outs(x, u) = {t} /\ Became(u, t, {x.d, Flags}, x.d, x.w, e)
      BY <2>4, <3>1, <3>2, AluEffect, ZenonT(60)
    <3>4. e = {}
      <4>1. Value(u, x.s) = u[x.d]
        BY <1>1, <2>3, Zenon DEF Value
      <4> QED BY <2>3, <4>1, Zenon DEF Outcome, Xor
    <3> HIDE DEF t, e
    <3>5. t \in Vals /\ t[i.dst] = {} /\ t[i.src1] = u[i.src1]
      BY <1>0, <1>1, <2>3, <3>3, <3>4, ZenonT(60) DEF Became
    <3> QED BY <3>1, <3>3, <3>5, Zenon
  <2>7. Q \in SUBSET Vals /\ \A u \in Q : u[i.src1] = b[i.src1] /\ u[i.dst] = {}
    BY Zenon
  <2> HIDE DEF Q, st
  <2>8. Anywhere(i, st, <<>>, <<x>>, Start(b), Q)
    BY <1>2, <2>4, <2>5, <2>6, <2>7, AnyOne, ZenonT(60)
  <2>9. Anywhere(i, st, <<>>, <<y>>, Q, Post(i, b))
    BY <2>7, <1>ToGprPlain, Zenon
  <2> HIDE DEF y
  <2>10. Anywhere(i, st, <<>>, <<x, y>>, Start(b), Post(i, b))
    BY <2>8, <2>9, AnyTwo, ZenonT(60)
  <2>11. Sound(i, b, <<x, y>>, 1, st, <<>>)
    BY <1>0, <1>2, <2>2, <2>10, AnySound, ZenonT(60)
  <2>12. Sound(i, b, Pushing(Flags, <<x, y>>), 0, <<>>, <<>>)
    BY <1>0, <2>1, <2>11, Push1, ZenonT(60) DEF st
  <2> QED BY <2>12, Zenon DEF x, y
<1> QED BY <1>3, <1>4, <1>5, Zenon

\* From mask to mask.
LEMMA MaskToMaskSound ==
  ASSUME NEW i, IsMaskInstr(i), i.op = "kmov", IsK(i.dst), IsK(i.src1), NEW b
  PROVE  /\ Sound(i, b, Saving(rax, Tls(1), <<Load(rax, Wide, i.src1), Store(rax, i.w, i.dst)>>), 0, <<>>, <<>>)
         /\ i.src1 # i.dst =>
              Sound(i, b, Pushing(Flags, Saving(r11, Tls(1), Saving(r12, Tls(2),
                            <<Alu("xor", Wide, r12, r12), Store(r12, Wide, i.dst),
                              Load(r11, i.w, i.src1), Store(r11, i.w, i.dst)>>))), 0, <<>>, <<>>)
<1> DEFINE w == i.w
           a == b[i.src1] \cap Low(w)
<1>0. /\ ToMask(i) /\ Written(i) \in Locs /\ 1 \in Nat /\ 2 \in Nat /\ 3 \in Nat /\ 0 + 1 = 1 /\ 1 + 1 = 2 /\ 2 + 1 = 3
      /\ 0 \in Nat /\ <<>> \in Savings /\ <<>> \in Stacks /\ i.src1 \in AppLocs /\ i.src1 \in Locs
      /\ w \in Widths /\ Wide \in Widths
      /\ a = Result(i, b[i.src1], b[i.src2]) /\ Low(w) \subseteq Low(Wide)
  BY KmovFacts, SMTT(30)
<1>1. /\ rax \in Scratch /\ r11 \in Scratch /\ r12 \in Scratch /\ r11 # r12
      /\ Tls(1) \in Slots /\ Tls(2) \in Slots /\ Tls(3) \in Slots
      /\ Tls(1) # Tls(2) /\ Tls(1) # Tls(3) /\ Tls(2) # Tls(3)
  BY ScratchDistinct, Zenon DEF Scratch
<1>2. /\ rax \in AppLocs \ Exempt(i) /\ r11 \in AppLocs \ Exempt(i) /\ r12 \in AppLocs \ Exempt(i)
      /\ Flags \in AppLocs \ Exempt(i) /\ Flags # r11 /\ Flags # r12 /\ i.src1 # r11 /\ i.src1 # r12
      /\ r11 # i.dst /\ r12 # i.dst /\ i.src1 # Flags /\ r11 \in Locs /\ i.dst \in Locs
  <2>1. ~ClobbersFlags(i)
    BY Zenon DEF ClobbersFlags, FromGpr
  <2> QED BY <1>0, <1>1, <2>1, ToMaskFacts, LocFacts, ZenonT(60)
<1>3. Sound(i, b, Saving(rax, Tls(1), <<Load(rax, Wide, i.src1), Store(rax, w, i.dst)>>), 0, <<>>, <<>>)
  <2> DEFINE tl == In1(Tls(1), rax)
             F == Body(b)
             Q == F \cap Regs(Wide, rax, b[i.src1] \cap Low(Wide))
             x == Load(rax, Wide, i.src1)
             y == Store(rax, w, i.dst)
  <2>1. tl \in Savings /\ Kept(<<>>, tl) = Kept(<<>>, <<>>) \cup {rax}
    BY <1>0, <1>1, <1>2, InFacts, SMTT(30)
  <2>2. Room(i, <<>>, tl, {rax})
    BY <2>1, Zenon DEF Room
  <2>3. Untouched(rax, F) /\ F \subseteq F /\ Start(b) \subseteq F
    BY <1>1, BodyFacts, Zenon
  <2>4. Q \subseteq F \cap Regs(w, rax, a)
    BY <1>0, Zenon DEF Regs
  <2> HIDE DEF tl, a, w
  <2>5. Anywhere(i, <<>>, tl, <<x>>, F, Q)
    BY <1>0, <1>1, <2>2, <2>3, LoadAny, ZenonT(60)
  <2> HIDE DEF Q
  <2>6. Anywhere(i, <<>>, tl, <<y>>, Q, Post(i, b))
    BY <1>0, <1>1, <2>4, StoreAny, ZenonT(60) DEF w
  <2> HIDE DEF x, y
  <2>7. Anywhere(i, <<>>, tl, <<x, y>>, F, Post(i, b))
    BY <2>5, <2>6, AnyTwo, ZenonT(60)
  <2>8. Sound(i, b, <<x, y>>, 1, <<>>, tl)
    BY <1>0, <2>1, <2>3, <2>7, AnySound, ZenonT(60)
  <2>9. Sound(i, b, Saving(rax, Tls(1), <<x, y>>), 0, <<>>, <<>>)
    BY <1>0, <1>1, <1>2, <2>8, Save1, ZenonT(60) DEF tl
  <2> QED BY <2>9, ZenonT(60) DEF x, y
<1>4. ASSUME i.src1 # i.dst
      PROVE  Sound(i, b, Pushing(Flags, Saving(r11, Tls(1), Saving(r12, Tls(2),
                           <<Alu("xor", Wide, r12, r12), Store(r12, Wide, i.dst),
                             Load(r11, w, i.src1), Store(r11, w, i.dst)>>))), 0, <<>>, <<>>)
  <2> DEFINE st == On1(Flags)
             tl == In2(Tls(1), r11, Tls(2), r12)
             t1 == In1(Tls(1), r11)
             F == Clean(b, {r12, Flags})
             Q == {u \in Vals : u[r11] \cap Low(w) = a /\ u[i.dst] = {}}
             x1 == Alu("xor", Wide, r12, r12)
             x2 == Store(r12, Wide, i.dst)
             x3 == Load(r11, w, i.src1)
             x4 == Store(r11, w, i.dst)
  <2>1. st \in Stacks /\ Kept(st, <<>>) = {Flags} /\ Len(st) = 1 /\ Len(<<>>) = 0
    BY <1>2, OnFacts, ZenonT(60)
  <2>2. /\ tl \in Savings /\ Kept(st, tl) = {Flags, r11, r12} /\ t1 \in Savings /\ Kept(st, t1) = {Flags, r11}
        /\ \A j \in DOMAIN t1 : t1[j][1] # Tls(2)
    BY <1>1, <1>2, <2>1, InFacts, SMTT(30)
  <2>3. Room(i, st, tl, {r12, Flags}) /\ Room(i, st, tl, {r11})
    BY <2>2, Zenon DEF Room
  <2>4. Start(b) \subseteq F /\ Q \in SUBSET Vals /\ Zeroed(i, b) \in SUBSET Vals
    BY Zenon DEF Start, Clean, Zeroed
  <2>5. Anywhere(i, st, tl, <<x1, x2>>, F, Zeroed(i, b))
    BY <1>0, <1>1, <1>2, <1>4, <2>3, ClearTo, ZenonT(60)
  <2>6. ASSUME NEW u \in Zeroed(i, b), NEW t \in Vals, Became(u, t, {r11}, r11, w, u[i.src1] \cap Low(w))
        PROVE  t \in Q
    BY <1>2, <2>6, Zenon DEF Zeroed, Became
  <2>7. \A u \in Q : u[r11] \cap Low(w) = a /\ u[i.dst] \ Low(w) \in {{}, b[i.dst] \ Low(w)}
    BY Zenon
  <2> HIDE DEF st, tl, t1, a, w, Q, F
  <2>8. Anywhere(i, st, tl, <<x3>>, Zeroed(i, b), Q)
    <3>1. Anywhere(i, st, tl, <<Mov(r11, i.src1, w, w)>>, Zeroed(i, b), Q)
      BY <1>0, <1>2, <2>3, <2>4, <2>6, MovAny, ZenonT(60)
    <3> QED BY <3>1, Zenon DEF Load
  <2>9. Anywhere(i, st, tl, <<x4>>, Q, Post(i, b))
    BY <1>0, <1>2, <2>4, <2>7, StoreFrom, ZenonT(60) DEF w
  <2> HIDE DEF x1, x2, x3, x4
  <2>10. Anywhere(i, st, tl, <<x3, x4>>, Zeroed(i, b), Post(i, b))
    BY <2>8, <2>9, AnyTwo, ZenonT(60)
  <2> DEFINE c == <<x1, x2, x3, x4>>
  <2>11. Anywhere(i, st, tl, c, F, Post(i, b))
    BY <2>5, <2>10, AnyFour, ZenonT(60)
  <2> HIDE DEF c
  <2>12. Sound(i, b, c, 3, st, tl)
    BY <1>0, <2>1, <2>2, <2>4, <2>11, AnySound, ZenonT(60)
  <2>13. Sound(i, b, Saving(r12, Tls(2), c), 2, st, t1)
    <3>1. r12 \notin Exempt(i) \cup Kept(st, t1)
      BY <1>1, <1>2, <2>2, Zenon
    <3>2. tl = Append(t1, <<Tls(2), r12>>)
      BY Zenon DEF tl, t1, In2, Added
    <3> QED BY <1>0, <1>1, <1>2, <2>1, <2>2, <2>12, <3>1, <3>2, SoundSave, ZenonT(60)
  <2>14. Sound(i, b, Saving(r11, Tls(1), Saving(r12, Tls(2), c)), 1, st, <<>>)
    <3>1. r11 \notin Exempt(i) \cup Kept(st, <<>>) /\ DOMAIN <<>> = {}
      BY <1>1, <1>2, <2>1, SMTT(30)
    <3>2. t1 = Append(<<>>, <<Tls(1), r11>>)
      BY Zenon DEF t1, In1, Added
    <3> QED BY ZenonT(60), <1>0, <1>1, <1>2, <2>1, <2>13, <3>1, <3>2, SoundSave
  <2>15. Sound(i, b, Pushing(Flags, Saving(r11, Tls(1), Saving(r12, Tls(2), c))), 0, <<>>, <<>>)
    BY <1>0, <1>2, <2>14, Push1, Zenon DEF st
  <2> QED BY <2>15, Zenon DEF c, x1, x2, x3, x4
<1> QED BY <1>3, <1>4, ZenonT(60) DEF w
=============================================================================
