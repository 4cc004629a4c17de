--------------------------- MODULE MaskFrame_proof --------------------------
(*****************************************************************************)
(* The rewritings of the mask instructions, for every program, every         *)
(* operand and every content of the registers.  The proof is in three        *)
(* layers: this module, MaskChains_proof and Mask_proof.                     *)
(*                                                                           *)
(* This module says what a chain is allowed to do.  It is Sound when it      *)
(* keeps every register it borrows, in the order of the stack and one        *)
(* register per slot (Typed), and when from the registers before the         *)
(* instruction it ends with the result of the instruction (Leads).           *)
(*                                                                           *)
(* The inductive invariant MaskInv: between instructions the two             *)
(* processors agree; in a chain there is a proof outline, Outline, which     *)
(* says for the position reached what is pushed and saved there, and what    *)
(* the contents can be.  It is kept by every step, provided that the         *)
(* chains of the table are sound (Reliable).                                 *)
(*                                                                           *)
(* The rest are the rules by which chains are shown to be sound: for the     *)
(* instructions, for instructions in a row, and for the brackets of a push   *)
(* and a pop or a save and a restore.                                        *)
(*****************************************************************************)
EXTENDS MaskExec, TLAPS

Scratch == {rax, rbx, rcx, rdx, r11, r12, r15}

\* The locations are different from each other.
LEMMA LocFacts ==
  /\ Scratch \subseteq AppLocs /\ Flags \in AppLocs /\ AppLocs \subseteq Locs /\ Slots \subseteq Locs
  /\ AppLocs \cap Slots = {}
  /\ \A r \in Scratch : ~IsK(r) /\ r # Flags /\ r[1] = "r"
  /\ ~IsK(Flags)
  /\ \A s \in Slots : ~IsK(s) /\ s[1] # "r" /\ s[1] # "imm"
  /\ \A l \in Locs : l[1] # "imm"
BY MaskAssumption DEF Scratch, rax, rbx, rcx, rdx, r11, r12, r15, R, K, Tls, Flags, AppLocs, Slots, Locs, IsK

-----------------------------------------------------------------------------
\* Instructions of chains that can be built and do not fault.
Whats == {"mov", "movzx", "and", "or", "xor", "add", "not", "test", "cmp", "shl", "shr",
          "push", "pop", "jz", "jmp", "clc", "stc", "native"}

Operands == Locs \cup {Imm(x) : x \in SUBSET Bits}

Ops   == [what : Whats, d : Locs, s : Operands, w : Widths, sz : Nat]

\* Contents of the locations.
Vals == [Locs -> SUBSET Bits]

\* What an application instruction may change: its result, and the flags where
\* its chain does not preserve them.
Written(i) == IF WritesFlags(i) THEN Flags ELSE i.dst

Exempt(i)  == {Written(i)} \cup (IF ClobbersFlags(i) THEN {Flags} ELSE {})

\* Registers that are kept on the stack, in the order of st, and in slots, as tl
\* lists them.
Stacks  == Seq(AppLocs)

Savings == Seq(Slots \X AppLocs)

Kept(st, tl) == {st[j] : j \in DOMAIN st} \cup {tl[j][2] : j \in DOMAIN tl}

\* What an instruction writes.
Changes(x) ==
  (IF x.what \in {"mov", "movzx", "not", "and", "or", "xor", "add", "shl", "shr"} THEN {x.d} ELSE {})
    \cup (IF x.what \in {"test", "cmp", "and", "or", "xor", "add", "shl", "shr", "clc", "stc"}
          THEN {Flags} ELSE {})

\* An instruction that writes only what is kept elsewhere or may change.
Harmless(i, x, st, tl) ==
  /\ x.what \notin {"push", "pop"} /\ (x.what = "mov" => x.w = x.sz)
  /\ Changes(x) \subseteq Exempt(i) \cup Kept(st, tl)
  /\ x.what = "native" => ~WritesFlags(i)

\* The four that keep a register or take it back.
Keeps(i, x, st, tl, st1, tl1) ==
  \/ /\ x.what = "push" /\ Len(st) < MaxDepth
     /\ x.s \in AppLocs \ (Exempt(i) \cup Kept(st, tl))
     /\ st1 = Append(st, x.s) /\ tl1 = tl
  \/ /\ x.what = "pop" /\ x.d \in AppLocs
     /\ st = Append(st1, x.d) /\ tl1 = tl
  \/ /\ x.what = "mov" /\ x.w = 64 /\ x.sz = 64 /\ x.d \in Slots
     /\ x.s \in AppLocs \ (Exempt(i) \cup Kept(st, tl))
     /\ \A j \in DOMAIN tl : tl[j][1] # x.d
     /\ tl1 = Append(tl, <<x.d, x.s>>) /\ st1 = st
  \/ /\ x.what = "mov" /\ x.w = 64 /\ x.sz = 64 /\ x.s \in Slots /\ x.d \in AppLocs
     /\ tl = Append(tl1, <<x.s, x.d>>) /\ st1 = st

Jumps(x) == x.what \in {"jz", "jmp"}

\* S and T say for every position of the chain c, which starts behind o other
\* instructions, what is kept there.
Typing(i, c, o, S, T) ==
  /\ S \in [1 .. Len(c) + 1 -> Stacks] /\ T \in [1 .. Len(c) + 1 -> Savings]
  /\ \A k \in 1 .. Len(c) :
       /\ \/ Harmless(i, c[k], S[k], T[k]) /\ S[k + 1] = S[k] /\ T[k + 1] = T[k]
          \/ Keeps(i, c[k], S[k], T[k], S[k + 1], T[k + 1])
       /\ Jumps(c[k]) => /\ c[k].sz - o \in 1 .. Len(c) + 1
                         /\ S[c[k].sz - o] = S[k] /\ T[c[k].sz - o] = T[k]

Typed(i, c, o, st, tl) ==
  /\ c \in Seq(Ops)
  /\ \E S, T : /\ Typing(i, c, o, S, T)
               /\ S[1] = st /\ T[1] = tl /\ S[Len(c) + 1] = st /\ T[Len(c) + 1] = tl

-----------------------------------------------------------------------------
\* The contents after an instruction, where the stack is not followed.
Outs(x, u) ==
  CASE x.what = "pop"                -> {[u EXCEPT ![x.d] = y] : y \in SUBSET Bits}
    [] x.what \in {"mov", "movzx"}   -> {Moved(u, x)}
    [] x.what \in {"and", "or", "xor", "add", "not", "test", "cmp"} -> {Computed(u, x)}
    [] x.what \in {"shl", "shr"}     -> {Shifted(u, x)}
    [] x.what \in {"clc", "stc"}     -> {Carried(u, x)}
    [] OTHER                         -> {u}

\* The position after the instruction at k.
Goal(x, u, k) == IF x.what = "jmp" \/ (x.what = "jz" /\ ZF \in u[Flags]) THEN x.sz ELSE k + 1

\* A contains the contents that are possible at every position of the chain.
Flow(c, o, A) ==
  /\ A \in [1 .. Len(c) + 1 -> SUBSET Vals]
  /\ \A k \in 1 .. Len(c) : \A u \in A[k] :
       /\ Goal(c[k], u, o + k) - o \in 1 .. Len(c) + 1
       /\ Outs(c[k], u) \subseteq A[Goal(c[k], u, o + k) - o]

\* From contents in P a chain ends with contents in Q.
Leads(c, o, P, Q) ==
  /\ c \in Seq(Ops)
  /\ \E A : Flow(c, o, A) /\ P \subseteq A[1] /\ A[Len(c) + 1] \subseteq Q

\* A write of the w bits x into l that changes nothing outside of E.
Became(u, t, E, l, w, x) ==
  /\ t \in Vals
  /\ \A j \in Locs \ E : t[j] = u[j]
  /\ t[l] \cap Low(w) = x
  /\ t[l] \ Low(w) \in {{}, u[l] \ Low(w)}
  /\ w = 64 \/ (w = 32 /\ l[1] = "r") => t[l] = x

-----------------------------------------------------------------------------
\* The contents before and after an instruction of the application, given the
\* registers b before it.
Start(b) == {u \in Vals : \A l \in AppLocs : u[l] = b[l]}

Post(i, b) ==
  {u \in Vals :
     IF WritesFlags(i) THEN u[Flags] = FlagResult(i, b[i.src1], b[i.src2])
     ELSE IF IsK(i.dst) THEN /\ u[i.dst] \cap Low(i.w) = Result(i, b[i.src1], b[i.src2])
                             /\ u[i.dst] \ Low(i.w) \in {{}, b[i.dst] \ Low(i.w)}
     ELSE u[i.dst] = Result(i, b[i.src1], b[i.src2])}

\* A chain, or a part of it, that keeps the registers and computes the result.
Sound(i, b, c, o, st, tl) == Typed(i, c, o, st, tl) /\ Leads(c, o, Start(b), Post(i, b))

-----------------------------------------------------------------------------
\* The low bits of a value.
LEMMA LowFacts == Low(64) = Bits /\ \A w \in Widths : Low(w) \subseteq Bits
BY DEF Low, Bits, Widths

\* A write of w bits changes nothing else.
LEMMA PutEffect ==
  ASSUME NEW u \in Vals, NEW l \in Locs, NEW w \in Widths, NEW x \in SUBSET Bits, x \subseteq Low(w)
  PROVE  Became(u, Put(u, l, w, x), {l}, l, w, x)
<1> DEFINE y == IF w = 64 \/ (w = 32 /\ l[1] = "r") THEN x ELSE (u[l] \ Low(w)) \cup x
<1>1. u[l] \in SUBSET Bits /\ y \in SUBSET Bits
  BY Zenon DEF Vals
<1>2. y \cap Low(w) = x /\ y \ Low(w) \in {{}, u[l] \ Low(w)}
  <2>1. CASE y = x
    BY <2>1, Zenon
  <2>2. CASE y = (u[l] \ Low(w)) \cup x
    <3>1. y \cap Low(w) = x
      BY <2>2, Zenon
    <3>2. y \ Low(w) = u[l] \ Low(w)
      BY <2>2, Zenon
    <3> QED BY <3>1, <3>2, Zenon
  <2> QED BY <2>1, <2>2, Zenon
<1>3. Put(u, l, w, x) = [u EXCEPT ![l] = y]
  BY Zenon DEF Put
<1>4. w = 64 \/ (w = 32 /\ l[1] = "r") => y = x
  BY Zenon
<1> HIDE DEF y
<1> QED BY <1>1, <1>2, <1>3, <1>4, Zenon DEF Vals, Became

\* mov, between registers, masks, slots and immediates.
LEMMA MovEffect ==
  ASSUME NEW x \in Ops, x.what = "mov", NEW u \in Vals
  PROVE  /\ Outs(x, u) = {Moved(u, x)}
         /\ Became(u, Moved(u, x), {x.d}, x.d, x.w, Value(u, x.s) \cap Low(x.w))
<1>ValueType.
  ASSUME NEW x0 \in Ops, NEW u0 \in Vals
  PROVE  Value(u0, x0.s) \in SUBSET Bits
  <2>1. CASE x0.s \in Locs
    <3>1. x0.s[1] # "imm"
      BY <2>1, LocFacts, Zenon
    <3> QED BY <2>1, <3>1, Zenon DEF Value, Vals
  <2>2. CASE x0.s \notin Locs
    <3>1. PICK y \in SUBSET Bits : x0.s = <<"imm", y>>
      BY <2>2, Zenon DEF Ops, Operands, Imm
    <3> QED BY <3>1 DEF Value
  <2> QED BY <2>1, <2>2, Zenon
<1> DEFINE y == Value(u, x.s) \cap Low(x.w)
<1>1. x.d \in Locs /\ x.w \in Widths
  BY Zenon DEF Ops
<1>2. y \in SUBSET Bits /\ y \subseteq Low(x.w)
  BY <1>ValueType, Zenon
<1>3. Moved(u, x) = Put(u, x.d, x.w, y)
  BY Zenon DEF Moved
<1>4. Outs(x, u) = {Moved(u, x)}
  BY Zenon DEF Outs
<1> HIDE DEF y
<1>5. Became(u, Put(u, x.d, x.w, y), {x.d}, x.d, x.w, y)
  BY <1>1, <1>2, PutEffect, Zenon
<1> QED BY <1>3, <1>4, <1>5, Zenon DEF y

\* A sequence with one more element.
Added(e, x) == Append(e, x)

-----------------------------------------------------------------------------
\* What an instruction computes depends on the bits it reads of its sources.
Same(i, a, c) == a \cap Low(ReadWidth(i)) = c \cap Low(ReadWidth(i))

-----------------------------------------------------------------------------
\* Where the application's registers b are while a chain runs for i: on the
\* stack s of depth d as st says, in the slots as tl says, and the rest in
\* place, in the contents u.
Framed(i, b, u, s, d, st, tl) ==
  /\ d = Len(st) /\ \A j \in DOMAIN st : s[j] = b[st[j]]
  /\ \A j \in DOMAIN tl : u[tl[j][1]] = b[tl[j][2]]
  /\ \A l \in AppLocs \ (Exempt(i) \cup Kept(st, tl)) : u[l] = b[l]

\* t is u except at r.
Elsewhere(u, t, r) == \A l \in Locs : l # r => t[l] = u[l]

-----------------------------------------------------------------------------
\* The inductive invariant.
Types ==
  /\ v \in Vals /\ below \in [1 .. MaxDepth -> SUBSET Bits] /\ before \in [AppLocs -> SUBSET Bits]
  /\ isa = [l \in AppLocs |-> isa[l]] /\ trusted \in [KRegs -> Widths]
  /\ status \in {"app", "run"}

\* Location l of u agrees with the processor's as far as MaskAgrees asks.
AgreesAt(u, l) ==
  IF IsK(l) THEN u[l] \cap Low(trusted[l[2]]) = isa[l] \cap Low(trusted[l[2]])
  ELSE l # Flags \/ live => u[l] = isa[l]

\* Between instructions.
Resting ==
  /\ sp = 0
  /\ \A l \in AppLocs : AgreesAt(v, l)
  /\ \A l \in AppLocs : IsK(l) => v[l] \ Low(trusted[l[2]]) \in {{}, before[l] \ Low(trusted[l[2]])}

\* In a chain the processor is already behind the instruction: it agrees with
\* the registers before the instruction except in what that writes, and there
\* it holds what the instruction computes of them.
Expected ==
  /\ IsMaskInstr(instr) /\ Supported(instr) /\ (live => ~ClobbersFlags(instr))
  /\ \A l \in AppLocs \ {Written(instr)} : AgreesAt(before, l)
  /\ isa[Written(instr)] = IF WritesFlags(instr) THEN FlagResult(instr, before[instr.src1], before[instr.src2])
                           ELSE Result(instr, before[instr.src1], before[instr.src2])
  /\ ~WritesFlags(instr) /\ IsK(instr.dst) => trusted[instr.dst[2]] = instr.w

\* A proof outline of the chain: what is pushed and saved at each position, and
\* what the contents can be there.
Outline(i, b, c, S, T, A) ==
  /\ Typing(i, c, 0, S, T) /\ S[Len(c) + 1] = <<>> /\ T[Len(c) + 1] = <<>>
  /\ Flow(c, 0, A) /\ A[Len(c) + 1] \subseteq Post(i, b)

Running ==
  /\ chain \in Seq(Ops) /\ pc \in 1 .. Len(chain) + 1
  /\ \E S, T, A : /\ Outline(instr, before, chain, S, T, A)
                  /\ v \in A[pc] /\ Framed(instr, before, v, below, sp, S[pc], T[pc])

MaskInv ==
  /\ Types
  /\ status = "app" => Resting
  /\ status = "run" => Expected /\ Running

\* The locations that are masks.
LEMMA MaskLocs ==
  /\ \A l \in AppLocs : IsK(l) => l[2] \in KRegs /\ l = K(l[2])
  /\ \A k \in KRegs : K(k) \in AppLocs /\ IsK(K(k)) /\ K(k)[2] = k
  /\ \A r \in Gprs : R(r) \in AppLocs /\ ~IsK(R(r)) /\ R(r) # Flags
BY DEF AppLocs, IsK, K, R, Flags

\* Every chain is built, and does what its instruction should.
Reliable ==
  \A i : IsMaskInstr(i) /\ Supported(i) =>
    Buildable(rewrite_funcs(i)) /\ \A b : Sound(i, b, rewrite_funcs(i), 0, <<>>, <<>>)

\* At the start nothing runs and the processors agree.
LEMMA MaskInit == Init => MaskInv
<1> SUFFICES ASSUME Init PROVE MaskInv
  BY Zenon
<1>1. isa \in [AppLocs -> SUBSET Bits] /\ before = isa
  BY MaskAssumption, Zenon DEF Init
<1>2. v \in Vals /\ \A l \in AppLocs : v[l] = isa[l]
  <2>1. v = [l \in Locs |-> IF l \in AppLocs THEN isa[l] ELSE {}]
    BY Zenon DEF Init
  <2> QED BY <1>1, <2>1, LocFacts, Zenon DEF Vals
<1>3. below \in [1 .. MaxDepth -> SUBSET Bits]
  BY DEF Init, AppStack, MaxDepth, Bits
<1>4. trusted \in [KRegs -> Widths]
  BY Zenon DEF Init, Widths
<1>5. Types
  BY <1>1, <1>2, <1>3, <1>4, Zenon DEF Types, Init
<1>6. Resting
  BY <1>1, <1>2, Zenon DEF Resting, AgreesAt, Init
<1> QED BY <1>5, <1>6, Zenon DEF MaskInv, Init

\* Between instructions the two processors agree and nothing of a chain is left.
LEMMA MaskImplies ==
  ASSUME MaskInv
  PROVE  MaskAgrees /\ NoScratchLeak
<1>1. status \notin {"fault", "crash"}
  BY Zenon DEF MaskInv, Types
<1>2. ASSUME status = "app" PROVE Resting
  BY <1>2, Zenon DEF MaskInv
<1>3. MaskAgrees
  <2>1. ASSUME status = "app", NEW r \in Gprs PROVE v[R(r)] = isa[R(r)]
    BY <1>2, <2>1, MaskLocs, Zenon DEF Resting, AgreesAt
  <2>2. ASSUME status = "app", live PROVE v[Flags] = isa[Flags]
    BY <1>2, <2>2, LocFacts, Zenon DEF Resting, AgreesAt
  <2>3. ASSUME status = "app", NEW k \in KRegs
        PROVE  v[K(k)] \cap Low(trusted[k]) = isa[K(k)] \cap Low(trusted[k])
    <3>1. AgreesAt(v, K(k)) /\ IsK(K(k)) /\ K(k)[2] = k
      BY <1>2, <2>3, MaskLocs, Zenon DEF Resting
    <3> QED BY <3>1, Zenon DEF AgreesAt
  <2> QED BY <1>1, <1>2, <2>1, <2>2, <2>3, Zenon DEF MaskAgrees, Resting
<1>4. NoScratchLeak
  BY <1>2, MaskLocs, Zenon DEF NoScratchLeak, Resting
<1> QED BY <1>3, <1>4, Zenon

\* Inside a chain every register is in place, on the stack or in a slot.
LEMMA RunRecoverable ==
  ASSUME MaskInv
  PROVE  MaskRecoverable
<1> SUFFICES ASSUME status = "run", NEW l \in AppLocs, ~IsK(l), l # instr.dst,
                    ~(l = Flags /\ (WritesFlags(instr) \/ ClobbersFlags(instr)))
             PROVE  before[l] \in {v[l]} \cup {below[j] : j \in 1 .. sp} \cup {v[s] : s \in Slots}
  BY Zenon DEF MaskRecoverable
<1>1. Running
  BY Zenon DEF MaskInv
<1>2. PICK S, T, A : /\ Outline(instr, before, chain, S, T, A)
                     /\ Framed(instr, before, v, below, sp, S[pc], T[pc])
  BY <1>1, Zenon DEF Running
<1> DEFINE st == S[pc]
           tl == T[pc]
<1>3. st \in Stacks /\ tl \in Savings
  BY <1>1, <1>2, Zenon DEF Outline, Typing, Running
<1> HIDE DEF st, tl
<1>4. Framed(instr, before, v, below, sp, st, tl)
  BY <1>2, Zenon DEF st, tl
<1>5. l \notin Exempt(instr)
  BY Zenon DEF Exempt, Written
<1>6. CASE l \notin Kept(st, tl)
  BY <1>4, <1>5, <1>6, Zenon DEF Framed
<1>7. CASE \E j \in DOMAIN st : l = st[j]
  <2>1. PICK j \in DOMAIN st : l = st[j]
    BY <1>7, Zenon
  <2>2. j \in 1 .. sp /\ below[j] = before[l]
    BY <1>3, <1>4, <2>1 DEF Framed, Stacks
  <2> QED BY <2>2, Zenon
<1>8. CASE \E j \in DOMAIN tl : l = tl[j][2]
  <2>1. PICK j \in DOMAIN tl : l = tl[j][2]
    BY <1>8, Zenon
  <2>2. tl[j][1] \in Slots /\ v[tl[j][1]] = before[l]
    BY <1>3, <1>4, <2>1 DEF Framed, Savings
  <2> QED BY <2>2, Zenon
<1> QED BY <1>6, <1>7, <1>8, Zenon DEF Kept

-----------------------------------------------------------------------------
\* An instruction of a chain keeps what it has to keep in reach.
Keeping(x) ==
  \A st, st1 \in Stacks, tl, tl1 \in Savings :
    /\ Framed(instr, before, v, below, sp, st, tl)
    /\ \/ Harmless(instr, x, st, tl) /\ st1 = st /\ tl1 = tl
       \/ Keeps(instr, x, st, tl, st1, tl1)
    => Framed(instr, before, v', below', sp', st1, tl1)

\* A processor without AVX-512 is given no instruction of AVX-512.
NoOriginals == status = "run" /\ ~avx512 => \A j \in DOMAIN chain : chain[j].what # "native"

\* Every step keeps the invariant, given that the chains are reliable.  First
\* what holds of the instructions of a chain, then one step per action.
LEMMA MaskNext ==
  ASSUME Reliable, Careful, NoOriginals, MaskInv, [Next]_vars
  PROVE  MaskInv'
<1>FrameHarmless.
  ASSUME NEW i, Written(i) \in AppLocs, NEW b, NEW s, NEW d, NEW st \in Stacks, NEW tl \in Savings,
         NEW x \in Ops, Harmless(i, x, st, tl), NEW u \in Vals, NEW t \in Outs(x, u),
         Framed(i, b, u, s, d, st, tl)
  PROVE  Framed(i, b, t, s, d, st, tl)
  <2> USE <1>FrameHarmless
  \* An instruction changes only what Changes says.
  <2>OutsFrame.
    ASSUME NEW x0 \in Ops, x0.what \notin {"push", "pop"}, NEW u0 \in Vals, NEW t0 \in Outs(x0, u0)
    PROVE  \A l \in Locs \ Changes(x0) : t0[l] = u0[l]
    <3> USE <2>OutsFrame
    <3>1. DOMAIN u0 = Locs
      BY Zenon DEF Vals
    <3>2. \A d0, w, y, l : l \in Locs /\ l # d0 => Put(u0, d0, w, y)[l] = u0[l] /\ DOMAIN Put(u0, d0, w, y) = Locs
      BY <3>1, ZenonT(60) DEF Put
    <3>3. CASE x0.what \in {"mov", "movzx"}
      <4>1. Changes(x0) = {x0.d} /\ t0 = Moved(u0, x0)
        BY <3>3, Zenon DEF Changes, Outs
      <4> QED BY <3>2, <4>1 DEF Moved
    <3>4. CASE x0.what \in {"and", "or", "xor", "add"}
      <4>1. Changes(x0) = {x0.d, Flags} /\ t0 = Computed(u0, x0)
        BY <3>4, Zenon DEF Changes, Outs
      <4>2. \E w, y, f : t0 = [Put(u0, x0.d, w, y) EXCEPT ![Flags] = f]
        BY <3>4, <4>1, Zenon DEF Computed
      <4> QED BY <3>2, <4>1, <4>2
    <3>5. CASE x0.what = "not"
      <4>1. Changes(x0) = {x0.d} /\ t0 = Computed(u0, x0)
        BY <3>5, Zenon DEF Changes, Outs
      <4>2. \E w, y : t0 = [Put(u0, x0.d, w, y) EXCEPT ![Flags] = u0[Flags]]
        BY <3>5, <4>1, Zenon DEF Computed
      <4> QED BY <3>2, <4>1, <4>2
    <3>6. CASE x0.what \in {"test", "cmp"}
      <4>1. Changes(x0) = {Flags} /\ t0 = Computed(u0, x0)
        BY <3>6, Zenon DEF Changes, Outs
      <4>2. \E f : t0 = [u0 EXCEPT ![Flags] = f]
        BY <3>6, <4>1, Zenon DEF Computed
      <4> QED BY <3>1, <4>1, <4>2, Zenon
    <3>7. CASE x0.what \in {"shl", "shr"}
      <4>1. Changes(x0) = {x0.d, Flags} /\ t0 = Shifted(u0, x0)
        BY <3>7, Zenon DEF Changes, Outs
      <4>2. \E w, y, f : t0 = [Put(u0, x0.d, w, y) EXCEPT ![Flags] = f]
        BY <4>1, Zenon DEF Shifted
      <4> QED BY <3>2, <4>1, <4>2
    <3>8. CASE x0.what \in {"clc", "stc"}
      <4>1. Changes(x0) = {Flags} /\ t0 = Carried(u0, x0)
        BY <3>8, Zenon DEF Changes, Outs
      <4> QED BY <3>1, <4>1, Zenon DEF Carried
    <3>9. CASE x0.what \in {"jz", "jmp", "native"}
      BY <3>9, Zenon DEF Outs
    <3> QED BY <3>3, <3>4, <3>5, <3>6, <3>7, <3>8, <3>9, Zenon DEF Ops, Whats
  <2>1. \A l \in Locs \ Changes(x) : t[l] = u[l]
    BY <2>OutsFrame, Zenon DEF Harmless
  <2>2. Kept(st, tl) \subseteq AppLocs /\ Exempt(i) \subseteq AppLocs
    BY LocFacts DEF Kept, Stacks, Savings, Exempt
  <2>3. Changes(x) \subseteq Exempt(i) \cup Kept(st, tl)
    BY Zenon DEF Harmless
  <2>4. \A j \in DOMAIN tl : tl[j][1] \in Slots
    BY DEF Savings
  <2>5. \A j \in DOMAIN tl : t[tl[j][1]] = u[tl[j][1]]
    BY <2>1, <2>2, <2>3, <2>4, LocFacts, Zenon
  <2>6. \A l \in AppLocs \ (Exempt(i) \cup Kept(st, tl)) : t[l] = u[l]
    BY <2>1, <2>3, LocFacts, Zenon
  <2> QED BY <2>5, <2>6, Zenon DEF Framed
<1>FetchInv.
  ASSUME Reliable, Careful, MaskInv, status = "app", NEW i \in First \cup Later, Fetch(i)
  PROVE  MaskInv'
  <2> USE <1>FetchInv
  <2>ResultLocal.
    ASSUME NEW i0, IsMaskInstr(i0), Supported(i0), ~WritesFlags(i0),
           NEW a1, NEW a2, NEW c1, NEW c2, Same(i0, a1, c1), Same(i0, a2, c2)
    PROVE  Result(i0, a1, a2) = Result(i0, c1, c2)
    <3> USE <2>ResultLocal
    <3> DEFINE m == Low(i0.w)
               h == Low(i0.w \div 2)
    <3>1. i0.op \in {"kmov", "kand", "kandn", "kor", "knot", "kxnor", "kunpck", "kshiftl", "kshiftr"}
      BY Zenon DEF IsMaskInstr, Supported, WritesFlags
    <3>2. CASE i0.op = "kunpck"
      <4>1. a1 \cap h = c1 \cap h /\ a2 \cap h = c2 \cap h
        BY <3>2, Zenon DEF Same, ReadWidth
      <4>2. \A x, y : Result(i0, x, y) = (y \cap h) \cup {j + (i0.w \div 2) : j \in x \cap h}
        BY <3>2, Zenon DEF Result
      <4> HIDE DEF h
      <4>3. /\ Result(i0, a1, a2) = (a2 \cap h) \cup {j + (i0.w \div 2) : j \in a1 \cap h}
            /\ Result(i0, c1, c2) = (c2 \cap h) \cup {j + (i0.w \div 2) : j \in c1 \cap h}
        BY <4>2, Zenon
      <4> QED BY <4>1, <4>3, Zenon
    <3>3. CASE i0.op # "kunpck"
      <4>1. a1 \cap m = c1 \cap m /\ a2 \cap m = c2 \cap m
        BY <3>3, Zenon DEF Same, ReadWidth
      <4>2. \A x, y : /\ i0.op = "kmov" => Result(i0, x, y) = x \cap m
                      /\ i0.op = "kand" => Result(i0, x, y) = x \cap y \cap m
                      /\ i0.op = "kandn" => Result(i0, x, y) = (y \ x) \cap m
                      /\ i0.op = "kor" => Result(i0, x, y) = (x \cup y) \cap m
                      /\ i0.op = "knot" => Result(i0, x, y) = m \ x
                      /\ i0.op = "kxnor" => Result(i0, x, y) = m \ Xor(x, y)
        BY DEF Result
      <4>3. \A x, y : /\ i0.op = "kshiftl" => Result(i0, x, y) = {j + i0.imm : j \in x \cap m} \cap m
                      /\ i0.op = "kshiftr" => Result(i0, x, y) = {j \in m : (j + i0.imm) \in x \cap m}
        BY Zenon DEF Result
      <4> HIDE DEF m
      <4>4. CASE i0.op = "kmov"
        BY <4>1, <4>2, <4>4
      <4>5. CASE i0.op = "kand"
        <5>1. a1 \cap a2 \cap m = c1 \cap c2 \cap m
          BY <4>1, Zenon
        <5>2. Result(i0, a1, a2) = a1 \cap a2 \cap m /\ Result(i0, c1, c2) = c1 \cap c2 \cap m
          BY <4>2, <4>5, Zenon
        <5> QED BY <5>1, <5>2, Zenon
      <4>6. CASE i0.op = "kandn"
        <5>1. (a2 \ a1) \cap m = (c2 \ c1) \cap m
          BY <4>1, Zenon
        <5>2. Result(i0, a1, a2) = (a2 \ a1) \cap m /\ Result(i0, c1, c2) = (c2 \ c1) \cap m
          BY <4>2, <4>6, Zenon
        <5> QED BY <5>1, <5>2, Zenon
      <4>7. CASE i0.op = "kor"
        <5>1. (a1 \cup a2) \cap m = (c1 \cup c2) \cap m
          BY <4>1, Zenon
        <5>2. Result(i0, a1, a2) = (a1 \cup a2) \cap m /\ Result(i0, c1, c2) = (c1 \cup c2) \cap m
          BY <4>2, <4>7, Zenon
        <5> QED BY <5>1, <5>2, Zenon
      <4>8. CASE i0.op = "knot"
        <5>1. m \ a1 = m \ c1
          BY <4>1, Zenon
        <5> QED BY <4>2, <4>8, <5>1, SMTT(30)
      <4>9. CASE i0.op = "kxnor"
        <5>1. m \ Xor(a1, a2) = m \ Xor(c1, c2)
          BY <4>1, Zenon DEF Xor
        <5> QED BY <4>2, <4>9, <5>1
      <4>10. CASE i0.op = "kshiftl"
        BY <4>1, <4>3, <4>10, ZenonT(60)
      <4>11. CASE i0.op = "kshiftr"
        <5>1. /\ Result(i0, a1, a2) = {j \in m : (j + i0.imm) \in a1 \cap m}
              /\ Result(i0, c1, c2) = {j \in m : (j + i0.imm) \in c1 \cap m}
          BY <4>3, <4>11, Zenon
        <5> QED BY <4>1, <5>1, Zenon
      <4> QED BY <3>1, <3>3, <4>4, <4>5, <4>6, <4>7, <4>8, <4>9, <4>10, <4>11, Zenon
    <3> QED BY <3>2, <3>3, Zenon
  <2>FlagsLocal.
    ASSUME NEW i0, IsMaskInstr(i0), Supported(i0), WritesFlags(i0),
           NEW a1, NEW a2, NEW c1, NEW c2, Same(i0, a1, c1), Same(i0, a2, c2)
    PROVE  FlagResult(i0, a1, a2) = FlagResult(i0, c1, c2)
    <3> USE <2>FlagsLocal
    <3> DEFINE m == Low(i0.w)
    <3>1. i0.op = "kortest"
      BY Zenon DEF Supported, WritesFlags
    <3>2. a1 \cap m = c1 \cap m /\ a2 \cap m = c2 \cap m
      BY <3>1, Zenon DEF Same, ReadWidth
    <3>3. \A x, y : FlagResult(i0, x, y) = TestFlags((x \cup y) \cap m = {}, m \subseteq x \cup y)
      BY <3>1, Zenon DEF FlagResult
    <3> HIDE DEF m
    <3>4. /\ (a1 \cup a2) \cap m = (c1 \cup c2) \cap m
          /\ m \subseteq a1 \cup a2 <=> m \subseteq c1 \cup c2
      BY <3>2, Zenon
    <3>5. TestFlags((a1 \cup a2) \cap m = {}, m \subseteq a1 \cup a2) = TestFlags((c1 \cup c2) \cap m = {}, m \subseteq c1 \cup c2)
      BY <3>4, Zenon DEF TestFlags
    <3> QED BY <3>3, <3>5
  \* What is read of two agreeing sources is the same.
  <2>SameRead.
    ASSUME Types, NEW i0, IsMaskInstr(i0), Disciplined(i0), \A l \in AppLocs : AgreesAt(v, l),
           NEW s \in {i0.src1, i0.src2}
    PROVE  Same(i0, isa[s], v[s])
    <3> USE <2>SameRead
    <3>1. s \in AppLocs /\ s # Flags
      BY Zenon DEF IsMaskInstr
    <3>2. CASE ~IsK(s)
      BY <3>1, <3>2, Zenon DEF AgreesAt, Same
    <3>3. CASE IsK(s)
      <4> DEFINE m == ReadWidth(i0)
                 q == trusted[s[2]]
      <4>1. m <= q
        BY <3>3, Zenon DEF Disciplined
      <4>2. v[s] \cap Low(q) = isa[s] \cap Low(q)
        BY <3>1, <3>3, Zenon DEF AgreesAt
      <4>3. q \in Int
        BY <3>1, <3>3, MaskLocs DEF Types, Widths
      <4>4. m \in Int
        BY DEF ReadWidth, IsMaskInstr, Widths
      <4>5. Low(m) \subseteq Low(q)
        <5> HIDE DEF m, q
        <5> QED BY <4>1, <4>3, <4>4 DEF Low
      <4>6. isa[s] \cap Low(m) = v[s] \cap Low(m)
        BY <4>2, <4>5, Zenon
      <4> QED BY <4>6, Zenon DEF Same
    <3> QED BY <3>2, <3>3, Zenon
  <2>IsaEffect.
    ASSUME Types, NEW i0, IsMaskInstr(i0)
    PROVE  /\ IsaStep(isa, i0) = [l \in AppLocs |-> IsaStep(isa, i0)[l]]
           /\ \A l \in AppLocs \ {Written(i0)} : IsaStep(isa, i0)[l] = isa[l]
           /\ IsaStep(isa, i0)[Written(i0)] = IF WritesFlags(i0) THEN FlagResult(i0, isa[i0.src1], isa[i0.src2])
                                            ELSE Result(i0, isa[i0.src1], isa[i0.src2])
    <3> USE <2>IsaEffect
    <3>1. DOMAIN isa = AppLocs /\ Written(i0) \in AppLocs
      BY LocFacts, Zenon DEF Types, Written, IsMaskInstr
    <3>2. \E x : /\ IsaStep(isa, i0) = [isa EXCEPT ![Written(i0)] = x]
                 /\ x = IF WritesFlags(i0) THEN FlagResult(i0, isa[i0.src1], isa[i0.src2])
                        ELSE Result(i0, isa[i0.src1], isa[i0.src2])
      BY Zenon DEF IsaStep, Written
    <3>3. isa = [l \in AppLocs |-> isa[l]]
      BY Zenon DEF Types
    <3> QED BY <3>1, <3>2, <3>3, Zenon
  <2>FetchExpected.
    ASSUME Types, Resting, NEW i0, IsMaskInstr(i0), Disciplined(i0), Fetch(i0)
    PROVE  Expected'
    <3> USE <2>FetchExpected
    <3>0. Supported(i0) /\ instr' = i0
      BY Zenon DEF Disciplined, Fetch
    <3>1. /\ isa' = IsaStep(isa, i0)
          /\ before' = [l \in AppLocs |-> v[l]]
          /\ trusted' = IF ~WritesFlags(i0) /\ IsK(i0.dst) THEN [trusted EXCEPT ![i0.dst[2]] = i0.w] ELSE trusted
          /\ live' = IF ClobbersFlags(i0) THEN FALSE ELSE live \/ WritesFlags(i0)
      BY Zenon DEF Fetch
    <3>2. /\ \A l \in AppLocs \ {Written(i0)} : isa'[l] = isa[l]
          /\ isa'[Written(i0)] = IF WritesFlags(i0) THEN FlagResult(i0, isa[i0.src1], isa[i0.src2])
                                ELSE Result(i0, isa[i0.src1], isa[i0.src2])
      BY <3>1, <2>IsaEffect, Zenon
    <3>3. \A l \in AppLocs : before'[l] = v[l]
      BY <3>1, Zenon
    <3>4. i0.src1 \in AppLocs /\ i0.src2 \in AppLocs
      BY Zenon DEF IsMaskInstr
    <3>5. Same(i0, isa[i0.src1], v[i0.src1]) /\ Same(i0, isa[i0.src2], v[i0.src2])
      BY <2>SameRead, Zenon DEF Resting
    <3>6. isa'[Written(i0)] = IF WritesFlags(i0) THEN FlagResult(i0, before'[i0.src1], before'[i0.src2])
                             ELSE Result(i0, before'[i0.src1], before'[i0.src2])
      <4>1. before'[i0.src1] = v[i0.src1] /\ before'[i0.src2] = v[i0.src2]
        BY <3>3, <3>4, Zenon
      <4>2. CASE WritesFlags(i0)
        <5>1. FlagResult(i0, isa[i0.src1], isa[i0.src2]) = FlagResult(i0, v[i0.src1], v[i0.src2])
          BY <3>0, <3>5, <4>2, <2>FlagsLocal, SMT
        <5> QED BY <3>2, <4>1, <4>2, <5>1, Zenon
      <4>3. CASE ~WritesFlags(i0)
        <5>1. Result(i0, isa[i0.src1], isa[i0.src2]) = Result(i0, v[i0.src1], v[i0.src2])
          BY <3>0, <3>5, <4>3, <2>ResultLocal, SMT
        <5> QED BY <3>2, <4>1, <4>3, <5>1, Zenon
      <4> QED BY <4>2, <4>3, Zenon
    <3>7. ASSUME NEW l \in AppLocs \ {Written(i0)} PROVE AgreesAt(before, l)'
      <4>1. AgreesAt(v, l) /\ isa'[l] = isa[l] /\ before'[l] = v[l]
        BY <3>2, <3>3, Zenon DEF Resting
      <4>2. CASE IsK(l)
        <5>1. trusted'[l[2]] = trusted[l[2]]
          <6>1. IsK(i0.dst) /\ ~WritesFlags(i0) => i0.dst[2] # l[2]
            BY <4>2, MaskLocs DEF Written, IsMaskInstr
          <6>2. l[2] \in KRegs /\ trusted \in [KRegs -> Widths]
            BY <4>2, MaskLocs, Zenon DEF Types
          <6> QED BY <3>1, <6>1, <6>2, Zenon
        <5> QED BY <4>1, <4>2, <5>1, Zenon DEF AgreesAt
      <4>3. CASE ~IsK(l)
        <5>1. l = Flags /\ live' => live
          BY <3>1, ZenonT(60) DEF Written
        <5> QED BY <4>1, <4>3, <5>1, Zenon DEF AgreesAt
      <4> QED BY <4>2, <4>3, Zenon
    <3>8. ~WritesFlags(i0) /\ IsK(i0.dst) => trusted'[i0.dst[2]] = i0.w
      <4>1. IsK(i0.dst) => i0.dst[2] \in KRegs /\ trusted \in [KRegs -> Widths]
        BY MaskLocs, Zenon DEF Types, IsMaskInstr
      <4> QED BY <3>1, <4>1, Zenon
    <3>9. live' => ~ClobbersFlags(i0)
      BY <3>1, Zenon
    <3> QED BY <3>0, <3>6, <3>7, <3>8, <3>9, Zenon DEF Expected
  <2>FetchRunning.
    ASSUME Reliable, Types, Resting, NEW i0, IsMaskInstr(i0), Supported(i0), Fetch(i0)
    PROVE  Running'
    <3> USE <2>FetchRunning
    <3> DEFINE b == [l \in AppLocs |-> v[l]]
               c == rewrite_funcs(i0)
    <3>1. instr' = i0 /\ chain' = c /\ pc' = 1 /\ before' = b /\ v' = v /\ below' = below /\ sp' = sp /\ sp = 0
      BY Zenon DEF Fetch, Resting
    <3>2. \A l \in AppLocs : v[l] = b[l]
      BY Zenon
    <3> HIDE DEF b, c
    <3>3. Typed(i0, c, 0, <<>>, <<>>) /\ Leads(c, 0, Start(b), Post(i0, b))
      BY Zenon DEF Reliable, Sound, c
    <3>4. c \in Seq(Ops) /\ Len(c) \in Nat /\ 1 \in 1 .. Len(c) + 1
      BY <3>3 DEF Typed
    <3>5. PICK S, T : /\ Typing(i0, c, 0, S, T) /\ S[1] = <<>> /\ T[1] = <<>>
                      /\ S[Len(c) + 1] = <<>> /\ T[Len(c) + 1] = <<>>
      BY <3>3, Zenon DEF Typed
    <3>6. PICK A : Flow(c, 0, A) /\ Start(b) \subseteq A[1] /\ A[Len(c) + 1] \subseteq Post(i0, b)
      BY <3>3, Zenon DEF Leads
    <3>7. v \in A[1]
      <4>1. v \in Start(b)
        BY <3>2, Zenon DEF Start, Types
      <4> QED BY <3>6, <4>1, Zenon
    <3>8. Framed(i0, b, v, below, sp, S[1], T[1])
      BY <3>1, <3>2, <3>5 DEF Framed
    <3>9. Outline(i0, b, c, S, T, A)
      BY <3>5, <3>6, Zenon DEF Outline
    <3> QED BY <3>1, <3>4, <3>7, <3>8, <3>9, Zenon DEF Running
  <2>1. IsMaskInstr(i) /\ Disciplined(i) /\ Supported(i) /\ Types /\ Resting
    BY MaskAssumption, Zenon DEF Fetch, Disciplined, MaskInv
  <2>2. status' = "run"
    BY <2>1, Zenon DEF Reliable, Fetch
  <2>3. Types'
    <3>1. v' = v /\ below' = below /\ isa' = IsaStep(isa, i)
      BY Zenon DEF Fetch
    <3>2. isa' = [l \in AppLocs |-> isa'[l]]
      BY <2>1, <3>1, <2>IsaEffect, Zenon
    <3>3. trusted' \in [KRegs -> Widths]
      BY <2>1, MaskLocs, Zenon DEF Fetch, Types, IsMaskInstr
    <3>4. before' \in [AppLocs -> SUBSET Bits]
      BY <2>1, LocFacts, Zenon DEF Fetch, Types, Vals
    <3> QED BY <2>1, <2>2, <3>1, <3>2, <3>3, <3>4, Zenon DEF Types
  <2>4. Expected' /\ Running'
    BY <2>1, <2>FetchExpected, <2>FetchRunning, Zenon
  <2> QED BY <2>2, <2>3, <2>4, Zenon DEF MaskInv
\* The inductive step for the instruction at pc.
<1>StepInv.
  ASSUME MaskInv, status = "run", pc \in DOMAIN chain, UNCHANGED <<status, Program>>,
         v' \in Outs(chain[pc], v), pc' = Goal(chain[pc], v, pc),
         below' \in [1 .. MaxDepth -> SUBSET Bits], Keeping(chain[pc])
  PROVE  MaskInv'
  <2> USE <1>StepInv
  <2> DEFINE x == chain[pc]
  <2>1. Types /\ Expected /\ Running /\ chain \in Seq(Ops) /\ pc \in 1 .. Len(chain)
    BY DEF MaskInv, Running
  <2>2. PICK S, T, A : /\ Outline(instr, before, chain, S, T, A) /\ v \in A[pc]
                       /\ Framed(instr, before, v, below, sp, S[pc], T[pc])
    BY <2>1, ZenonT(60) DEF Running
  <2>3. Typing(instr, chain, 0, S, T) /\ Flow(chain, 0, A)
    BY <2>2, Zenon DEF Outline
  <2>4. Len(chain) \in Nat /\ pc \in Nat /\ pc \in 1 .. Len(chain) + 1 /\ pc + 1 \in 1 .. Len(chain) + 1
    BY <2>1
  <2>5. pc' \in 1 .. Len(chain) + 1 /\ v' \in A[pc']
    <3>1. /\ Goal(x, v, 0 + pc) - 0 \in 1 .. Len(chain) + 1
          /\ Outs(x, v) \subseteq A[Goal(x, v, 0 + pc) - 0]
      BY <2>1, <2>2, <2>3, Zenon DEF Flow
    <3>2. 0 + pc = pc
      BY <2>4
    <3>3. Goal(x, v, pc) - 0 = Goal(x, v, pc)
      <4>1. x \in Ops
        BY <2>1
      <4>2. x.sz \in Nat
        BY <4>1, Zenon DEF Ops
      <4> QED BY <2>4, <4>2 DEF Goal
    <3> QED BY <3>1, <3>2, <3>3, Zenon
  <2>6. v' \in Vals
    <3>1. A[pc'] \in SUBSET Vals
      BY <2>3, <2>5, Zenon DEF Flow
    <3> QED BY <2>5, <3>1, Zenon
  <2>7. /\ S[pc] \in Stacks /\ T[pc] \in Savings /\ S[pc + 1] \in Stacks /\ T[pc + 1] \in Savings
        /\ \/ Harmless(instr, x, S[pc], T[pc]) /\ S[pc + 1] = S[pc] /\ T[pc + 1] = T[pc]
           \/ Keeps(instr, x, S[pc], T[pc], S[pc + 1], T[pc + 1])
        /\ Jumps(x) => S[x.sz - 0] = S[pc] /\ T[x.sz - 0] = T[pc]
    BY <2>1, <2>3, <2>4, Zenon DEF Typing
  <2>8. Framed(instr, before, v', below', sp', S[pc'], T[pc'])
    <3>1. Framed(instr, before, v', below', sp', S[pc + 1], T[pc + 1])
      BY <2>2, <2>7, Zenon DEF Keeping
    <3>2. CASE pc' = pc + 1
      BY <3>1, <3>2, Zenon
    <3>3. CASE pc' # pc + 1
      <4>1. Jumps(x) /\ pc' = x.sz
        BY <3>3, Zenon DEF Goal, Jumps
      <4>2. x.sz - 0 = x.sz
        BY <2>5, <4>1, SMTT(30)
      <4>3. ~Keeps(instr, x, S[pc], T[pc], S[pc + 1], T[pc + 1])
        BY <4>1, Zenon DEF Jumps, Keeps
      <4>4. S[pc'] = S[pc + 1] /\ T[pc'] = T[pc + 1]
        BY <2>7, <4>1, <4>2, <4>3, Zenon
      <4> QED BY <3>1, <4>4, Zenon
    <3> QED BY <3>2, <3>3, Zenon
  <2>9. instr' = instr /\ chain' = chain /\ before' = before /\ isa' = isa /\ trusted' = trusted /\ live' = live
        /\ status' = status
    BY Zenon DEF Program
  <2>10. Types' /\ Expected'
    <3>1. Types'
      BY <2>1, <2>6, <2>9, Zenon DEF Types
    <3>2. Expected'
      BY <2>1, <2>9, ZenonT(60) DEF Expected, AgreesAt
    <3> QED BY <3>1, <3>2, Zenon
  <2>11. Running'
    BY <2>1, <2>2, <2>5, <2>8, <2>9, Zenon DEF Running
  <2> QED BY <2>9, <2>10, <2>11, Zenon DEF MaskInv
\* The end of a chain.
<1>RetireInv.
  ASSUME MaskInv, Retire
  PROVE  MaskInv'
  <2> USE <1>RetireInv
  <2>1. Types /\ Expected /\ Running /\ status' = "app" /\ pc = Len(chain) + 1
    BY Zenon DEF MaskInv, Retire
  <2>2. v' = v /\ below' = below /\ sp' = sp /\ before' = before /\ isa' = isa /\ trusted' = trusted
        /\ live' = live
    BY Zenon DEF Retire, Program
  <2>3. PICK S, T, A : /\ Outline(instr, before, chain, S, T, A) /\ v \in A[pc]
                       /\ Framed(instr, before, v, below, sp, S[pc], T[pc])
    BY <2>1, Zenon DEF Running
  <2>4. v \in Post(instr, before) /\ S[pc] = <<>> /\ T[pc] = <<>>
    BY <2>1, <2>3, Zenon DEF Outline
  <2>5. sp = 0
    BY <2>3, <2>4, Zenon DEF Framed
  <2>6. \A l \in AppLocs \ Exempt(instr) : v[l] = before[l]
    <3>1. Kept(<<>>, <<>>) = {}
      BY SMTT(30) DEF Kept
    <3> QED BY <2>3, <2>4, <3>1, Zenon DEF Framed
  <2>7. ASSUME NEW l \in AppLocs
        PROVE  /\ AgreesAt(v, l)
               /\ IsK(l) => v[l] \ Low(trusted[l[2]]) \in {{}, before[l] \ Low(trusted[l[2]])}
    <3>1. CASE l = Written(instr)
      <4>1. CASE WritesFlags(instr)
        <5>1. l = Flags /\ ~IsK(l) /\ v[l] = isa[l]
          BY <2>1, <2>4, <3>1, <4>1, LocFacts, Zenon DEF Written, Post, Expected
        <5> QED BY <5>1, Zenon DEF AgreesAt
      <4>2. CASE ~WritesFlags(instr) /\ ~IsK(instr.dst)
        <5>1. l = instr.dst /\ v[l] = isa[l]
          BY <2>1, <2>4, <3>1, <4>2, ZenonT(60) DEF Written, Post, Expected
        <5> QED BY <4>2, <5>1, Zenon DEF AgreesAt
      <4>3. CASE ~WritesFlags(instr) /\ IsK(instr.dst)
        <5>1. l = instr.dst /\ trusted[l[2]] = instr.w /\ isa[l] = Result(instr, before[instr.src1], before[instr.src2])
          BY <2>1, <3>1, <4>3, Zenon DEF Written, Expected
        <5>2. /\ v[l] \cap Low(instr.w) = Result(instr, before[instr.src1], before[instr.src2])
              /\ v[l] \ Low(instr.w) \in {{}, before[l] \ Low(instr.w)}
          BY <2>4, <4>3, <5>1, Zenon DEF Post
        <5>3. v[l] \cap Low(instr.w) = isa[l] \cap Low(instr.w)
          BY <5>1, <5>2, Zenon
        <5> QED BY <4>3, <5>1, <5>2, <5>3, ZenonT(60) DEF AgreesAt
      <4> QED BY <4>1, <4>2, <4>3, Zenon
    <3>2. CASE l # Written(instr) /\ l \in Exempt(instr)
      <4>1. l = Flags /\ ~live /\ ~IsK(l)
        BY <2>1, <3>2, LocFacts, Zenon DEF Exempt, Expected
      <4> QED BY <4>1, Zenon DEF AgreesAt
    <3>3. CASE l \notin Exempt(instr)
      <4>1. v[l] = before[l] /\ AgreesAt(before, l)
        BY <2>1, <2>6, <3>3, Zenon DEF Exempt, Expected
      <4> QED BY <4>1, Zenon DEF AgreesAt
    <3> QED BY <3>1, <3>2, <3>3, Zenon
  <2>8. Resting'
    BY <2>2, <2>5, <2>7, Zenon DEF Resting, AgreesAt
  <2>9. Types'
    BY <2>1, <2>2, Zenon DEF Types
  <2> QED BY <2>1, <2>8, <2>9, Zenon DEF MaskInv
\* The instruction at pc, in a state of the invariant.
<1>Current.
  ASSUME MaskInv, status = "run", pc \in DOMAIN chain
  PROVE  chain[pc] \in Ops /\ v \in Vals /\ below \in [1 .. MaxDepth -> SUBSET Bits] /\ Written(instr) \in AppLocs
  <2> USE <1>Current
  <2>1. Types /\ Expected /\ chain \in Seq(Ops)
    BY Zenon DEF MaskInv, Running
  <2>2. Written(instr) \in AppLocs
    BY <2>1, LocFacts, ZenonT(60) DEF Expected, IsMaskInstr, Written
  <2> QED BY <2>1, <2>2 DEF Types
\* An instruction that neither pushes nor pops and keeps no register in a slot.
<1>PlainInv.
  ASSUME MaskInv, status = "run", pc \in DOMAIN chain, UNCHANGED <<below, sp, status, Program>>,
         chain[pc].what \notin {"push", "pop", "mov"},
         v' \in Outs(chain[pc], v), pc' = Goal(chain[pc], v, pc)
  PROVE  MaskInv'
  <2> USE <1>PlainInv
  <2>1. chain[pc] \in Ops /\ v \in Vals /\ below \in [1 .. MaxDepth -> SUBSET Bits] /\ Written(instr) \in AppLocs
    BY <1>Current, Zenon
  <2>2. Keeping(chain[pc])
    <3>1. SUFFICES ASSUME NEW st \in Stacks, NEW st1 \in Stacks, NEW tl \in Savings, NEW tl1 \in Savings,
                          Framed(instr, before, v, below, sp, st, tl),
                          \/ Harmless(instr, chain[pc], st, tl) /\ st1 = st /\ tl1 = tl
                          \/ Keeps(instr, chain[pc], st, tl, st1, tl1)
                   PROVE  Framed(instr, before, v', below', sp', st1, tl1)
      BY ZenonT(60) DEF Keeping
    <3>2. ~Keeps(instr, chain[pc], st, tl, st1, tl1)
      BY Zenon DEF Keeps
    <3>3. Framed(instr, before, v', below, sp, st, tl)
      BY <2>1, <3>1, <3>2, <1>FrameHarmless, Zenon
    <3> QED BY <3>1, <3>2, <3>3, Zenon
  <2> QED BY <2>1, <2>2, <1>StepInv, Zenon
<1>MoveInv.
  ASSUME MaskInv, Move
  PROVE  MaskInv'
  <2> USE <1>MoveInv
  <2>FrameSave.
    ASSUME NEW i, NEW b, NEW s, NEW d, NEW st \in Stacks, NEW tl \in Savings, NEW r \in AppLocs, NEW z \in Slots,
           r \notin Exempt(i) \cup Kept(st, tl), \A j \in DOMAIN tl : tl[j][1] # z,
           NEW u \in Vals, NEW t, \A l \in Locs : l # z => t[l] = u[l], t[z] = u[r],
           Framed(i, b, u, s, d, st, tl)
    PROVE  Framed(i, b, t, s, d, st, Append(tl, <<z, r>>))
    <3> USE <2>FrameSave
    <3> DEFINE e == <<z, r>>
               tl1 == Append(tl, e)
    <3>0. e \in Slots \X AppLocs /\ e[1] = z /\ e[2] = r
      BY Zenon
    <3> HIDE DEF e
    <3>1. Len(tl) \in Nat /\ DOMAIN tl = 1 .. Len(tl) /\ DOMAIN tl1 = 1 .. (Len(tl) + 1)
      BY <3>0 DEF Savings
    <3>2. tl1[Len(tl) + 1] = e /\ \A j \in 1 .. Len(tl) : tl1[j] = tl[j]
      BY <3>0 DEF Savings
    <3> HIDE DEF tl1
    <3>3. u[r] = b[r]
      BY Zenon DEF Framed
    <3>4. \A j \in DOMAIN tl : t[tl[j][1]] = u[tl[j][1]]
      <4>1. \A j \in DOMAIN tl : tl[j][1] \in Locs
        BY LocFacts DEF Savings
      <4> QED BY <4>1, Zenon
    <3>5. \A j \in DOMAIN tl1 : t[tl1[j][1]] = b[tl1[j][2]]
      <4>1. \A j \in 1 .. Len(tl) : t[tl[j][1]] = b[tl[j][2]]
        BY <3>1, <3>4, Zenon DEF Framed
      <4>2. t[e[1]] = b[e[2]]
        BY <3>0, <3>3, Zenon
      <4> QED BY <3>1, <3>2, <4>1, <4>2
    <3>6. Kept(st, tl) \subseteq Kept(st, tl1)
      BY <3>1, <3>2 DEF Kept
    <3>7. \A l \in AppLocs : t[l] = u[l]
      BY LocFacts, Zenon
    <3> QED BY <3>5, <3>6, <3>7, Zenon DEF Framed, tl1, e
  <2>FrameRestore.
    ASSUME NEW i, NEW b, NEW s, NEW d, NEW st \in Stacks, NEW tl \in Savings, NEW tl1 \in Savings,
           NEW r \in AppLocs, NEW z \in Slots, tl = Added(tl1, <<z, r>>),
           NEW u \in Vals, NEW t, Elsewhere(u, t, r), t[r] = u[z],
           Framed(i, b, u, s, d, st, tl)
    PROVE  Framed(i, b, t, s, d, st, tl1)
    <3> USE <2>FrameRestore
    <3> DEFINE e == <<z, r>>
    <3>0. e \in Slots \X AppLocs /\ e[1] = z /\ e[2] = r
      BY Zenon
    <3> HIDE DEF e
    <3>1. Len(tl1) \in Nat /\ DOMAIN tl1 = 1 .. Len(tl1) /\ DOMAIN tl = 1 .. (Len(tl1) + 1)
      BY <3>0 DEF Savings, Added, e
    <3>2. tl[Len(tl1) + 1] = e /\ \A j \in 1 .. Len(tl1) : tl[j] = tl1[j]
      BY <3>0 DEF Savings, Added, e
    <3>3. t[r] = b[r]
      <4>1. Len(tl1) + 1 \in DOMAIN tl
        BY <3>1
      <4> QED BY <3>0, <3>2, <4>1 DEF Framed
    <3>4. \A j \in DOMAIN tl1 : t[tl1[j][1]] = b[tl1[j][2]]
      <4>1. \A j \in DOMAIN tl1 : tl1[j][1] \in Locs /\ tl1[j][1] # r
        BY LocFacts DEF Savings
      <4>2. \A j \in DOMAIN tl1 : u[tl1[j][1]] = b[tl1[j][2]]
        BY <3>1, <3>2 DEF Framed
      <4> QED BY <4>1, <4>2, Zenon DEF Elsewhere
    <3>5. Kept(st, tl) \subseteq Kept(st, tl1) \cup {r}
      BY <3>0, <3>1, <3>2 DEF Kept
    <3>6. ASSUME NEW l \in AppLocs, l \notin Exempt(i) \cup Kept(st, tl1) PROVE t[l] = b[l]
      <4>1. CASE l = r
        BY <3>3, <4>1, Zenon
      <4>2. CASE l # r
        <5>1. l \notin Exempt(i) \cup Kept(st, tl) /\ l \in Locs
          BY <3>5, <3>6, <4>2, LocFacts, Zenon
        <5>2. u[l] = b[l]
          BY <5>1, Zenon DEF Framed
        <5>3. t[l] = u[l]
          BY <4>2, <5>1, Zenon DEF Elsewhere
        <5> QED BY <5>2, <5>3, Zenon
      <4> QED BY <4>1, <4>2, Zenon
    <3> QED BY <3>4, <3>6, Zenon DEF Framed
  \* A move that Keeps admits: it saves or restores.
  <2>FrameMove.
    ASSUME NEW i, NEW b, NEW s, NEW d, NEW st \in Stacks, NEW tl \in Savings, NEW st1 \in Stacks, NEW tl1 \in Savings,
           NEW x \in Ops, x.what = "mov", Keeps(i, x, st, tl, st1, tl1), NEW u \in Vals,
           Framed(i, b, u, s, d, st, tl)
    PROVE  Framed(i, b, Moved(u, x), s, d, st1, tl1)
    <3> USE <2>FrameMove
    <3> DEFINE t == Moved(u, x)
    <3>1. x.w = 64 /\ x.s[1] # "imm" /\ x.s \in Locs /\ x.d \in Locs
      BY LocFacts, Zenon DEF Keeps, Ops
    <3>2. Became(u, t, {x.d}, x.d, 64, Value(u, x.s) \cap Low(64))
      BY <3>1, MovEffect, Zenon
    <3>3. Value(u, x.s) \cap Low(64) = u[x.s]
      BY <3>1, LowFacts, Zenon DEF Value, Vals
    <3>4. t[x.d] = u[x.s] /\ \A l \in Locs : l # x.d => t[l] = u[l]
      BY <3>2, <3>3, Zenon DEF Became
    <3> HIDE DEF t
    <3>5. CASE x.d \in Slots
      <4>1. /\ x.s \in AppLocs /\ x.s \notin Exempt(i) \cup Kept(st, tl) /\ \A j \in DOMAIN tl : tl[j][1] # x.d
            /\ tl1 = Append(tl, <<x.d, x.s>>) /\ st1 = st
        BY <3>5, LocFacts, Zenon DEF Keeps
      <4> QED BY <3>4, <3>5, <4>1, <2>FrameSave, Zenon DEF t
    <3>6. CASE x.d \notin Slots
      <4>1. x.s \in Slots /\ x.d \in AppLocs /\ tl = Append(tl1, <<x.s, x.d>>) /\ st1 = st
        BY <3>6, Zenon DEF Keeps
      <4>2. Framed(i, b, t, s, d, st, tl1)
        <5> DEFINE r == x.d
                   z == x.s
        <5>1. r \in AppLocs /\ z \in Slots /\ tl = Added(tl1, <<z, r>>) /\ t[r] = u[z] /\ Elsewhere(u, t, r)
          BY <3>4, <4>1, Zenon DEF Added, Elsewhere
        <5> HIDE DEF r, z
        <5> QED BY <5>1, <2>FrameRestore, Zenon
      <4> QED BY <4>1, <4>2, Zenon DEF t
    <3> QED BY <3>5, <3>6, Zenon
  <2> DEFINE x == chain[pc]
  <2>1. /\ status = "run" /\ pc \in DOMAIN chain /\ x.what \in {"mov", "movzx"}
        /\ v' = Moved(v, x) /\ pc' = pc + 1 /\ UNCHANGED <<below, sp, status, Program>>
    BY Zenon DEF Move, Executing
  <2>2. x \in Ops /\ v \in Vals /\ below \in [1 .. MaxDepth -> SUBSET Bits] /\ Written(instr) \in AppLocs
    BY <2>1, <1>Current, Zenon
  <2>3. v' \in Outs(x, v) /\ pc' = Goal(x, v, pc)
    BY <2>1, Zenon DEF Outs, Goal
  <2>4. CASE x.what = "movzx"
    BY <2>1, <2>3, <2>4, <1>PlainInv, Zenon
  <2>5. CASE x.what = "mov"
    <3>1. Keeping(x)
      <4>1. SUFFICES ASSUME NEW st \in Stacks, NEW st1 \in Stacks, NEW tl \in Savings, NEW tl1 \in Savings,
                            Framed(instr, before, v, below, sp, st, tl),
                            \/ Harmless(instr, x, st, tl) /\ st1 = st /\ tl1 = tl
                            \/ Keeps(instr, x, st, tl, st1, tl1)
                     PROVE  Framed(instr, before, v', below', sp', st1, tl1)
        BY Zenon DEF Keeping
      <4>2. below' = below /\ sp' = sp
        BY <2>1, Zenon
      <4>3. CASE Harmless(instr, x, st, tl) /\ st1 = st /\ tl1 = tl
        BY <2>2, <2>3, <4>1, <4>2, <4>3, <1>FrameHarmless, Zenon
      <4>4. CASE Keeps(instr, x, st, tl, st1, tl1)
        <5>1. Framed(instr, before, Moved(v, x), below, sp, st1, tl1)
          BY <2>2, <2>5, <4>1, <4>4, <2>FrameMove, ZenonT(60)
        <5> QED BY <2>1, <4>2, <5>1, ZenonT(60)
      <4> QED BY <4>1, <4>3, <4>4, Zenon
    <3> QED BY <2>1, <2>2, <2>3, <3>1, <1>StepInv, Zenon
  <2> QED BY <2>1, <2>4, <2>5, Zenon
<1>ComputeInv.
  ASSUME MaskInv, Compute
  PROVE  MaskInv'
  <2> USE <1>ComputeInv
  <2> DEFINE x == chain[pc]
  <2>1. status = "run" /\ pc \in DOMAIN chain /\ x.what \in {"and", "or", "xor", "add", "not", "test", "cmp"}
    BY Zenon DEF Compute, Executing
  <2>2. x.s # Abs
    <3>1. x.s \in Operands
      BY <2>1, <1>Current, Zenon DEF Ops
    <3>2. Abs \notin Operands
      BY MaskAssumption, Zenon DEF Operands, Locs, AppLocs, Slots, Abs, Imm, K, R, Flags, Tls
    <3> QED BY <3>1, <3>2, Zenon
  <2>3. v' = Computed(v, x) /\ pc' = pc + 1 /\ UNCHANGED <<below, sp, status, Program>>
    BY <2>2, Zenon DEF Compute
  <2>4. v' \in Outs(x, v) /\ pc' = Goal(x, v, pc)
    BY <2>1, <2>3, Zenon DEF Outs, Goal
  <2> QED BY <2>1, <2>3, <2>4, <1>PlainInv, Zenon
<1>ShiftInv.
  ASSUME MaskInv, ShiftStep
  PROVE  MaskInv'
  <2> USE <1>ShiftInv
  <2> DEFINE x == chain[pc]
  <2>1. /\ status = "run" /\ pc \in DOMAIN chain /\ x.what \in {"shl", "shr"}
        /\ v' = Shifted(v, x) /\ pc' = pc + 1 /\ UNCHANGED <<below, sp, status, Program>>
    BY Zenon DEF ShiftStep, Executing
  <2>2. v' \in Outs(x, v) /\ pc' = Goal(x, v, pc)
    BY <2>1, Zenon DEF Outs, Goal
  <2> QED BY <2>1, <2>2, <1>PlainInv, Zenon
<1>CarryInv.
  ASSUME MaskInv, CarryStep
  PROVE  MaskInv'
  <2> USE <1>CarryInv
  <2> DEFINE x == chain[pc]
  <2>1. /\ status = "run" /\ pc \in DOMAIN chain /\ x.what \in {"clc", "stc"}
        /\ v' = Carried(v, x) /\ pc' = pc + 1 /\ UNCHANGED <<below, sp, status, Program>>
    BY Zenon DEF CarryStep, Executing
  <2>2. v' \in Outs(x, v) /\ pc' = Goal(x, v, pc)
    BY <2>1, Zenon DEF Outs, Goal
  <2> QED BY <2>1, <2>2, <1>PlainInv, Zenon
<1>JumpInv.
  ASSUME MaskInv, JumpStep
  PROVE  MaskInv'
  <2> USE <1>JumpInv
  <2> DEFINE x == chain[pc]
  <2>1. /\ status = "run" /\ pc \in DOMAIN chain /\ x.what \in {"jz", "jmp"} /\ v' = v
        /\ pc' = (IF x.what = "jmp" \/ ZF \in v[Flags] THEN x.sz ELSE pc + 1)
        /\ UNCHANGED <<below, sp, status, Program>>
    BY Zenon DEF JumpStep, Executing
  <2>2. v' \in Outs(x, v) /\ pc' = Goal(x, v, pc)
    BY <2>1, Zenon DEF Outs, Goal
  <2> QED BY <2>1, <2>2, <1>PlainInv, Zenon
\* The original left in the block: such a chain is not one that sets the flags.
<1>NativeInv.
  ASSUME avx512, MaskInv, NativeStep
  PROVE  MaskInv'
  <2> USE <1>NativeInv
  <2> DEFINE x == chain[pc]
  <2>1. status = "run" /\ pc \in DOMAIN chain /\ x.what = "native" /\ Running
    BY Zenon DEF NativeStep, Executing, MaskInv
  <2>2. ~WritesFlags(instr)
    <3>1. PICK S, T, A : Outline(instr, before, chain, S, T, A)
      BY <2>1, ZenonT(60) DEF Running
    <3>2. pc \in 1 .. Len(chain)
      BY <2>1 DEF Running
    <3>3. \/ Harmless(instr, x, S[pc], T[pc])
          \/ Keeps(instr, x, S[pc], T[pc], S[pc + 1], T[pc + 1])
      BY <3>1, <3>2, Zenon DEF Outline, Typing
    <3> QED BY <2>1, <3>3, Zenon DEF Harmless, Keeps
  <2>3. v' = v /\ pc' = pc + 1 /\ UNCHANGED <<below, sp, status, Program>>
    <3>1. v' = [v EXCEPT ![Flags] = v[Flags]] /\ pc' = pc + 1 /\ UNCHANGED <<below, sp, status, Program>>
      BY <2>2, Zenon DEF NativeStep
    <3>2. v \in Vals
      BY <2>1, <1>Current, Zenon
    <3> QED BY <3>1, <3>2, Zenon DEF Vals
  <2>4. v' \in Outs(x, v) /\ pc' = Goal(x, v, pc)
    BY <2>1, <2>3, Zenon DEF Outs, Goal
  <2> QED BY <2>1, <2>3, <2>4, <1>PlainInv, Zenon
\* What Typing says of a push or a pop.
<1>StackOps.
  ASSUME MaskInv, status = "run", pc \in DOMAIN chain, chain[pc].what \in {"push", "pop"}
  PROVE  \E st, st1 \in Stacks, tl \in Savings :
            Framed(instr, before, v, below, sp, st, tl) /\ Keeps(instr, chain[pc], st, tl, st1, tl)
  <2> USE <1>StackOps
  <2>1. Running /\ pc \in 1 .. Len(chain)
    BY DEF MaskInv, Running
  <2>2. PICK S, T, A : /\ Outline(instr, before, chain, S, T, A)
                       /\ Framed(instr, before, v, below, sp, S[pc], T[pc])
    BY <2>1, ZenonT(60) DEF Running
  <2>3. /\ S[pc] \in Stacks /\ T[pc] \in Savings /\ S[pc + 1] \in Stacks
        /\ \/ Harmless(instr, chain[pc], S[pc], T[pc])
           \/ Keeps(instr, chain[pc], S[pc], T[pc], S[pc + 1], T[pc + 1])
    BY <2>1, <2>2 DEF Outline, Typing
  <2>4. Keeps(instr, chain[pc], S[pc], T[pc], S[pc + 1], T[pc + 1]) /\ T[pc + 1] = T[pc]
    BY <2>3, Zenon DEF Harmless, Keeps
  <2> QED BY <2>2, <2>3, <2>4, ZenonT(60)
<1>PushInv.
  ASSUME MaskInv, PushStep
  PROVE  MaskInv'
  <2> USE <1>PushInv
  <2>FramePush.
    ASSUME NEW i, NEW b, NEW s, NEW d, NEW st \in Stacks, NEW tl \in Savings, NEW r \in AppLocs,
           r \notin Exempt(i) \cup Kept(st, tl), Len(st) < MaxDepth, NEW u \in Vals,
           s \in [1 .. MaxDepth -> SUBSET Bits], Framed(i, b, u, s, d, st, tl)
    PROVE  /\ Framed(i, b, u, [s EXCEPT ![d + 1] = u[r]], d + 1, Append(st, r), tl)
           /\ [s EXCEPT ![d + 1] = u[r]] \in [1 .. MaxDepth -> SUBSET Bits]
    <3> USE <2>FramePush
    <3> DEFINE s1 == [s EXCEPT ![d + 1] = u[r]]
               st1 == Append(st, r)
    <3>1. d = Len(st) /\ Len(st) \in Nat /\ DOMAIN st = 1 .. d /\ MaxDepth \in Nat /\ d + 1 \in 1 .. MaxDepth
      BY DEF Framed, Stacks, MaxDepth
    <3>2. Len(st1) = d + 1 /\ DOMAIN st1 = 1 .. (d + 1) /\ st1[d + 1] = r /\ \A j \in 1 .. d : st1[j] = st[j]
      BY <3>1 DEF Stacks
    <3>3. s1[d + 1] = u[r] /\ \A j \in 1 .. d : s1[j] = s[j]
      BY <3>1
    <3>4. u[r] = b[r] /\ u[r] \in SUBSET Bits
      BY LocFacts, Zenon DEF Framed, Vals
    <3>5. s1 \in [1 .. MaxDepth -> SUBSET Bits]
      BY <3>4, Zenon
    <3> HIDE DEF s1, st1
    <3>6. \A j \in DOMAIN st1 : s1[j] = b[st1[j]]
      <4>1. \A j \in 1 .. d : s[j] = b[st[j]]
        BY <3>1, Zenon DEF Framed
      <4> QED BY <3>1, <3>2, <3>3, <3>4, <4>1
    <3>7. Kept(st, tl) \subseteq Kept(st1, tl)
      BY <3>1, <3>2 DEF Kept
    <3> QED BY <3>2, <3>5, <3>6, <3>7, Zenon DEF Framed, s1, st1
  <2> DEFINE x == chain[pc]
  <2>1. /\ status = "run" /\ pc \in DOMAIN chain /\ x.what = "push" /\ sp' = sp + 1 /\ v' = v
        /\ below' = [below EXCEPT ![sp + 1] = v[x.s]] /\ pc' = pc + 1 /\ UNCHANGED <<status, Program>>
    BY Zenon DEF PushStep, Executing
  <2>2. v \in Vals /\ below \in [1 .. MaxDepth -> SUBSET Bits]
    BY <2>1, <1>Current, Zenon
  <2>3. v' \in Outs(x, v) /\ pc' = Goal(x, v, pc)
    BY <2>1, Zenon DEF Outs, Goal
  <2>4. ASSUME NEW st \in Stacks, NEW st1 \in Stacks, NEW tl \in Savings, NEW tl1 \in Savings,
               Framed(instr, before, v, below, sp, st, tl), Keeps(instr, x, st, tl, st1, tl1)
        PROVE  Framed(instr, before, v', below', sp', st1, tl1) /\ below' \in [1 .. MaxDepth -> SUBSET Bits]
    <3>1. /\ Len(st) < MaxDepth /\ x.s \in AppLocs /\ x.s \notin Exempt(instr) \cup Kept(st, tl)
          /\ st1 = Append(st, x.s) /\ tl1 = tl
      BY <2>1, <2>4, Zenon DEF Keeps
    <3>2. /\ Framed(instr, before, v, [below EXCEPT ![sp + 1] = v[x.s]], sp + 1, Append(st, x.s), tl)
          /\ [below EXCEPT ![sp + 1] = v[x.s]] \in [1 .. MaxDepth -> SUBSET Bits]
      BY <2>2, <2>4, <3>1, <2>FramePush, ZenonT(60)
    <3> QED BY <2>1, <3>1, <3>2, Zenon
  <2>5. Keeping(x)
    BY <2>1, <2>4, ZenonT(60) DEF Keeping, Harmless
  <2>6. below' \in [1 .. MaxDepth -> SUBSET Bits]
    BY <2>1, <2>4, <1>StackOps, ZenonT(60)
  <2> QED BY <2>1, <2>3, <2>5, <2>6, <1>StepInv, Zenon
<1>PopInv.
  ASSUME MaskInv, PopStep
  PROVE  MaskInv'
  <2> USE <1>PopInv
  <2>FramePop.
    ASSUME NEW i, NEW b, NEW s, NEW d, NEW st \in Stacks, NEW tl \in Savings, NEW st1 \in Stacks, NEW r \in AppLocs,
           st = Append(st1, r), NEW u \in Vals, Framed(i, b, u, s, d, st, tl)
    PROVE  Framed(i, b, [u EXCEPT ![r] = s[d]], s, d - 1, st1, tl)
    <3> USE <2>FramePop
    <3> DEFINE t == [u EXCEPT ![r] = s[d]]
    <3>1. d = Len(st) /\ Len(st1) \in Nat /\ DOMAIN st1 = 1 .. Len(st1) /\ DOMAIN st = 1 .. Len(st)
      BY DEF Framed, Stacks
    <3>2. Len(st) = Len(st1) + 1 /\ st[d] = r /\ (\A j \in 1 .. Len(st1) : st[j] = st1[j]) /\ d \in DOMAIN st
      BY <3>1 DEF Stacks
    <3>3. s[d] = b[r]
      BY <3>2, Zenon DEF Framed
    <3>4. t[r] = b[r] /\ \A l \in Locs : l # r => t[l] = u[l]
      BY <3>3, LocFacts, Zenon DEF Vals
    <3>5. \A j \in DOMAIN tl : tl[j][1] \in Slots
      BY DEF Savings
    <3> HIDE DEF t
    <3>6. \A j \in DOMAIN tl : t[tl[j][1]] = b[tl[j][2]]
      BY <3>4, <3>5, LocFacts DEF Framed
    <3>7. \A j \in DOMAIN st1 : s[j] = b[st1[j]]
      BY <3>1, <3>2 DEF Framed
    <3>8. Kept(st, tl) = Kept(st1, tl) \cup {r}
      BY <3>1, <3>2 DEF Kept
    <3>9. \A l \in AppLocs \ (Exempt(i) \cup Kept(st1, tl)) : t[l] = b[l]
      BY <3>4, <3>8, LocFacts, Zenon DEF Framed
    <3>10. d - 1 = Len(st1)
      BY <3>1, <3>2
    <3> QED BY <3>6, <3>7, <3>9, <3>10, Zenon DEF Framed, t
  <2> DEFINE x == chain[pc]
  <2>1. /\ status = "run" /\ pc \in DOMAIN chain /\ x.what = "pop" /\ sp' = sp - 1
        /\ v' = [v EXCEPT ![x.d] = below[sp]] /\ pc' = pc + 1 /\ UNCHANGED <<below, status, Program>>
    BY Zenon DEF PopStep, Executing
  <2>2. v \in Vals /\ below \in [1 .. MaxDepth -> SUBSET Bits]
    BY <2>1, <1>Current, Zenon
  <2>3. below[sp] \in SUBSET Bits
    <3>1. PICK st \in Stacks, st1 \in Stacks, tl \in Savings :
                 Framed(instr, before, v, below, sp, st, tl) /\ Keeps(instr, x, st, tl, st1, tl)
      BY <2>1, <1>StackOps, Zenon
    <3>2. x.d \in AppLocs /\ st = Append(st1, x.d)
      BY <2>1, <3>1, ZenonT(60) DEF Keeps
    <3>3. sp \in DOMAIN st /\ st[sp] = x.d
      BY <3>1, <3>2, SMTT(30) DEF Framed, Stacks
    <3>4. below[sp] = before[x.d]
      BY <3>1, <3>3, Zenon DEF Framed
    <3> QED BY <3>2, <3>4, Zenon DEF MaskInv, Types
  <2>4. v' \in Outs(x, v) /\ pc' = Goal(x, v, pc)
    BY <2>1, <2>3, Zenon DEF Outs, Goal
  <2>5. ASSUME NEW st \in Stacks, NEW st1 \in Stacks, NEW tl \in Savings, NEW tl1 \in Savings,
               Framed(instr, before, v, below, sp, st, tl), Keeps(instr, x, st, tl, st1, tl1)
        PROVE  Framed(instr, before, v', below', sp', st1, tl1)
    <3>1. x.d \in AppLocs /\ st = Append(st1, x.d) /\ tl1 = tl
      BY <2>1, <2>5, Zenon DEF Keeps
    <3>2. Framed(instr, before, [v EXCEPT ![x.d] = below[sp]], below, sp - 1, st1, tl)
      BY <2>2, <2>5, <3>1, <2>FramePop, Zenon
    <3> QED BY <2>1, <3>1, <3>2, Zenon
  <2>6. Keeping(x)
    BY <2>1, <2>5, ZenonT(60) DEF Keeping, Harmless
  <2> QED BY <2>1, <2>2, <2>4, <2>6, <1>StepInv, Zenon
<1>1. CASE status = "app" /\ n < MaxInstrs /\ \E i \in IF n = 0 THEN First ELSE Later : Fetch(i)
  <2>1. PICK i \in First \cup Later : Fetch(i)
    BY <1>1, Zenon
  <2> QED BY <1>1, <2>1, <1>FetchInv, Zenon
<1>2. CASE Move
  BY <1>2, <1>MoveInv, Zenon
<1>3. CASE Compute
  BY <1>3, <1>ComputeInv, Zenon
<1>4. CASE ShiftStep
  BY <1>4, <1>ShiftInv, Zenon
<1>5. CASE PushStep
  BY <1>5, <1>PushInv, Zenon
<1>6. CASE PopStep
  BY <1>6, <1>PopInv, Zenon
<1>7. CASE JumpStep
  BY <1>7, <1>JumpInv, Zenon
<1>8. CASE CarryStep
  BY <1>8, <1>CarryInv, Zenon
<1>9. CASE NativeStep
  <2>1. avx512
    BY <1>9, Zenon DEF NoOriginals, NativeStep, Executing
  <2> QED BY <1>9, <2>1, <1>NativeInv, Zenon
<1>10. CASE Retire
  BY <1>10, <1>RetireInv, Zenon
<1>11. CASE UNCHANGED vars
  BY <1>11, Zenon DEF vars, MaskInv, Types, Resting, Expected, Running, AgreesAt
<1>12. Ended => UNCHANGED vars
  BY Zenon DEF Ended
<1> QED BY <1>1, <1>2, <1>3, <1>4, <1>5, <1>6, <1>7, <1>8, <1>9, <1>10, <1>11, <1>12, Zenon DEF Next

\* So are the scratch registers and the slots.
LEMMA ScratchDistinct ==
  /\ rax # rbx /\ rax # rcx /\ rax # rdx /\ rbx # rcx /\ rbx # rdx /\ rcx # rdx /\ r11 # r12
  /\ Tls(1) # Tls(2) /\ Tls(1) # Tls(3) /\ Tls(2) # Tls(3) /\ {Tls(1), Tls(2), Tls(3)} \subseteq Slots
BY DEF rax, rbx, rcx, rdx, r11, r12, R, Tls, Slots

\* A pair of instructions that keep a register and take it back.
LEMMA BracketTyped ==
  ASSUME NEW i, NEW c, NEW o \in Nat, NEW x \in Ops, NEW y \in Ops,
         NEW st \in Stacks, NEW tl \in Savings, NEW st1 \in Stacks, NEW tl1 \in Savings,
         Typed(i, c, o + 1, st1, tl1),
         Keeps(i, x, st, tl, st1, tl1), Keeps(i, y, st1, tl1, st, tl)
  PROVE  Typed(i, <<x>> \o c \o <<y>>, o, st, tl)
\* Sequences of instructions in brackets.
<1>Bracket.
  ASSUME NEW c0 \in Seq(Ops), NEW x0 \in Ops, NEW y0 \in Ops
  PROVE  /\ <<x0>> \o c0 \o <<y0>> \in Seq(Ops)
         /\ Len(<<x0>> \o c0 \o <<y0>>) = Len(c0) + 2
         /\ (<<x0>> \o c0 \o <<y0>>)[1] = x0
         /\ (<<x0>> \o c0 \o <<y0>>)[Len(c0) + 2] = y0
         /\ \A k \in 1 .. Len(c0) : (<<x0>> \o c0 \o <<y0>>)[k + 1] = c0[k]
  OBVIOUS
<1> DEFINE e == <<x>> \o c \o <<y>>
           m == Len(c)
<1>1. c \in Seq(Ops) /\ m \in Nat
  BY DEF Typed
<1>2. PICK S, T : /\ Typing(i, c, o + 1, S, T)
                  /\ S[1] = st1 /\ T[1] = tl1 /\ S[m + 1] = st1 /\ T[m + 1] = tl1
  BY Zenon DEF Typed
<1>3. /\ e \in Seq(Ops) /\ Len(e) = m + 2 /\ e[1] = x /\ e[m + 2] = y
      /\ \A k \in 1 .. m : e[k + 1] = c[k]
  BY <1>1, <1>Bracket
<1> DEFINE U == [k \in 1 .. m + 3 |-> IF k = 1 \/ k = m + 3 THEN st ELSE S[k - 1]]
           W == [k \in 1 .. m + 3 |-> IF k = 1 \/ k = m + 3 THEN tl ELSE T[k - 1]]
<1>4. /\ S \in [1 .. m + 1 -> Stacks] /\ T \in [1 .. m + 1 -> Savings]
  BY <1>2, Zenon DEF Typing
<1>5. /\ U \in [1 .. m + 3 -> Stacks] /\ W \in [1 .. m + 3 -> Savings]
  BY <1>1, <1>4
<1>6. /\ U[1] = st /\ W[1] = tl /\ U[m + 3] = st /\ W[m + 3] = tl
      /\ \A k \in 1 .. m + 1 : U[k + 1] = S[k] /\ W[k + 1] = T[k]
  BY <1>1, <1>4
<1> HIDE DEF U, W, e, m
<1>7. ~Jumps(x) /\ ~Jumps(y)
  BY Zenon DEF Keeps, Jumps
<1>8. ASSUME NEW k \in 1 .. m + 2
      PROVE  /\ \/ Harmless(i, e[k], U[k], W[k]) /\ U[k + 1] = U[k] /\ W[k + 1] = W[k]
                \/ Keeps(i, e[k], U[k], W[k], U[k + 1], W[k + 1])
             /\ Jumps(e[k]) => /\ e[k].sz - o \in 1 .. m + 3
                               /\ U[e[k].sz - o] = U[k] /\ W[e[k].sz - o] = W[k]
  <2>1. CASE k = 1
    BY <1>1, <1>2, <1>3, <1>6, <1>7, <2>1, SMTT(30)
  <2>2. CASE k = m + 2
    BY <1>1, <1>2, <1>3, <1>6, <1>7, <2>2
  <2>3. CASE k # 1 /\ k # m + 2
    <3>1. PICK q \in 1 .. m : k = q + 1
      BY <1>1, <2>3
    <3>2. /\ e[k] = c[q] /\ U[k] = S[q] /\ W[k] = T[q] /\ U[k + 1] = S[q + 1] /\ W[k + 1] = T[q + 1]
      <4>1. q \in 1 .. m + 1 /\ q + 1 \in 1 .. m + 1 /\ k + 1 = (q + 1) + 1
        BY <1>1, <3>1, SMTT(30)
      <4> QED BY <1>3, <1>6, <3>1, <4>1, Zenon
    <3>3. /\ \/ Harmless(i, c[q], S[q], T[q]) /\ S[q + 1] = S[q] /\ T[q + 1] = T[q]
             \/ Keeps(i, c[q], S[q], T[q], S[q + 1], T[q + 1])
          /\ Jumps(c[q]) => /\ c[q].sz - (o + 1) \in 1 .. m + 1
                            /\ S[c[q].sz - (o + 1)] = S[q] /\ T[c[q].sz - (o + 1)] = T[q]
      BY <1>2, Zenon DEF Typing, m
    <3>4. c[q].sz \in Nat
      <4>1. c[q] \in Ops
        BY <1>1 DEF m
      <4> QED BY <4>1, Zenon DEF Ops
    <3>5. Jumps(c[q]) => /\ c[q].sz - o \in 1 .. m + 3
                         /\ U[c[q].sz - o] = U[k] /\ W[c[q].sz - o] = W[k]
      <4> SUFFICES ASSUME Jumps(c[q])
                   PROVE  /\ c[q].sz - o \in 1 .. m + 3
                          /\ U[c[q].sz - o] = U[k] /\ W[c[q].sz - o] = W[k]
        BY Zenon
      <4>1. PICK g \in 1 .. m + 1 : c[q].sz - (o + 1) = g
        BY <3>3, Zenon
      <4>2. c[q].sz - o = g + 1
        BY <1>1, <3>4, <4>1, SMTT(30)
      <4>3. S[g] = S[q] /\ T[g] = T[q]
        BY <3>3, <4>1, Zenon
      <4>4. U[g + 1] = S[g] /\ W[g + 1] = T[g] /\ g + 1 \in 1 .. m + 3
        BY <1>1, <1>6, SMTT(30)
      <4> QED BY <3>2, <4>2, <4>3, <4>4, Zenon
    <3> QED BY <3>2, <3>3, <3>5, Zenon
  <2> QED BY <2>1, <2>2, <2>3, Zenon
<1>9. Typing(i, e, o, U, W)
  BY <1>1, <1>3, <1>5, <1>8, SMTT(30) DEF Typing
<1>10. Len(e) + 1 = m + 3
  BY <1>1, <1>3
<1>11. Typed(i, e, o, st, tl)
  BY <1>3, <1>6, <1>9, <1>10, ZenonT(60) DEF Typed
<1> QED BY <1>11, Zenon DEF e

\* A single instruction that does not jump.
LEMMA LeadsOne ==
  ASSUME NEW x \in Ops, NEW o \in Nat, NEW P \in SUBSET Vals, NEW Q \in SUBSET Vals,
         ~Jumps(x), \A u \in P : Outs(x, u) \subseteq Q
  PROVE  Leads(<<x>>, o, P, Q)
<1> DEFINE A == [k \in 1 .. 2 |-> IF k = 1 THEN P ELSE Q]
           c == <<x>>
<1>1. c \in Seq(Ops) /\ Len(c) = 1 /\ c[1] = x
  OBVIOUS
<1>2. A \in [1 .. 2 -> SUBSET Vals] /\ A[1] = P /\ A[2] = Q
  OBVIOUS
<1> HIDE DEF A, c
<1>3. ASSUME NEW k \in 1 .. 1, NEW u \in A[k]
      PROVE  /\ Goal(c[k], u, o + k) - o \in 1 .. 2
             /\ Outs(c[k], u) \subseteq A[Goal(c[k], u, o + k) - o]
  <2>1. k = 1
    OBVIOUS
  <2>2. Goal(x, u, o + 1) - o = 2
    BY DEF Goal, Jumps
  <2> QED BY <1>1, <1>2, <2>1, <2>2
<1>4. Flow(c, o, A)
  BY <1>1, <1>2, <1>3 DEF Flow
<1>5. Leads(c, o, P, Q)
  BY <1>1, <1>2, <1>4 DEF Leads
<1> QED BY <1>5, Zenon DEF c

\* One chain after the other.
LEMMA LeadsJoin ==
  ASSUME NEW c, NEW e, NEW o \in Nat, NEW P, NEW Q, NEW R1,
         Leads(c, o, P, Q), Leads(e, o + Len(c), Q, R1)
  PROVE  Leads(c \o e, o, P, R1)
<1> DEFINE m == Len(c)
           q == Len(e)
           z == c \o e
<1>1. c \in Seq(Ops) /\ m \in Nat /\ e \in Seq(Ops) /\ q \in Nat
  BY DEF Leads
<1>2. PICK A : Flow(c, o, A) /\ P \subseteq A[1] /\ A[m + 1] \subseteq Q
  BY Zenon DEF Leads
<1>3. PICK B : Flow(e, o + m, B) /\ Q \subseteq B[1] /\ B[q + 1] \subseteq R1
  BY Zenon DEF Leads
<1>4. /\ z \in Seq(Ops) /\ Len(z) = m + q
      /\ \A k \in 1 .. m : z[k] = c[k]
      /\ \A k \in 1 .. q : z[m + k] = e[k]
  BY <1>1
<1>5. A \in [1 .. m + 1 -> SUBSET Vals] /\ B \in [1 .. q + 1 -> SUBSET Vals]
  BY <1>2, <1>3, Zenon DEF Flow
<1> DEFINE D == [k \in 1 .. m + q + 1 |-> IF k <= m THEN A[k] ELSE B[k - m]]
<1>6. /\ D \in [1 .. m + q + 1 -> SUBSET Vals]
      /\ \A k \in 1 .. m : D[k] = A[k]
  BY <1>1, <1>5, SMTT(30)
<1>7. \A k \in 1 .. q + 1 : D[m + k] = B[k]
  BY <1>1, <1>5
<1>a. \A k \in 1 .. m : \A u \in A[k] : /\ Goal(c[k], u, o + k) - o \in 1 .. m + 1
                                       /\ Outs(c[k], u) \subseteq A[Goal(c[k], u, o + k) - o]
  BY <1>2, Zenon DEF Flow
<1>b. \A k \in 1 .. q : \A u \in B[k] :
        /\ Goal(e[k], u, (o + m) + k) - (o + m) \in 1 .. q + 1
        /\ Outs(e[k], u) \subseteq B[Goal(e[k], u, (o + m) + k) - (o + m)]
  BY <1>3, Zenon DEF Flow
<1> HIDE DEF D, z, m, q
<1>8. A[m + 1] \subseteq D[m + 1]
  BY <1>1, <1>2, <1>3, <1>7, SMTT(30)
<1>9. ASSUME NEW k \in 1 .. m + q, NEW u \in D[k]
      PROVE  /\ Goal(z[k], u, o + k) - o \in 1 .. m + q + 1
             /\ Outs(z[k], u) \subseteq D[Goal(z[k], u, o + k) - o]
  <2>1. CASE k <= m
    <3>1. k \in 1 .. m
      BY <1>1, <2>1
    <3>2. z[k] = c[k] /\ D[k] = A[k]
      BY <1>4, <1>6, <3>1, Zenon
    <3>3. PICK g \in 1 .. m + 1 : Goal(c[k], u, o + k) - o = g /\ Outs(c[k], u) \subseteq A[g]
      BY <1>a, <3>1, <3>2, Zenon
    <3>4. A[g] \subseteq D[g] /\ g \in 1 .. m + q + 1
      <4>1. CASE g = m + 1
        BY <1>1, <1>8, <4>1
      <4>2. CASE g # m + 1
        BY <1>1, <1>6, <4>2, SMTT(30)
      <4> QED BY <4>1, <4>2, Zenon
    <3> QED BY <3>2, <3>3, <3>4, Zenon
  <2>2. CASE ~(k <= m)
    <3>1. PICK j \in 1 .. q : k = m + j
      <4>1. k - m \in 1 .. q /\ k = m + (k - m)
        BY <1>1, <2>2
      <4> QED BY <4>1, Zenon
    <3>2. z[k] = e[j] /\ D[k] = B[j] /\ o + k = (o + m) + j
      <4>1. j \in 1 .. q + 1
        BY <1>1
      <4> QED BY <1>1, <1>4, <1>7, <3>1, <4>1, SMTT(30)
    <3>3. PICK g \in 1 .. q + 1 : Goal(e[j], u, (o + m) + j) - (o + m) = g /\ Outs(e[j], u) \subseteq B[g]
      BY <1>b, <3>2, Zenon
    <3>4. Goal(z[k], u, o + k) \in Int
      <4>1. z[k] \in Ops
        BY <1>1, <1>4
      <4> QED BY <1>1, <4>1 DEF Goal, Ops
    <3>5. Goal(z[k], u, o + k) - o = m + g
      <4>1. \A y \in Int : y - (o + m) = g => y - o = m + g
        BY <1>1
      <4>2. Goal(z[k], u, o + k) - (o + m) = g
        BY <3>2, <3>3, Zenon
      <4> QED BY <3>4, <4>1, <4>2, Zenon
    <3>6. D[m + g] = B[g]
      BY <1>7, Zenon
    <3>7. m + g \in 1 .. m + q + 1
      BY <1>1
    <3> QED BY <3>2, <3>3, <3>5, <3>6, <3>7, Zenon
  <2> QED BY <2>1, <2>2, Zenon
<1>10. Flow(z, o, D)
  BY <1>1, <1>4, <1>6, <1>9, Zenon DEF Flow
<1>11. P \subseteq D[1]
  <2>1. CASE m = 0
    BY <1>1, <1>2, <1>8, <2>1
  <2>2. CASE m # 0
    <3>1. 1 \in 1 .. m
      BY <1>1, <2>2
    <3> QED BY <1>2, <1>6, <3>1, Zenon
  <2> QED BY <2>1, <2>2, Zenon
<1>12. D[Len(z) + 1] \subseteq R1
  <2>1. D[m + (q + 1)] = B[q + 1]
    BY <1>1, <1>7
  <2>2. Len(z) + 1 = m + (q + 1)
    BY <1>1, <1>4
  <2> QED BY <1>3, <2>1, <2>2, Zenon
<1>13. Leads(z, o, P, R1)
  BY <1>4, <1>10, <1>11, <1>12, Zenon DEF Leads
<1> QED BY <1>13, Zenon DEF z

\* The same with the flags set besides.
LEMMA PutFlagsEffect ==
  ASSUME NEW u \in Vals, NEW l \in Locs, NEW w \in Widths, NEW x \in SUBSET Bits, x \subseteq Low(w),
         l # Flags, NEW f \in SUBSET Bits
  PROVE  /\ Became(u, [Put(u, l, w, x) EXCEPT ![Flags] = f], {l, Flags}, l, w, x)
         /\ [Put(u, l, w, x) EXCEPT ![Flags] = f][Flags] = f
<1> DEFINE t == Put(u, l, w, x)
<1>1. Became(u, t, {l}, l, w, x)
  BY PutEffect, Zenon
<1>2. Flags \in Locs
  BY LocFacts, Zenon
<1> HIDE DEF t
<1>3. Became(u, [t EXCEPT ![Flags] = f], {l, Flags}, l, w, x) /\ [t EXCEPT ![Flags] = f][Flags] = f
  BY <1>1, <1>2, Zenon DEF Became, Vals
<1> QED BY <1>3, Zenon DEF t

\* Whether a chain has computed its result shows in what the instruction writes.
LEMMA PostLocal ==
  ASSUME NEW i, NEW b, NEW u \in Post(i, b), NEW t \in Vals, t[Written(i)] = u[Written(i)]
  PROVE  t \in Post(i, b)
BY Zenon DEF Post, Written

\* What a bracket around a body does to the contents.
LEMMA LeadsBracket ==
  ASSUME NEW i, NEW b, NEW c, NEW o \in Nat, NEW x \in Ops, NEW y \in Ops, ~Jumps(x), ~Jumps(y),
         Leads(c, o + 1, Start(b), Post(i, b)),
         \A u \in Start(b) : Outs(x, u) \subseteq Start(b),
         \A u \in Post(i, b) : Outs(y, u) \subseteq Post(i, b)
  PROVE  Leads(<<x>> \o c \o <<y>>, o, Start(b), Post(i, b))
<1>1. Start(b) \in SUBSET Vals /\ Post(i, b) \in SUBSET Vals
  BY Zenon DEF Start, Post
<1>2. c \in Seq(Ops) /\ Len(c) \in Nat /\ Len(<<x>>) = 1
  BY DEF Leads
<1>3. Leads(<<x>>, o, Start(b), Start(b))
  BY <1>1, LeadsOne, Zenon
<1>4. Leads(<<x>> \o c, o, Start(b), Post(i, b))
  <2>1. Leads(c, o + Len(<<x>>), Start(b), Post(i, b))
    BY <1>2, Zenon
  <2> QED BY <1>3, <2>1, LeadsJoin, Zenon
<1>5. o + Len(<<x>> \o c) \in Nat
  BY <1>2
<1>6. Leads(<<y>>, o + Len(<<x>> \o c), Post(i, b), Post(i, b))
  BY <1>1, <1>5, LeadsOne, Zenon
<1> QED BY <1>4, <1>6, LeadsJoin, ZenonT(60)

\* A register of the application that the instruction does not change, kept on
\* the stack.
LEMMA SoundPush ==
  ASSUME NEW i, NEW b, NEW c, NEW o \in Nat, NEW r \in AppLocs, NEW st \in Stacks, NEW tl \in Savings,
         Written(i) \in Locs, r \notin Exempt(i) \cup Kept(st, tl), Len(st) < MaxDepth,
         Sound(i, b, c, o + 1, Append(st, r), tl)
  PROVE  Sound(i, b, Pushing(r, c), o, st, tl)
<1>PopEffect.
  ASSUME NEW r0 \in AppLocs, NEW u \in Vals, NEW t \in Outs(Pop(r0), u)
  PROVE  t \in Vals /\ \A j \in Locs \ {r0} : t[j] = u[j]
  <2>1. PICK y \in SUBSET Bits : t = [u EXCEPT ![r0] = y]
    BY Zenon DEF Outs, Pop
  <2>2. r0 \in Locs
    BY LocFacts, Zenon
  <2> QED BY <2>1, <2>2, Zenon DEF Vals
<1> DEFINE x == Push(r)
           y == Pop(r)
           st1 == Append(st, r)
<1>0. r \in Locs
  BY LocFacts, Zenon
<1>1. x \in Ops /\ y \in Ops /\ ~Jumps(x) /\ ~Jumps(y)
  BY <1>0, Zenon DEF Push, Pop, Ops, Whats, Widths, Jumps, Operands
<1>2. st1 \in Stacks
  BY SMTT(30) DEF Stacks
<1>3. Keeps(i, x, st, tl, st1, tl) /\ Keeps(i, y, st1, tl, st, tl)
  BY Zenon DEF Keeps, Push, Pop
<1>4. \A u \in Start(b) : Outs(x, u) \subseteq Start(b)
  BY Zenon DEF Outs, Push
<1>5. \A u \in Post(i, b) : Outs(y, u) \subseteq Post(i, b)
  <2> SUFFICES ASSUME NEW u \in Post(i, b), NEW t \in Outs(y, u) PROVE t \in Post(i, b)
    BY Zenon
  <2>1. u \in Vals
    BY Zenon DEF Post
  <2>2. t \in Vals /\ \A j \in Locs \ {r} : t[j] = u[j]
    BY <2>1, <1>PopEffect, Zenon
  <2>3. r # Written(i)
    BY Zenon DEF Exempt
  <2>4. t[Written(i)] = u[Written(i)]
    BY <2>2, <2>3, Zenon
  <2> QED BY <2>2, <2>4, PostLocal, Zenon
<1> HIDE DEF x, y, st1
<1>6. Typed(i, c, o + 1, st1, tl) /\ Leads(c, o + 1, Start(b), Post(i, b))
  BY Zenon DEF Sound, st1
<1>7. Typed(i, <<x>> \o c \o <<y>>, o, st, tl)
  BY <1>1, <1>2, <1>3, <1>6, BracketTyped, Zenon
<1>8. Leads(<<x>> \o c \o <<y>>, o, Start(b), Post(i, b))
  BY <1>1, <1>4, <1>5, <1>6, LeadsBracket, Zenon
<1> QED BY <1>7, <1>8, Zenon DEF Sound, Pushing, x, y

\* The same with a slot.
LEMMA SoundSave ==
  ASSUME NEW i, NEW b, NEW c, NEW o \in Nat, NEW r \in AppLocs, NEW s \in Slots,
         NEW st \in Stacks, NEW tl \in Savings,
         Written(i) \in Locs, r \notin Exempt(i) \cup Kept(st, tl), \A j \in DOMAIN tl : tl[j][1] # s,
         Sound(i, b, c, o + 1, st, Append(tl, <<s, r>>))
  PROVE  Sound(i, b, Saving(r, s, c), o, st, tl)
<1> DEFINE x == Store(r, 64, s)
           y == Load(r, 64, s)
           tl1 == Append(tl, <<s, r>>)
<1>0. r \in Locs /\ s \in Locs /\ s \notin AppLocs
  BY LocFacts, Zenon
<1>1. x \in Ops /\ y \in Ops /\ ~Jumps(x) /\ ~Jumps(y) /\ x.what = "mov" /\ y.what = "mov" /\ x.d = s /\ y.d = r
  BY <1>0, Zenon DEF Store, Load, Mov, Ops, Whats, Widths, Jumps, Operands
<1>2. tl1 \in Savings
  BY SMTT(30) DEF Savings
<1>3. Keeps(i, x, st, tl, st, tl1) /\ Keeps(i, y, st, tl1, st, tl)
  BY Zenon DEF Keeps, Store, Load, Mov
<1> HIDE DEF x, y, tl1
<1>4. \A u \in Start(b) : Outs(x, u) \subseteq Start(b)
  <2> SUFFICES ASSUME NEW u \in Start(b) PROVE Moved(u, x) \in Start(b) /\ Outs(x, u) = {Moved(u, x)}
    OBVIOUS
  <2>1. u \in Vals
    BY Zenon DEF Start
  <2>2. /\ Outs(x, u) = {Moved(u, x)}
        /\ Became(u, Moved(u, x), {s}, s, x.w, Value(u, x.s) \cap Low(x.w))
    BY <1>1, <2>1, MovEffect, ZenonT(60)
  <2> QED BY <1>0, <2>2, LocFacts, Zenon DEF Start, Became
<1>5. \A u \in Post(i, b) : Outs(y, u) \subseteq Post(i, b)
  <2> SUFFICES ASSUME NEW u \in Post(i, b) PROVE Moved(u, y) \in Post(i, b) /\ Outs(y, u) = {Moved(u, y)}
    BY SMTT(30)
  <2>1. u \in Vals
    BY Zenon DEF Post
  <2>2. /\ Outs(y, u) = {Moved(u, y)}
        /\ Became(u, Moved(u, y), {r}, r, y.w, Value(u, y.s) \cap Low(y.w))
    BY <1>1, <2>1, MovEffect, Zenon
  <2>3. r # Written(i)
    BY Zenon DEF Exempt
  <2>4. Moved(u, y) \in Vals /\ Moved(u, y)[Written(i)] = u[Written(i)]
    BY <2>2, <2>3, Zenon DEF Became
  <2> QED BY <2>2, <2>4, PostLocal, Zenon
<1>6. Typed(i, c, o + 1, st, tl1) /\ Leads(c, o + 1, Start(b), Post(i, b))
  BY Zenon DEF Sound, tl1
<1>7. Typed(i, <<x>> \o c \o <<y>>, o, st, tl)
  BY <1>1, <1>2, <1>3, <1>6, BracketTyped, Zenon
<1>8. Leads(<<x>> \o c \o <<y>>, o, Start(b), Post(i, b))
  BY <1>1, <1>4, <1>5, <1>6, LeadsBracket, Zenon
<1> QED BY <1>7, <1>8, Zenon DEF Sound, Saving, x, y

\* The original behind its chain.
LEMMA SoundKept ==
  ASSUME NEW i, NEW b, NEW c, ~WritesFlags(i), Sound(i, b, c, 0, <<>>, <<>>)
  PROVE  Sound(i, b, KeptWith(c), 0, <<>>, <<>>)
\* One more harmless instruction at the end.
<1>AppendTyped.
  ASSUME NEW i0, NEW c0, NEW o \in Nat, NEW x \in Ops, NEW st \in Stacks, NEW tl \in Savings,
         Typed(i0, c0, o, st, tl), Harmless(i0, x, st, tl), ~Jumps(x)
  PROVE  Typed(i0, c0 \o <<x>>, o, st, tl)
  <2> USE <1>AppendTyped
  <2> DEFINE e == c0 \o <<x>>
             m == Len(c0)
  <2>1. c0 \in Seq(Ops) /\ m \in Nat
    BY DEF Typed
  <2>2. PICK S, T : /\ Typing(i0, c0, o, S, T)
                    /\ S[1] = st /\ T[1] = tl /\ S[m + 1] = st /\ T[m + 1] = tl
    BY Zenon DEF Typed
  <2>3. /\ e \in Seq(Ops) /\ Len(e) = m + 1 /\ e[m + 1] = x
        /\ \A k \in 1 .. m : e[k] = c0[k]
    BY <2>1
  <2> DEFINE U == [k \in 1 .. m + 2 |-> IF k = m + 2 THEN st ELSE S[k]]
             W == [k \in 1 .. m + 2 |-> IF k = m + 2 THEN tl ELSE T[k]]
  <2>4. /\ S \in [1 .. m + 1 -> Stacks] /\ T \in [1 .. m + 1 -> Savings]
    BY <2>2, Zenon DEF Typing
  <2>5. /\ U \in [1 .. m + 2 -> Stacks] /\ W \in [1 .. m + 2 -> Savings]
    BY <2>1, <2>4
  <2>6. /\ U[m + 2] = st /\ W[m + 2] = tl
        /\ \A k \in 1 .. m + 1 : U[k] = S[k] /\ W[k] = T[k]
    BY <2>1, <2>4
  <2> HIDE DEF U, W, e, m
  <2>7. ASSUME NEW k \in 1 .. m + 1
        PROVE  /\ \/ Harmless(i0, e[k], U[k], W[k]) /\ U[k + 1] = U[k] /\ W[k + 1] = W[k]
                  \/ Keeps(i0, e[k], U[k], W[k], U[k + 1], W[k + 1])
               /\ Jumps(e[k]) => /\ e[k].sz - o \in 1 .. m + 2
                                 /\ U[e[k].sz - o] = U[k] /\ W[e[k].sz - o] = W[k]
    <3>1. CASE k = m + 1
      <4>1. e[k] = x /\ U[k] = st /\ W[k] = tl /\ U[k + 1] = st /\ W[k + 1] = tl
        BY <2>1, <2>2, <2>3, <2>6, <3>1, SMTT(30)
      <4> QED BY <4>1, Zenon
    <3>2. CASE k # m + 1
      <4>0. k \in 1 .. m /\ k + 1 \in 1 .. m + 1
        BY <2>1, <3>2
      <4>1. e[k] = c0[k] /\ U[k] = S[k] /\ W[k] = T[k] /\ U[k + 1] = S[k + 1] /\ W[k + 1] = T[k + 1]
        BY <2>3, <2>6, <4>0, Zenon
      <4>2. /\ \/ Harmless(i0, c0[k], S[k], T[k]) /\ S[k + 1] = S[k] /\ T[k + 1] = T[k]
               \/ Keeps(i0, c0[k], S[k], T[k], S[k + 1], T[k + 1])
            /\ Jumps(c0[k]) => /\ c0[k].sz - o \in 1 .. m + 1
                              /\ S[c0[k].sz - o] = S[k] /\ T[c0[k].sz - o] = T[k]
        BY <2>2, <4>0, Zenon DEF Typing, m
      <4>3. Jumps(c0[k]) => /\ c0[k].sz - o \in 1 .. m + 2
                           /\ U[c0[k].sz - o] = U[k] /\ W[c0[k].sz - o] = W[k]
        <5> SUFFICES ASSUME Jumps(c0[k])
                     PROVE  /\ c0[k].sz - o \in 1 .. m + 2
                            /\ U[c0[k].sz - o] = U[k] /\ W[c0[k].sz - o] = W[k]
          BY Zenon
        <5>1. PICK g \in 1 .. m + 1 : c0[k].sz - o = g
          BY <4>2, Zenon
        <5>2. U[g] = S[g] /\ W[g] = T[g] /\ g \in 1 .. m + 2
          BY <2>1, <2>6, SMTT(30)
        <5> QED BY <4>1, <4>2, <5>1, <5>2, Zenon
      <4> QED BY <4>1, <4>2, <4>3, Zenon
    <3> QED BY <3>1, <3>2, Zenon
  <2>8. Typing(i0, e, o, U, W)
    BY <2>1, <2>3, <2>5, <2>7, SMTT(30) DEF Typing
  <2>9. U[1] = st /\ W[1] = tl /\ Len(e) + 1 = m + 2
    BY <2>1, <2>2, <2>3, <2>6
  <2>10. Typed(i0, e, o, st, tl)
    BY <2>3, <2>6, <2>8, <2>9, ZenonT(60) DEF Typed
  <2> QED BY <2>10, Zenon DEF e
<1>1. Native \in Ops /\ ~Jumps(Native) /\ Harmless(i, Native, <<>>, <<>>)
  BY LocFacts, Zenon DEF Native, Ops, Whats, Widths, Jumps, Harmless, Changes, Operands
<1>2. <<>> \in Stacks /\ <<>> \in Savings
  BY DEF Stacks, Savings
<1>3. Typed(i, c \o <<Native>>, 0, <<>>, <<>>)
  BY <1>1, <1>2, <1>AppendTyped, Zenon DEF Sound
<1>4. \A u \in Post(i, b) : Outs(Native, u) \subseteq Post(i, b)
  BY Zenon DEF Outs, Native
<1>5. Post(i, b) \in SUBSET Vals /\ Len(c) \in Nat
  BY DEF Post, Sound, Leads
<1>6. Leads(<<Native>>, 0 + Len(c), Post(i, b), Post(i, b))
  BY <1>1, <1>4, <1>5, LeadsOne
<1>7. Leads(c \o <<Native>>, 0, Start(b), Post(i, b))
  BY <1>6, LeadsJoin, Zenon DEF Sound
<1> QED BY <1>3, <1>7, Zenon DEF Sound, KeptWith

-----------------------------------------------------------------------------
\* A part of a body: harmless where st and tl are kept, from P to Q.
Inside(i, st, tl, c, o) ==
  \A k \in 1 .. Len(c) : /\ Harmless(i, c[k], st, tl)
                         /\ Jumps(c[k]) => c[k].sz - o \in 1 .. Len(c) + 1

Does(i, st, tl, c, o, P, Q) == Leads(c, o, P, Q) /\ Inside(i, st, tl, c, o)

\* Two parts of a chain in a row.
LEMMA DoesJoin ==
  ASSUME NEW i, NEW st, NEW tl, NEW c, NEW e, NEW o \in Nat, NEW P, NEW Q, NEW R1,
         Does(i, st, tl, c, o, P, Q), Does(i, st, tl, e, o + Len(c), Q, R1)
  PROVE  Does(i, st, tl, c \o e, o, P, R1)
<1> DEFINE z == c \o e
<1>1. Leads(z, o, P, R1)
  BY LeadsJoin, Zenon DEF Does
<1>2. c \in Seq(Ops) /\ e \in Seq(Ops)
  BY Zenon DEF Does, Leads
<1>3. /\ Len(c) \in Nat /\ Len(e) \in Nat /\ Len(z) = Len(c) + Len(e)
      /\ \A k \in 1 .. Len(c) : z[k] = c[k]
      /\ \A k \in 1 .. Len(e) : z[Len(c) + k] = e[k]
  BY <1>2
<1> HIDE DEF z
<1>4. ASSUME NEW k \in 1 .. Len(z)
      PROVE  /\ Harmless(i, z[k], st, tl)
             /\ Jumps(z[k]) => z[k].sz - o \in 1 .. Len(z) + 1
  <2>1. CASE k <= Len(c)
    <3>1. k \in 1 .. Len(c) /\ z[k] = c[k]
      BY <1>3, <2>1
    <3>2. Harmless(i, c[k], st, tl) /\ (Jumps(c[k]) => c[k].sz - o \in 1 .. Len(c) + 1)
      BY <3>1, Zenon DEF Does, Inside
    <3>3. 1 .. Len(c) + 1 \subseteq 1 .. Len(z) + 1
      BY <1>3
    <3> QED BY <3>1, <3>2, <3>3, Zenon
  <2>2. CASE ~(k <= Len(c))
    <3>1. PICK j \in 1 .. Len(e) : k = Len(c) + j
      <4>1. k - Len(c) \in 1 .. Len(e) /\ k = Len(c) + (k - Len(c))
        BY <1>3, <2>2
      <4> QED BY <4>1, Zenon
    <3>2. z[k] = e[j] /\ e[j] \in Ops
      BY <1>2, <1>3, <3>1
    <3>3. Harmless(i, e[j], st, tl) /\ (Jumps(e[j]) => e[j].sz - (o + Len(c)) \in 1 .. Len(e) + 1)
      BY Zenon DEF Does, Inside
    <3>4. e[j].sz \in Nat
      BY <3>2, Zenon DEF Ops
    <3>5. e[j].sz - (o + Len(c)) \in 1 .. Len(e) + 1 => e[j].sz - o \in 1 .. Len(z) + 1
      <4>1. \A y \in Nat, p \in Nat, q \in Nat : y - (o + p) \in 1 .. q + 1 => y - o \in 1 .. p + q + 1
        OBVIOUS
      <4> QED BY <1>3, <3>4, <4>1, Zenon
    <3> QED BY <3>2, <3>3, <3>5, Zenon
  <2> QED BY <2>1, <2>2, Zenon
<1>5. Inside(i, st, tl, z, o)
  BY <1>4, Zenon DEF Inside
<1>6. Does(i, st, tl, z, o, P, R1)
  BY <1>1, <1>5, Zenon DEF Does
<1> QED BY <1>6, Zenon DEF z

\* From fewer contents to more.
LEMMA DoesWeak ==
  ASSUME NEW i, NEW st, NEW tl, NEW c, NEW o, NEW P, NEW Q, NEW P1, NEW Q1,
         Does(i, st, tl, c, o, P, Q), P1 \subseteq P, Q \subseteq Q1
  PROVE  Does(i, st, tl, c, o, P1, Q1)
BY Zenon DEF Does, Leads

\* A part that leads from the start to the result is sound.
LEMMA SoundDoes ==
  ASSUME NEW i, NEW b, NEW c, NEW o \in Nat, NEW st \in Stacks, NEW tl \in Savings,
         Does(i, st, tl, c, o, Start(b), Post(i, b))
  PROVE  Sound(i, b, c, o, st, tl)
\* A harmless body needs no other bookkeeping.
<1>BodyTyped.
  ASSUME NEW i0, NEW c0 \in Seq(Ops), NEW o0 \in Nat, NEW st0 \in Stacks, NEW tl0 \in Savings,
         \A k \in 1 .. Len(c0) :
            /\ Harmless(i0, c0[k], st0, tl0)
            /\ Jumps(c0[k]) => c0[k].sz - o0 \in 1 .. Len(c0) + 1
  PROVE  Typed(i0, c0, o0, st0, tl0)
  <2> USE <1>BodyTyped
  <2> DEFINE S == [k \in 1 .. Len(c0) + 1 |-> st0]
             T == [k \in 1 .. Len(c0) + 1 |-> tl0]
  <2>1. Len(c0) \in Nat
    OBVIOUS
  <2>2. \A k \in 1 .. Len(c0) + 1 : S[k] = st0 /\ T[k] = tl0
    BY Zenon
  <2>3. S \in [1 .. Len(c0) + 1 -> Stacks] /\ T \in [1 .. Len(c0) + 1 -> Savings]
    BY ZenonT(60)
  <2> HIDE DEF S, T
  <2>4. Typing(i0, c0, o0, S, T)
    BY <2>1, <2>2, <2>3, SMTT(30) DEF Typing
  <2>5. S[1] = st0 /\ T[1] = tl0 /\ S[Len(c0) + 1] = st0 /\ T[Len(c0) + 1] = tl0
    BY <2>1, <2>2
  <2> QED BY <2>4, <2>5, Zenon DEF Typed
<1>SoundBody.
  ASSUME NEW i0, NEW b0, NEW c0, NEW o0 \in Nat, NEW st0 \in Stacks, NEW tl0 \in Savings,
         Leads(c0, o0, Start(b0), Post(i0, b0)),
         \A k \in 1 .. Len(c0) :
            /\ Harmless(i0, c0[k], st0, tl0)
            /\ Jumps(c0[k]) => c0[k].sz - o0 \in 1 .. Len(c0) + 1
  PROVE  Sound(i0, b0, c0, o0, st0, tl0)
  <2> USE <1>SoundBody
  <2>1. c0 \in Seq(Ops)
    BY Zenon DEF Leads
  <2> QED BY <2>1, <1>BodyTyped, Zenon DEF Sound
<1> QED BY <1>SoundBody, Zenon DEF Does, Inside

-----------------------------------------------------------------------------
\* Code without jumps.
Anywhere(i, st, tl, c, P, Q) == \A o \in Nat : Does(i, st, tl, c, o, P, Q)

\* A single instruction, wherever it stands.
LEMMA AnyOne ==
  ASSUME NEW i, NEW st, NEW tl, NEW x \in Ops, NEW P \in SUBSET Vals, NEW Q \in SUBSET Vals,
         ~Jumps(x), Harmless(i, x, st, tl), \A u \in P : Outs(x, u) \subseteq Q
  PROVE  Anywhere(i, st, tl, <<x>>, P, Q)
<1>DoesOne.
  ASSUME NEW i0, NEW st0, NEW tl0, NEW x0 \in Ops, NEW o \in Nat, NEW P0 \in SUBSET Vals, NEW Q0 \in SUBSET Vals,
         ~Jumps(x0), Harmless(i0, x0, st0, tl0), \A u \in P0 : Outs(x0, u) \subseteq Q0
  PROVE  Does(i0, st0, tl0, <<x0>>, o, P0, Q0)
  <2> USE <1>DoesOne
  <2>1. Leads(<<x0>>, o, P0, Q0)
    BY LeadsOne, Zenon
  <2>2. Inside(i0, st0, tl0, <<x0>>, o)
    BY DEF Inside
  <2> QED BY <2>1, <2>2, Zenon DEF Does
<1>1. ASSUME NEW o \in Nat PROVE Does(i, st, tl, <<x>>, o, P, Q)
  BY <1>DoesOne, Zenon
<1> QED BY <1>1, Zenon DEF Anywhere

\* The application's contents b outside of E, w bits a in the register r, and
\* sets of contents that do not tell r and the flags.
Clean(b, E)     == {u \in Vals : \A l \in AppLocs \ E : u[l] = b[l]}

Regs(w, r, a)   == {u \in Vals : u[r] \cap Low(w) = a}

Untouched(r, F) ==
  /\ F \in SUBSET Vals
  /\ \A u \in F, t \in Vals : (\A j \in Locs \ {r, Flags} : t[j] = u[j]) => t \in F

\* What is known of the registers outside of E says nothing of those in E.
LEMMA UntouchedClean ==
  ASSUME NEW b, NEW E, NEW r \in E, Flags \in E
  PROVE  Untouched(r, Clean(b, E))
BY LocFacts, Zenon DEF Untouched, Clean

\* What one register holds says nothing of another.
LEMMA UntouchedRegs ==
  ASSUME NEW w, NEW a, NEW r, NEW q \in Scratch, q # r, NEW F, Untouched(r, F)
  PROVE  Untouched(r, F \cap Regs(w, q, a))
<1>1. q \in Locs /\ q # Flags
  BY LocFacts, Zenon
<1> QED BY <1>1, Zenon DEF Untouched, Regs

\* The width of the registers.
Wide == 64

\* An instruction that leaves the w bits y in r, from contents in P.
Sets(x, P, r, w, y) == \A u \in P : \E t : Outs(x, u) = {t} /\ Became(u, t, {r, Flags}, r, w, y)

\* Room to write the locations L.
Room(i, st, tl, L) == L \subseteq Exempt(i) \cup Kept(st, tl)

\* An instruction that sets r, when the rest of what is known does not depend on r.
LEMMA StepAny ==
  ASSUME NEW i, NEW st, NEW tl, NEW x \in Ops, ~Jumps(x), Harmless(i, x, st, tl),
         NEW r \in Scratch, NEW F, Untouched(r, F), NEW P, P \subseteq F, NEW w, NEW y,
         Sets(x, P, r, w, y)
  PROVE  Anywhere(i, st, tl, <<x>>, P, F \cap Regs(w, r, y))
<1>1. F \in SUBSET Vals /\ F \cap Regs(w, r, y) \in SUBSET Vals /\ P \in SUBSET Vals
  BY Zenon DEF Untouched
<1>2. ASSUME NEW u \in P PROVE Outs(x, u) \subseteq F \cap Regs(w, r, y)
  <2>1. PICK t : Outs(x, u) = {t} /\ Became(u, t, {r, Flags}, r, w, y)
    BY Zenon DEF Sets
  <2>2. t \in F
    BY <2>1, Zenon DEF Untouched, Became
  <2>3. t \in Regs(w, r, y)
    BY <2>1, Zenon DEF Regs, Became
  <2> QED BY <2>1, <2>2, <2>3, Zenon
<1> QED BY <1>1, <1>2, AnyOne, Zenon

\* Moves to a register.
LEMMA MovSets ==
  ASSUME NEW x \in Ops, x.what = "mov", NEW P \in SUBSET Vals, NEW y,
         \A u \in P : Value(u, x.s) \cap Low(x.w) = y
  PROVE  Sets(x, P, x.d, x.w, y)
<1>1. ASSUME NEW u \in P PROVE \E t : Outs(x, u) = {t} /\ Became(u, t, {x.d, Flags}, x.d, x.w, y)
  <2>1. Value(u, x.s) \cap Low(x.w) = y /\ u \in Vals
    BY Zenon
  <2>2. Outs(x, u) = {Moved(u, x)} /\ Became(u, Moved(u, x), {x.d}, x.d, x.w, y)
    BY <2>1, MovEffect, Zenon
  <2>3. Became(u, Moved(u, x), {x.d, Flags}, x.d, x.w, y)
    BY <2>2, Zenon DEF Became
  <2> QED BY <2>2, <2>3, Zenon
<1> QED BY <1>1, Zenon DEF Sets

\* mov of an immediate.
LEMMA MovImmAny ==
  ASSUME NEW i, NEW st, NEW tl, NEW r \in Scratch, Room(i, st, tl, {r}),
         NEW F, Untouched(r, F), NEW z \in SUBSET Bits
  PROVE  Anywhere(i, st, tl, <<MovImm(r, z)>>, F, F \cap Regs(Wide, r, z))
<1> DEFINE x == MovImm(r, z)
<1>0. r \in Locs
  BY LocFacts, Zenon
<1>1. x \in Ops /\ ~Jumps(x) /\ x.what = "mov" /\ x.d = r /\ x.w = Wide /\ x.s = Imm(z) /\ x.sz = Wide
  BY <1>0, Zenon DEF MovImm, Wide, Mov, Ops, Whats, Widths, Jumps, Operands
<1> HIDE DEF x
<1>2. Harmless(i, x, st, tl)
  BY <1>1, Zenon DEF Harmless, Changes, Room
<1>3. \A u \in F : Value(u, x.s) \cap Low(x.w) = z
  BY <1>1, LowFacts DEF Value, Imm, Wide
<1>4. Sets(x, F, r, Wide, z)
  <2>1. F \in SUBSET Vals
    BY Zenon DEF Untouched
  <2>2. Sets(x, F, x.d, x.w, z)
    BY <1>1, <1>3, <2>1, MovSets, Zenon
  <2> QED BY <1>1, <2>2, Zenon
<1>5. Anywhere(i, st, tl, <<x>>, F, F \cap Regs(Wide, r, z))
  <2>1. F \subseteq F
    BY Zenon
  <2> QED BY <1>1, <1>2, <1>4, <2>1, StepAny, Zenon
<1> QED BY <1>5, Zenon DEF x

\* Arithmetic.
LEMMA FlagsType == \A z, c : TestFlags(z, c) \in SUBSET Bits
BY DEF TestFlags, CF, ZF, Bits

\* What the logical instructions compute, and that it fits their width.
LEMMA OutcomeFacts ==
  ASSUME NEW w \in Widths, NEW a, NEW b, a \subseteq Low(w), b \subseteq Low(w)
  PROVE  /\ Outcome("and", w, a, b) = a \cap b
         /\ Outcome("or", w, a, b) = a \cup b
         /\ Outcome("xor", w, a, b) = Xor(a, b)
         /\ Outcome("not", w, a, b) = Low(w) \ a
         /\ \A f \in {"and", "or", "xor", "not"} :
              Outcome(f, w, a, b) \in SUBSET Bits /\ Outcome(f, w, a, b) \subseteq Low(w)
<1>1. /\ Outcome("and", w, a, b) = a \cap b
      /\ Outcome("or", w, a, b) = a \cup b
      /\ Outcome("xor", w, a, b) = Xor(a, b)
      /\ Outcome("not", w, a, b) = Low(w) \ a
  BY Zenon DEF Outcome
<1>2. Xor(a, b) \subseteq Low(w)
  BY Zenon DEF Xor
<1> QED BY <1>1, <1>2, LowFacts, Zenon

\* A logical instruction changes its destination and the flags.
LEMMA AluEffect ==
  ASSUME NEW x \in Ops, x.what \in {"and", "or", "xor", "not"}, x.d # Flags, NEW u \in Vals
  PROVE  /\ Outs(x, u) = {Computed(u, x)}
         /\ Became(u, Computed(u, x), {x.d, Flags}, x.d, x.w,
                   Outcome(x.what, x.w, u[x.d] \cap Low(x.w), Value(u, x.s) \cap Low(x.w)))
<1> DEFINE a == u[x.d] \cap Low(x.w)
           c == Value(u, x.s) \cap Low(x.w)
           y == Outcome(x.what, x.w, a, c)
           f == IF x.what = "not" THEN u[Flags] ELSE TestFlags(y = {}, FALSE)
<1>1. x.d \in Locs /\ x.w \in Widths /\ Flags \in Locs
  BY LocFacts, Zenon DEF Ops
<1>2. a \subseteq Low(x.w) /\ c \subseteq Low(x.w)
  BY Zenon
<1>3. Outs(x, u) = {Computed(u, x)}
  BY Zenon DEF Outs
<1>4. Computed(u, x) = [Put(u, x.d, x.w, y) EXCEPT ![Flags] = f]
  BY Zenon DEF Computed
<1> HIDE DEF a, c
<1>5. y \in SUBSET Bits /\ y \subseteq Low(x.w)
  BY <1>1, <1>2, OutcomeFacts
<1> HIDE DEF y
<1>6. f \in SUBSET Bits
  BY <1>1, FlagsType, Zenon DEF Vals
<1> HIDE DEF f
<1>7. Became(u, [Put(u, x.d, x.w, y) EXCEPT ![Flags] = f], {x.d, Flags}, x.d, x.w, y)
  BY <1>1, <1>5, <1>6, PutFlagsEffect, Zenon
<1> QED BY <1>3, <1>4, <1>7, Zenon DEF y, a, c

\* An instruction of a body as Alu and Shift build it.
Shaped(i, st, tl, x, f, w, r, s) ==
  /\ x \in Ops /\ ~Jumps(x) /\ Harmless(i, x, st, tl)
  /\ x.what = f /\ x.d = r /\ x.w = w /\ x.s = s /\ r # Flags

\* A logical instruction between scratch registers can be built and is harmless.
LEMMA AluShape ==
  ASSUME NEW i, NEW st, NEW tl, NEW f \in {"and", "or", "xor", "not"}, NEW w \in Widths, NEW r \in Scratch,
         NEW s \in Operands, Room(i, st, tl, {r, Flags})
  PROVE  Shaped(i, st, tl, Alu(f, w, r, s), f, w, r, s)
<1> DEFINE x == Alu(f, w, r, s)
<1>0. r \in Locs /\ r # Flags
  BY LocFacts, Zenon
<1>1. x.what = f /\ x.d = r /\ x.w = w /\ x.s = s /\ x.sz = w
  BY Zenon DEF Alu
<1>2. x \in Ops
  BY <1>0 DEF Ops, Whats, Widths, Alu
<1> HIDE DEF x
<1>3. ~Jumps(x) /\ Harmless(i, x, st, tl)
  BY <1>1, Zenon DEF Jumps, Harmless, Changes, Room
<1> QED BY <1>0, <1>1, <1>2, <1>3, Zenon DEF x, Shaped

\* A logical instruction that gives y for all contents it may find.
LEMMA AluAny ==
  ASSUME NEW i, NEW st, NEW tl, NEW r \in Scratch, Room(i, st, tl, {r, Flags}),
         NEW F, Untouched(r, F), NEW w \in Widths, NEW f \in {"and", "or", "xor", "not"},
         NEW s \in Operands, NEW P, P \subseteq F, NEW y,
         \A u \in P : Outcome(f, w, u[r] \cap Low(w), Value(u, s) \cap Low(w)) = y
  PROVE  Anywhere(i, st, tl, <<Alu(f, w, r, s)>>, P, F \cap Regs(w, r, y))
<1>AluSets.
  ASSUME NEW x \in Ops, x.what \in {"and", "or", "xor", "not"}, x.d # Flags, NEW P0 \in SUBSET Vals, NEW y0,
         \A u \in P0 : Outcome(x.what, x.w, u[x.d] \cap Low(x.w), Value(u, x.s) \cap Low(x.w)) = y0
  PROVE  Sets(x, P0, x.d, x.w, y0)
  <2> USE <1>AluSets
  <2>1. ASSUME NEW u \in P0 PROVE \E t : Outs(x, u) = {t} /\ Became(u, t, {x.d, Flags}, x.d, x.w, y0)
    <3>1. Outcome(x.what, x.w, u[x.d] \cap Low(x.w), Value(u, x.s) \cap Low(x.w)) = y0 /\ u \in Vals
      BY Zenon
    <3>2. Outs(x, u) = {Computed(u, x)} /\ Became(u, Computed(u, x), {x.d, Flags}, x.d, x.w, y0)
      BY <3>1, AluEffect, ZenonT(60)
    <3> QED BY <3>2, Zenon
  <2> QED BY <2>1, Zenon DEF Sets
<1> DEFINE x == Alu(f, w, r, s)
<1>1. Shaped(i, st, tl, x, f, w, r, s)
  BY AluShape, Zenon
<1> HIDE DEF x
<1>2. P \in SUBSET Vals
  BY Zenon DEF Untouched
<1>3. Sets(x, P, x.d, x.w, y)
  <2>1. x \in Ops /\ x.what = f /\ x.d # Flags
    BY <1>1, Zenon DEF Shaped
  <2>2. \A u \in P : Outcome(x.what, x.w, u[x.d] \cap Low(x.w), Value(u, x.s) \cap Low(x.w)) = y
    BY <1>1, Zenon DEF Shaped
  <2> QED BY <1>2, <2>1, <2>2, <1>AluSets, ZenonT(60)
<1>4. Sets(x, P, r, w, y)
  BY <1>1, <1>3, Zenon DEF Shaped
<1>5. Anywhere(i, st, tl, <<x>>, P, F \cap Regs(w, r, y))
  <2>1. x \in Ops /\ ~Jumps(x) /\ Harmless(i, x, st, tl)
    BY <1>1, Zenon DEF Shaped
  <2> QED BY <1>4, <2>1, StepAny, Zenon
<1> QED BY <1>5, Zenon DEF x

\* With a second register, with an immediate, with nothing, and with itself.
LEMMA PairAny ==
  ASSUME NEW i, NEW st, NEW tl, NEW r \in Scratch, Room(i, st, tl, {r, Flags}),
         NEW w \in Widths, NEW f \in {"and", "or", "xor"}, NEW q \in Scratch, NEW a, NEW c,
         NEW F, Untouched(r, F), F \subseteq Regs(w, q, c)
  PROVE  Anywhere(i, st, tl, <<Alu(f, w, r, q)>>, F \cap Regs(w, r, a), F \cap Regs(w, r, Outcome(f, w, a, c)))
<1>1. q \in Operands /\ q[1] # "imm"
  BY LocFacts, Zenon DEF Operands
<1>2. ASSUME NEW u \in F \cap Regs(w, r, a)
      PROVE  Outcome(f, w, u[r] \cap Low(w), Value(u, q) \cap Low(w)) = Outcome(f, w, a, c)
  <2>1. u[r] \cap Low(w) = a /\ u[q] \cap Low(w) = c
    BY Zenon DEF Regs
  <2>2. Value(u, q) = u[q]
    BY <1>1, Zenon DEF Value
  <2> QED BY <2>1, <2>2, Zenon
<1>3. F \cap Regs(w, r, a) \subseteq F /\ f \in {"and", "or", "xor", "not"}
  BY Zenon
<1> QED BY <1>1, <1>2, <1>3, AluAny, Zenon

\* and with an immediate.
LEMMA ImmAny ==
  ASSUME NEW i, NEW st, NEW tl, NEW r \in Scratch, Room(i, st, tl, {r, Flags}),
         NEW w \in Widths, NEW a, NEW z \in SUBSET Bits, NEW F, Untouched(r, F)
  PROVE  Anywhere(i, st, tl, <<Alu("and", w, r, Imm(z))>>, F \cap Regs(w, r, a), F \cap Regs(w, r, a \cap z))
<1>1. Imm(z) \in Operands /\ Imm(z)[1] = "imm" /\ Imm(z)[2] = z
  BY Zenon DEF Operands, Imm
<1>2. ASSUME NEW u \in F \cap Regs(w, r, a)
      PROVE  Outcome("and", w, u[r] \cap Low(w), Value(u, Imm(z)) \cap Low(w)) = a \cap z
  <2>1. u[r] \cap Low(w) = a
    BY Zenon DEF Regs
  <2>a. a \subseteq Low(w)
    BY <2>1, Zenon
  <2>2. Value(u, Imm(z)) = z
    BY <1>1, Zenon DEF Value
  <2>3. Outcome("and", w, a, z \cap Low(w)) = a \cap (z \cap Low(w))
    BY <2>a, OutcomeFacts
  <2> QED BY <2>1, <2>a, <2>2, <2>3, Zenon
<1>3. F \cap Regs(w, r, a) \subseteq F
  BY Zenon
<1> QED BY <1>1, <1>2, <1>3, AluAny, Zenon

\* not.
LEMMA NotAny ==
  ASSUME NEW i, NEW st, NEW tl, NEW r \in Scratch, Room(i, st, tl, {r, Flags}),
         NEW w \in Widths, NEW a, NEW F, Untouched(r, F)
  PROVE  Anywhere(i, st, tl, <<Alu("not", w, r, r)>>, F \cap Regs(w, r, a), F \cap Regs(w, r, Low(w) \ a))
<1>1. r \in Operands
  BY LocFacts, Zenon DEF Operands
<1>2. ASSUME NEW u \in F \cap Regs(w, r, a)
      PROVE  Outcome("not", w, u[r] \cap Low(w), Value(u, r) \cap Low(w)) = Low(w) \ a
  <2>1. u[r] \cap Low(w) = a
    BY Zenon DEF Regs
  <2>a. a \subseteq Low(w)
    BY <2>1, Zenon
  <2> QED BY <2>1, Zenon DEF Outcome
<1>3. F \cap Regs(w, r, a) \subseteq F
  BY Zenon
<1> QED BY <1>1, <1>2, <1>3, AluAny, Zenon

\* xor of a register with itself clears it.
LEMMA ClearAny ==
  ASSUME NEW i, NEW st, NEW tl, NEW r \in Scratch, Room(i, st, tl, {r, Flags}),
         NEW w \in Widths, NEW F, Untouched(r, F)
  PROVE  Anywhere(i, st, tl, <<Alu("xor", w, r, r)>>, F, F \cap Regs(w, r, {}))
<1>1. r \in Operands /\ r[1] # "imm"
  BY LocFacts, Zenon DEF Operands
<1>2. ASSUME NEW u \in F
      PROVE  Outcome("xor", w, u[r] \cap Low(w), Value(u, r) \cap Low(w)) = {}
  BY <1>1, Zenon DEF Outcome, Value, Xor
<1>3. F \subseteq F
  BY Zenon
<1> QED BY <1>1, <1>2, <1>3, AluAny, Zenon

\* Shifts by less than the width.
Slid(f, w, m, a) ==
  IF f = "shl" THEN {j + m : j \in a} \cap Low(w) ELSE {j \in Low(w) : (j + m) \in a}

\* A shift by less than the width.
LEMMA ShiftAny ==
  ASSUME NEW i, NEW st, NEW tl, NEW r \in Scratch, Room(i, st, tl, {r, Flags}),
         NEW w \in Widths, NEW f \in {"shl", "shr"}, NEW m \in Nat, m < w, NEW a, NEW F, Untouched(r, F)
  PROVE  Anywhere(i, st, tl, <<Shift(f, w, r, m)>>, F \cap Regs(w, r, a), F \cap Regs(w, r, Slid(f, w, m, a)))
<1>ShiftEffect.
  ASSUME NEW x \in Ops, x.what \in {"shl", "shr"}, x.d # Flags, x.sz < x.w, NEW u \in Vals
  PROVE  /\ Outs(x, u) = {Shifted(u, x)}
         /\ Became(u, Shifted(u, x), {x.d, Flags}, x.d, x.w, Slid(x.what, x.w, x.sz, u[x.d] \cap Low(x.w)))
  <2> USE <1>ShiftEffect
  <2> DEFINE a0 == u[x.d] \cap Low(x.w)
             m0 == x.sz % x.w
             y == Slid(x.what, x.w, m0, a0)
             z == Put(u, x.d, x.w, y)
             g == (IF x.what = "shl" THEN x.w - m0 ELSE m0 - 1) \in a0
             f0 == IF m0 = 0 THEN z[Flags] ELSE TestFlags(y = {}, g)
  <2>1. x.d \in Locs /\ x.w \in Widths /\ Flags \in Locs /\ x.sz \in Nat
    BY LocFacts, Zenon DEF Ops
  <2>2. y \subseteq Low(x.w)
    BY Zenon DEF Slid
  <2>3. Outs(x, u) = {Shifted(u, x)}
    BY Zenon DEF Outs
  <2>4. m0 = x.sz
    <3>1. \A p, q \in Nat : p < q => p % q = p
      OBVIOUS
    <3>2. x.w \in Nat
      BY <2>1 DEF Widths
    <3> QED BY <2>1, <3>1, <3>2, Zenon
  <2>5. Shifted(u, x) = [z EXCEPT ![Flags] = f0]
    BY Zenon DEF Shifted, Slid
  <2> HIDE DEF a0, m0, y, g
  <2>6. y \in SUBSET Bits
    BY <2>1, <2>2, LowFacts, Zenon
  <2>7. z \in Vals
    BY <2>1, <2>2, <2>6, PutEffect, Zenon DEF Became
  <2> HIDE DEF z
  <2>8. f0 \in SUBSET Bits
    <3>1. z[Flags] \in SUBSET Bits
      BY <2>1, <2>7, Zenon DEF Vals
    <3> QED BY <3>1, FlagsType, Zenon
  <2> HIDE DEF f0
  <2>9. Became(u, [z EXCEPT ![Flags] = f0], {x.d, Flags}, x.d, x.w, y)
    BY <2>1, <2>2, <2>6, <2>8, PutFlagsEffect, Zenon DEF z
  <2> QED BY <2>3, <2>4, <2>5, <2>9, Zenon DEF y, a0
<1> DEFINE x == Shift(f, w, r, m)
           P == F \cap Regs(w, r, a)
<1>0. r \in Locs /\ r # Flags
  BY LocFacts, Zenon
<1>1. x.what = f /\ x.d = r /\ x.w = w /\ x.sz = m
  BY Zenon DEF Shift
<1>2. x \in Ops
  BY <1>0, Zenon DEF Ops, Whats, Widths, Operands, Shift
<1> HIDE DEF x
<1>3. ~Jumps(x) /\ Harmless(i, x, st, tl)
  BY <1>1, Zenon DEF Jumps, Harmless, Changes, Room
<1>4. ASSUME NEW u \in P
      PROVE  \E t : Outs(x, u) = {t} /\ Became(u, t, {r, Flags}, r, w, Slid(f, w, m, a))
  <2>1. u \in Vals /\ u[r] \cap Low(w) = a
    BY Zenon DEF Regs
  <2>2. /\ Outs(x, u) = {Shifted(u, x)}
        /\ Became(u, Shifted(u, x), {x.d, Flags}, x.d, x.w, Slid(x.what, x.w, x.sz, u[x.d] \cap Low(x.w)))
    <3>1. x.what \in {"shl", "shr"} /\ x.d # Flags /\ x.sz < x.w
      BY <1>0, <1>1, Zenon
    <3> QED BY <1>2, <2>1, <3>1, <1>ShiftEffect, ZenonT(60)
  <2>3. Became(u, Shifted(u, x), {r, Flags}, r, w, Slid(f, w, m, a))
    BY <1>1, <2>1, <2>2, Zenon
  <2> QED BY <2>2, <2>3, Zenon
<1> HIDE DEF P
<1>5. Sets(x, P, r, w, Slid(f, w, m, a))
  BY <1>4, Zenon DEF Sets
<1>6. P \subseteq F
  BY Zenon DEF P
<1>7. Anywhere(i, st, tl, <<x>>, P, F \cap Regs(w, r, Slid(f, w, m, a)))
  BY <1>2, <1>3, <1>5, <1>6, StepAny, Zenon
<1> QED BY <1>7, Zenon DEF x, P

\* movzx
LEMMA MovzxAny ==
  ASSUME NEW i, NEW st, NEW tl, NEW r \in Scratch, Room(i, st, tl, {r}),
         NEW w \in Widths, NEW a, NEW F, Untouched(r, F)
  PROVE  Anywhere(i, st, tl, <<Movzx(r, w)>>, F \cap Regs(w, r, a), F \cap Regs(Wide, r, a))
<1> DEFINE x == Movzx(r, w)
           P == F \cap Regs(w, r, a)
<1>0. r \in Locs /\ r # Flags /\ r[1] # "imm"
  BY LocFacts, Zenon
<1>1. x.what = "movzx" /\ x.d = r /\ x.s = r /\ x.w = w
  BY Zenon DEF Movzx
<1>2. x \in Ops
  BY <1>0, SMTT(30) DEF Ops, Whats, Widths, Operands, Movzx
<1> HIDE DEF x
<1>3. ~Jumps(x) /\ Harmless(i, x, st, tl)
  BY <1>1, Zenon DEF Jumps, Harmless, Changes, Room
<1>4. ASSUME NEW u \in P
      PROVE  \E t : Outs(x, u) = {t} /\ Became(u, t, {r, Flags}, r, Wide, a)
  <2>1. u \in Vals /\ u[r] \cap Low(w) = a
    BY Zenon DEF Regs
  <2>2. Outs(x, u) = {Moved(u, x)}
    BY <1>1, Zenon DEF Outs
  <2>3. Moved(u, x) = Put(u, r, Wide, a)
    <3>1. Value(u, x.s) \cap Low(x.w) = a
      BY <1>0, <1>1, <2>1, Zenon DEF Value
    <3>2. Moved(u, x) = Put(u, x.d, Wide, Value(u, x.s) \cap Low(x.w))
      BY <1>1, Zenon DEF Moved, Wide
    <3> QED BY <1>1, <3>1, <3>2, ZenonT(60)
  <2>4. a \in SUBSET Bits /\ a \subseteq Low(Wide) /\ Wide \in Widths
    BY <2>1, LowFacts DEF Wide, Widths
  <2>5. Became(u, Put(u, r, Wide, a), {r}, r, Wide, a)
    BY <1>0, <2>1, <2>4, PutEffect, Zenon
  <2>6. Became(u, Moved(u, x), {r, Flags}, r, Wide, a)
    BY <2>3, <2>5, Zenon DEF Became
  <2> QED BY <2>2, <2>6, Zenon
<1> HIDE DEF P
<1>5. Sets(x, P, r, Wide, a)
  BY <1>4, Zenon DEF Sets
<1>6. P \subseteq F
  BY Zenon DEF P
<1>7. Anywhere(i, st, tl, <<x>>, P, F \cap Regs(Wide, r, a))
  BY <1>2, <1>3, <1>5, <1>6, StepAny, ZenonT(60)
<1> QED BY <1>7, Zenon DEF x, P

-----------------------------------------------------------------------------
\* Instructions with a mask as destination, and the registers that their bodies
\* use.
ToMask(i) == IsMaskInstr(i) /\ ~WritesFlags(i) /\ IsK(i.dst)

Body(b)   == Clean(b, Scratch \cup {Flags})

\* An instruction that writes a mask: its operands, and what it may not change.
LEMMA ToMaskFacts ==
  ASSUME NEW i, ToMask(i)
  PROVE  /\ Written(i) = i.dst /\ i.dst \in AppLocs /\ i.dst \in Locs /\ i.dst \notin Scratch \cup {Flags}
         /\ i.w \in Widths /\ Scratch \cap Exempt(i) = {} /\ (~ClobbersFlags(i) => Flags \notin Exempt(i))
         /\ {i.src1, i.src2} \subseteq AppLocs \ {Flags}
<1>1. i.dst \in AppLocs \ {Flags} /\ i.w \in Widths /\ {i.src1, i.src2} \subseteq AppLocs \ {Flags}
  BY Zenon DEF ToMask, IsMaskInstr
<1>2. Written(i) = i.dst
  BY Zenon DEF ToMask, Written
<1>3. i.dst \notin Scratch \cup {Flags} /\ Scratch \cap {Flags} = {}
  BY LocFacts, Zenon DEF ToMask
<1> QED BY <1>1, <1>2, <1>3, LocFacts, Zenon DEF Exempt

\* The contents between the saves and the restores: the masks are still those of b.
LEMMA BodyFacts ==
  ASSUME NEW b
  PROVE  /\ Start(b) \subseteq Body(b) /\ Body(b) \in SUBSET Vals
         /\ \A r \in Scratch : Untouched(r, Body(b))
         /\ \A l \in AppLocs, u \in Body(b) : IsK(l) => u[l] = b[l]
<1>1. ASSUME NEW r \in Scratch PROVE Untouched(r, Body(b))
  BY UntouchedClean, Zenon DEF Body
<1>2. \A l \in AppLocs : IsK(l) => l \notin Scratch \cup {Flags}
  BY LocFacts, Zenon
<1> QED BY <1>1, <1>2, Zenon DEF Start, Body, Clean

Grown(A, B, x) == A = B \cup {x}

\* Nothing is kept at the start of a chain.
LEMMA KeptNone == <<>> \in Stacks /\ <<>> \in Savings /\ Kept(<<>>, <<>>) = {}
BY DEF Stacks, Savings, Kept

\* The store of the result.
LEMMA StoreFrom ==
  ASSUME NEW i, ToMask(i), NEW b, NEW st, NEW tl,
         NEW r \in AppLocs, NEW w \in Widths, NEW P \in SUBSET Vals, NEW a,
         a = Result(i, b[i.src1], b[i.src2]), w = i.w \/ (w = Wide /\ a \subseteq Low(i.w)),
         \A u \in P : /\ u[r] \cap Low(w) = a
                      /\ u[i.dst] \ Low(i.w) \in {{}, b[i.dst] \ Low(i.w)}
  PROVE  Anywhere(i, st, tl, <<Store(r, w, i.dst)>>, P, Post(i, b))
<1> DEFINE x == Store(r, w, i.dst)
<1>0. r \in Locs /\ r[1] # "imm" /\ i.dst \in Locs /\ i.w \in Widths /\ Written(i) = i.dst
  BY LocFacts, ToMaskFacts, Zenon
<1>1. x.what = "mov" /\ x.d = i.dst /\ x.s = r /\ x.w = w /\ x.sz = w
  BY Zenon DEF Store, Mov
<1>2. x \in Ops
  BY <1>0, SMTT(30) DEF Ops, Whats, Widths, Operands, Store, Mov
<1> HIDE DEF x
<1>3. ~Jumps(x) /\ Harmless(i, x, st, tl)
  BY <1>0, <1>1, ZenonT(60) DEF Jumps, Harmless, Changes, Exempt
<1>4. ASSUME NEW u \in P PROVE Outs(x, u) \subseteq Post(i, b)
  <2> DEFINE t == Moved(u, x)
  <2>1. Value(u, r) \cap Low(w) = a
    BY <1>0, Zenon DEF Value
  <2>2. Outs(x, u) = {t} /\ Became(u, t, {x.d}, x.d, x.w, Value(u, x.s) \cap Low(x.w))
    BY <1>1, <1>2, MovEffect, Zenon
  <2>3. Became(u, t, {i.dst}, i.dst, w, a)
    BY <1>1, <2>1, <2>2, ZenonT(60)
  <2> HIDE DEF t
  <2>4. t \in Vals
    BY <2>3, Zenon DEF Became
  <2>5. t[i.dst] \cap Low(i.w) = a /\ t[i.dst] \ Low(i.w) \in {{}, b[i.dst] \ Low(i.w)}
    <3>1. CASE w = i.w
      BY <2>3, <3>1, ZenonT(60) DEF Became
    <3>2. CASE w = Wide /\ a \subseteq Low(i.w)
      <4>1. t[i.dst] = a
        BY <2>3, <3>2, Zenon DEF Became, Wide
      <4> QED BY <3>2, <4>1, Zenon
    <3> QED BY <3>1, <3>2, Zenon
  <2> QED BY <2>2, <2>4, <2>5, ZenonT(60) DEF Post, ToMask
<1>5. Post(i, b) \in SUBSET Vals
  BY Zenon DEF Post
<1>6. Anywhere(i, st, tl, <<x>>, P, Post(i, b))
  BY <1>2, <1>3, <1>4, <1>5, AnyOne, Zenon
<1> QED BY <1>6, Zenon DEF x

-----------------------------------------------------------------------------
\* One, two or three registers on the stack or in slots.
On1(p)       == Added(<<>>, p)

On2(p, q)    == Added(On1(p), q)

On3(p, q, r) == Added(On2(p, q), r)

In1(s, p)             == Added(<<>>, <<s, p>>)

In2(s, p, t, q)       == Added(In1(s, p), <<t, q>>)

In3(s, p, t, q, z, r) == Added(In2(s, p, t, q), <<z, r>>)

\* What is kept after one, two and three pushes.
LEMMA OnFacts ==
  ASSUME NEW p \in AppLocs, NEW q \in AppLocs, NEW r \in AppLocs
  PROVE  /\ On1(p) \in Stacks /\ Len(On1(p)) = 1 /\ Kept(On1(p), <<>>) = {p}
         /\ On2(p, q) \in Stacks /\ Len(On2(p, q)) = 2 /\ Kept(On2(p, q), <<>>) = {p, q}
         /\ On3(p, q, r) \in Stacks /\ Kept(On3(p, q, r), <<>>) = {p, q, r}
<1>KeptPush.
  ASSUME NEW st \in Stacks, NEW tl \in Savings, NEW r0 \in AppLocs
  PROVE  Added(st, r0) \in Stacks /\ Grown(Kept(Added(st, r0), tl), Kept(st, tl), r0)
  <2> DEFINE e == Added(st, r0)
  <2>1. /\ e \in Stacks /\ Len(st) \in Nat /\ DOMAIN st = 1 .. Len(st)
        /\ DOMAIN e = 1 .. Len(st) + 1 /\ e[Len(st) + 1] = r0
        /\ \A j \in 1 .. Len(st) : e[j] = st[j]
    BY DEF Stacks, Added
  <2> HIDE DEF e
  <2>2. {e[j] : j \in DOMAIN e} = {st[j] : j \in DOMAIN st} \cup {r0}
    BY <2>1
  <2>3. Grown(Kept(e, tl), Kept(st, tl), r0)
    BY <2>2, Zenon DEF Kept, Grown
  <2> QED BY <2>1, <2>3, Zenon DEF e
<1>0. <<>> \in Stacks /\ <<>> \in Savings /\ Kept(<<>>, <<>>) = {}
  BY KeptNone, Zenon
<1>1. On1(p) \in Stacks /\ Len(On1(p)) = 1
  BY DEF On1, Added, Stacks
<1>2. On2(p, q) \in Stacks /\ Len(On2(p, q)) = 2
  BY DEF On1, On2, Added, Stacks
<1>3. On3(p, q, r) \in Stacks
  BY <1>0, <1>2, <1>KeptPush, Zenon DEF On3
<1>4. Kept(On1(p), <<>>) = {p}
  <2>1. Grown(Kept(On1(p), <<>>), Kept(<<>>, <<>>), p)
    BY <1>0, <1>KeptPush, Zenon DEF On1
  <2> QED BY <1>0, <2>1, Zenon DEF Grown
<1>5. Kept(On2(p, q), <<>>) = {p, q}
  <2>1. Grown(Kept(On2(p, q), <<>>), Kept(On1(p), <<>>), q)
    BY <1>0, <1>1, <1>KeptPush, Zenon DEF On2
  <2> QED BY <1>4, <2>1, Zenon DEF Grown
<1>6. Kept(On3(p, q, r), <<>>) = {p, q, r}
  <2>1. Grown(Kept(On3(p, q, r), <<>>), Kept(On2(p, q), <<>>), r)
    BY <1>0, <1>2, <1>KeptPush, ZenonT(60) DEF On3
  <2> QED BY <1>5, <2>1, Zenon DEF Grown
<1> QED BY <1>1, <1>2, <1>3, <1>4, <1>5, <1>6, Zenon

\* What is kept after one, two and three saves, and the slots that are still free.
LEMMA InFacts ==
  ASSUME NEW p \in AppLocs, NEW q \in AppLocs, NEW r \in AppLocs,
         NEW s \in Slots, NEW t \in Slots, NEW z \in Slots, s # t, s # z, t # z
  PROVE  /\ \A st \in Stacks : /\ In1(s, p) \in Savings /\ Kept(st, In1(s, p)) = Kept(st, <<>>) \cup {p}
                               /\ In2(s, p, t, q) \in Savings
                               /\ Kept(st, In2(s, p, t, q)) = Kept(st, <<>>) \cup {p, q}
                               /\ In3(s, p, t, q, z, r) \in Savings
                               /\ Kept(st, In3(s, p, t, q, z, r)) = Kept(st, <<>>) \cup {p, q, r}
         /\ \A j \in DOMAIN In1(s, p) : In1(s, p)[j][1] # t
         /\ \A j \in DOMAIN In2(s, p, t, q) : In2(s, p, t, q)[j][1] # z
<1>KeptSave.
  ASSUME NEW st \in Stacks, NEW tl \in Savings, NEW r0 \in AppLocs, NEW s0 \in Slots
  PROVE  Added(tl, <<s0, r0>>) \in Savings /\ Grown(Kept(st, Added(tl, <<s0, r0>>)), Kept(st, tl), r0)
  <2> DEFINE e == Added(tl, <<s0, r0>>)
  <2>0. <<s0, r0>> \in Slots \X AppLocs /\ <<s0, r0>>[2] = r0
    BY Zenon
  <2>1. /\ e \in Savings /\ Len(tl) \in Nat /\ DOMAIN tl = 1 .. Len(tl)
        /\ DOMAIN e = 1 .. Len(tl) + 1 /\ e[Len(tl) + 1] = <<s0, r0>>
        /\ \A j \in 1 .. Len(tl) : e[j] = tl[j]
    BY <2>0 DEF Savings, Added
  <2> HIDE DEF e
  <2>2. {e[j][2] : j \in DOMAIN e} = {tl[j][2] : j \in DOMAIN tl} \cup {r0}
    BY <2>0, <2>1
  <2>3. Grown(Kept(st, e), Kept(st, tl), r0)
    BY <2>2, Zenon DEF Kept, Grown
  <2> QED BY <2>1, <2>3, Zenon DEF e
<1>1. /\ In1(s, p) \in Savings /\ Len(In1(s, p)) = 1 /\ DOMAIN In1(s, p) = 1 .. 1
      /\ In1(s, p)[1] = <<s, p>>
  BY SMTT(30) DEF In1, Added, Savings
<1>2. /\ In2(s, p, t, q) \in Savings /\ DOMAIN In2(s, p, t, q) = 1 .. 2
      /\ In2(s, p, t, q)[1] = <<s, p>> /\ In2(s, p, t, q)[2] = <<t, q>>
  BY DEF In1, In2, Added, Savings
<1>3. In3(s, p, t, q, z, r) \in Savings
  BY <1>2, KeptNone, <1>KeptSave, Zenon DEF In3
<1>0. <<>> \in Savings
  BY KeptNone, Zenon
<1>4. ASSUME NEW st \in Stacks PROVE Kept(st, In1(s, p)) = Kept(st, <<>>) \cup {p}
  <2>1. Grown(Kept(st, In1(s, p)), Kept(st, <<>>), p)
    BY <1>0, <1>KeptSave, Zenon DEF In1
  <2> QED BY <2>1, Zenon DEF Grown
<1>5. ASSUME NEW st \in Stacks PROVE Kept(st, In2(s, p, t, q)) = Kept(st, <<>>) \cup {p, q}
  <2>1. Grown(Kept(st, In2(s, p, t, q)), Kept(st, In1(s, p)), q)
    BY <1>1, <1>KeptSave, Zenon DEF In2
  <2> QED BY <1>4, <2>1, Zenon DEF Grown
<1>6. ASSUME NEW st \in Stacks PROVE Kept(st, In3(s, p, t, q, z, r)) = Kept(st, <<>>) \cup {p, q, r}
  <2>1. Grown(Kept(st, In3(s, p, t, q, z, r)), Kept(st, In2(s, p, t, q)), r)
    BY <1>2, <1>KeptSave, Zenon DEF In3
  <2> QED BY <1>5, <2>1, Zenon DEF Grown
<1>7. \A j \in DOMAIN In1(s, p) : In1(s, p)[j][1] # t
  BY <1>1, SMTT(30)
<1>8. \A j \in DOMAIN In2(s, p, t, q) : In2(s, p, t, q)[j][1] # z
  BY <1>2
<1> QED BY <1>1, <1>2, <1>3, <1>4, <1>5, <1>6, <1>7, <1>8, ZenonT(60)

\* A part between push p and pop p.
LEMMA Push1 ==
  ASSUME NEW i, NEW b, NEW c, Written(i) \in Locs, NEW p \in AppLocs \ Exempt(i),
         Sound(i, b, c, 1, On1(p), <<>>)
  PROVE  Sound(i, b, Pushing(p, c), 0, <<>>, <<>>)
<1>1. Len(<<>>) < MaxDepth /\ p \notin Exempt(i) \cup Kept(<<>>, <<>>) /\ 0 + 1 = 1
  BY KeptNone DEF MaxDepth
<1>2. Sound(i, b, c, 0 + 1, Append(<<>>, p), <<>>)
  BY <1>1, Zenon DEF On1, Added
<1> QED BY <1>1, <1>2, KeptNone, SoundPush, Zenon

\* A part between two pushes and their pops.
LEMMA Push2 ==
  ASSUME NEW i, NEW b, NEW c, Written(i) \in Locs, NEW p \in AppLocs \ Exempt(i),
         NEW q \in AppLocs \ Exempt(i), p # q, Sound(i, b, c, 2, On2(p, q), <<>>)
  PROVE  Sound(i, b, Pushing(p, Pushing(q, c)), 0, <<>>, <<>>)
<1>1. On1(p) \in Stacks /\ Len(On1(p)) < MaxDepth /\ q \notin Exempt(i) \cup Kept(On1(p), <<>>) /\ 1 + 1 = 2
  <2>1. On1(p) \in Stacks /\ Len(On1(p)) = 1 /\ Kept(On1(p), <<>>) = {p}
    BY OnFacts, Zenon
  <2> QED BY <2>1 DEF MaxDepth
<1>2. Sound(i, b, c, 1 + 1, Append(On1(p), q), <<>>)
  BY <1>1, Zenon DEF On2, Added
<1>3. Sound(i, b, Pushing(q, c), 1, On1(p), <<>>)
  BY <1>1, <1>2, KeptNone, SoundPush, Zenon
<1> QED BY <1>3, Push1, Zenon

\* A part between three pushes and their pops.
LEMMA Push3 ==
  ASSUME NEW i, NEW b, NEW c, Written(i) \in Locs, NEW p \in AppLocs \ Exempt(i),
         NEW q \in AppLocs \ Exempt(i), NEW r \in AppLocs \ Exempt(i), p # q, p # r, q # r,
         Sound(i, b, c, 3, On3(p, q, r), <<>>)
  PROVE  Sound(i, b, Pushing(p, Pushing(q, Pushing(r, c))), 0, <<>>, <<>>)
<1>1. On2(p, q) \in Stacks /\ Len(On2(p, q)) < MaxDepth /\ r \notin Exempt(i) \cup Kept(On2(p, q), <<>>)
      /\ 2 + 1 = 3
  <2>1. On2(p, q) \in Stacks /\ Len(On2(p, q)) = 2 /\ Kept(On2(p, q), <<>>) = {p, q}
    BY OnFacts, Zenon
  <2> QED BY <2>1 DEF MaxDepth
<1>2. Sound(i, b, c, 2 + 1, Append(On2(p, q), r), <<>>)
  BY <1>1, Zenon DEF On3, Added
<1>3. Sound(i, b, Pushing(r, c), 2, On2(p, q), <<>>)
  BY <1>1, <1>2, KeptNone, SoundPush, Zenon
<1> QED BY <1>3, Push2, Zenon

\* A part between a save into a slot and its restore.
LEMMA Save1 ==
  ASSUME NEW i, NEW b, NEW c, Written(i) \in Locs, NEW p \in AppLocs \ Exempt(i), NEW s \in Slots,
         Sound(i, b, c, 1, <<>>, In1(s, p))
  PROVE  Sound(i, b, Saving(p, s, c), 0, <<>>, <<>>)
<1>1. p \notin Exempt(i) \cup Kept(<<>>, <<>>) /\ 0 + 1 = 1 /\ DOMAIN <<>> = {}
  BY KeptNone
<1>2. Sound(i, b, c, 0 + 1, <<>>, Append(<<>>, <<s, p>>))
  BY <1>1, Zenon DEF In1, Added
<1> QED BY <1>1, <1>2, KeptNone, SoundSave, Zenon

\* A part between two saves and their restores.
LEMMA Save2 ==
  ASSUME NEW i, NEW b, NEW c, Written(i) \in Locs, NEW p \in AppLocs \ Exempt(i), NEW s \in Slots,
         NEW q \in AppLocs \ Exempt(i), NEW t \in Slots, p # q, s # t,
         Sound(i, b, c, 2, <<>>, In2(s, p, t, q))
  PROVE  Sound(i, b, Saving(p, s, Saving(q, t, c)), 0, <<>>, <<>>)
<1>0. PICK z \in Slots : s # z /\ t # z
  BY ScratchDistinct, ZenonT(60)
<1>1. /\ In1(s, p) \in Savings /\ q \notin Exempt(i) \cup Kept(<<>>, In1(s, p)) /\ 1 + 1 = 2
      /\ \A j \in DOMAIN In1(s, p) : In1(s, p)[j][1] # t
  BY <1>0, KeptNone, InFacts
<1>2. Sound(i, b, c, 1 + 1, <<>>, Append(In1(s, p), <<t, q>>))
  BY <1>1, Zenon DEF In2, Added
<1>3. Sound(i, b, Saving(q, t, c), 1, <<>>, In1(s, p))
  BY <1>1, <1>2, KeptNone, SoundSave, ZenonT(60)
<1> QED BY <1>3, Save1, Zenon

\* A part between three saves and their restores.
LEMMA Save3 ==
  ASSUME NEW i, NEW b, NEW c, Written(i) \in Locs, NEW p \in AppLocs \ Exempt(i), NEW s \in Slots,
         NEW q \in AppLocs \ Exempt(i), NEW t \in Slots, NEW r \in AppLocs \ Exempt(i), NEW z \in Slots,
         p # q, p # r, q # r, s # t, s # z, t # z,
         Sound(i, b, c, 3, <<>>, In3(s, p, t, q, z, r))
  PROVE  Sound(i, b, Saving(p, s, Saving(q, t, Saving(r, z, c))), 0, <<>>, <<>>)
<1>1. /\ In2(s, p, t, q) \in Savings /\ r \notin Exempt(i) \cup Kept(<<>>, In2(s, p, t, q)) /\ 2 + 1 = 3
      /\ \A j \in DOMAIN In2(s, p, t, q) : In2(s, p, t, q)[j][1] # z
  BY KeptNone, InFacts
<1>2. Sound(i, b, c, 2 + 1, <<>>, Append(In2(s, p, t, q), <<z, r>>))
  BY <1>1, Zenon DEF In3, Added
<1>3. Sound(i, b, Saving(r, z, c), 2, <<>>, In2(s, p, t, q))
  BY <1>1, <1>2, KeptNone, SoundSave, Zenon
<1> QED BY <1>3, Save2, ZenonT(60)

\* Two parts in a row, wherever they stand.
LEMMA AnyJoin ==
  ASSUME NEW i, NEW st, NEW tl, NEW c, NEW e, NEW P, NEW Q, NEW R1,
         Anywhere(i, st, tl, c, P, Q), Anywhere(i, st, tl, e, Q, R1)
  PROVE  Anywhere(i, st, tl, c \o e, P, R1)
<1> SUFFICES ASSUME NEW o \in Nat PROVE Does(i, st, tl, c \o e, o, P, R1)
  BY Zenon DEF Anywhere
<1>1. Does(i, st, tl, c, o, P, Q)
  BY ZenonT(60) DEF Anywhere
<1>2. o + Len(c) \in Nat
  BY <1>1 DEF Does, Leads
<1>3. Does(i, st, tl, e, o + Len(c), Q, R1)
  BY <1>2, Zenon DEF Anywhere
<1> QED BY <1>1, <1>3, DoesJoin, Zenon

\* Two, three, four, seven and nine instructions.
LEMMA AnyOps ==
  ASSUME NEW i, NEW st, NEW tl, NEW c, NEW P, NEW Q, Anywhere(i, st, tl, c, P, Q)
  PROVE  c \in Seq(Ops)
<1>1. 0 \in Nat
  BY Zenon
<1> QED BY <1>1, Zenon DEF Anywhere, Does, Leads

\* What a concatenation of sequences is.
LEMMA JoinIs ==
  ASSUME NEW S, NEW s \in Seq(S), NEW t \in Seq(S)
  PROVE  /\ s \o t \in Seq(S) /\ Len(s \o t) = Len(s) + Len(t)
         /\ \A k \in 1 .. Len(s) : (s \o t)[k] = s[k]
         /\ \A k \in 1 .. Len(t) : (s \o t)[Len(s) + k] = t[k]
OBVIOUS

\* Two instructions in a row.
LEMMA AnyTwo ==
  ASSUME NEW i, NEW st, NEW tl, NEW x1, NEW x2, NEW P, NEW Q, NEW R1,
         Anywhere(i, st, tl, <<x1>>, P, Q), Anywhere(i, st, tl, <<x2>>, Q, R1)
  PROVE  Anywhere(i, st, tl, <<x1, x2>>, P, R1)
<1> DEFINE c == <<x1>> \o <<x2>>
<1>1. Anywhere(i, st, tl, c, P, R1)
  BY AnyJoin, Zenon
<1>2. <<x1>> \in Seq(Ops) /\ <<x2>> \in Seq(Ops)
  BY AnyOps, ZenonT(60)
<1>3. /\ c \in Seq(Ops) /\ Len(c) = 2
      /\ c[1] = x1 /\ c[2] = x2
  BY <1>2
<1> HIDE DEF c
<1>4. \A e \in Seq(Ops) : Len(e) = 2 => e = <<e[1], e[2]>>
  OBVIOUS
<1>5. c = <<x1, x2>>
  BY <1>3, <1>4, Zenon
<1> QED BY <1>1, <1>5, Zenon

\* Three instructions in a row.
LEMMA AnyThree ==
  ASSUME NEW i, NEW st, NEW tl, NEW x1, NEW x2, NEW x3, NEW P, NEW Q, NEW R1,
         Anywhere(i, st, tl, <<x1, x2>>, P, Q), Anywhere(i, st, tl, <<x3>>, Q, R1)
  PROVE  Anywhere(i, st, tl, <<x1, x2, x3>>, P, R1)
<1> DEFINE c == <<x1, x2>> \o <<x3>>
<1>1. Anywhere(i, st, tl, c, P, R1)
  BY AnyJoin, Zenon
<1>2. <<x1, x2>> \in Seq(Ops) /\ <<x3>> \in Seq(Ops)
  BY AnyOps, ZenonT(60)
<1>3. /\ c \in Seq(Ops) /\ Len(c) = 3
      /\ c[1] = x1 /\ c[2] = x2 /\ c[3] = x3
  <2> DEFINE s == <<x1, x2>>
             t == <<x3>>
  <2>1. s \in Seq(Ops) /\ Len(s) = 2 /\ s[1] = x1 /\ s[2] = x2
    BY <1>2
  <2>2. t \in Seq(Ops) /\ Len(t) = 1 /\ t[1] = x3
    BY <1>2
  <2> HIDE DEF s, t
  <2> HIDE DEF c
  <2>3. /\ c \in Seq(Ops) /\ Len(c) = Len(s) + Len(t)
        /\ \A k \in 1 .. Len(s) : c[k] = s[k]
        /\ \A k \in 1 .. Len(t) : c[Len(s) + k] = t[k]
    BY <2>1, <2>2, JoinIs DEF c, s, t
  <2> QED BY <2>1, <2>2, <2>3
<1> HIDE DEF c
<1>4. \A e \in Seq(Ops) : Len(e) = 3 => e = <<e[1], e[2], e[3]>>
  OBVIOUS
<1>5. c = <<x1, x2, x3>>
  BY <1>3, <1>4, Zenon
<1> QED BY <1>1, <1>5, Zenon

\* Four instructions in a row.
LEMMA AnyFour ==
  ASSUME NEW i, NEW st, NEW tl, NEW x1, NEW x2, NEW x3, NEW x4, NEW P, NEW Q, NEW R1,
         Anywhere(i, st, tl, <<x1, x2>>, P, Q), Anywhere(i, st, tl, <<x3, x4>>, Q, R1)
  PROVE  Anywhere(i, st, tl, <<x1, x2, x3, x4>>, P, R1)
<1> DEFINE c == <<x1, x2>> \o <<x3, x4>>
<1>1. Anywhere(i, st, tl, c, P, R1)
  BY AnyJoin, Zenon
<1>2. <<x1, x2>> \in Seq(Ops) /\ <<x3, x4>> \in Seq(Ops)
  BY AnyOps, ZenonT(60)
<1>3. /\ c \in Seq(Ops) /\ Len(c) = 4
      /\ c[1] = x1 /\ c[2] = x2 /\ c[3] = x3 /\ c[4] = x4
  <2> DEFINE s == <<x1, x2>>
             t == <<x3, x4>>
  <2>1. s \in Seq(Ops) /\ Len(s) = 2 /\ s[1] = x1 /\ s[2] = x2
    BY <1>2
  <2>2. t \in Seq(Ops) /\ Len(t) = 2 /\ t[1] = x3 /\ t[2] = x4
    BY <1>2
  <2> HIDE DEF s, t
  <2> HIDE DEF c
  <2>3. /\ c \in Seq(Ops) /\ Len(c) = Len(s) + Len(t)
        /\ \A k \in 1 .. Len(s) : c[k] = s[k]
        /\ \A k \in 1 .. Len(t) : c[Len(s) + k] = t[k]
    BY <2>1, <2>2, JoinIs DEF c, s, t
  <2> QED BY <2>1, <2>2, <2>3
<1> HIDE DEF c
<1>4. \A e \in Seq(Ops) : Len(e) = 4 => e = <<e[1], e[2], e[3], e[4]>>
  OBVIOUS
<1>5. c = <<x1, x2, x3, x4>>
  BY <1>3, <1>4, Zenon
<1> QED BY <1>1, <1>5, Zenon

\* Five instructions in a row.
LEMMA AnyFive ==
  ASSUME NEW i, NEW st, NEW tl, NEW x1, NEW x2, NEW x3, NEW x4, NEW x5,
         NEW P, NEW Q, NEW R1,
         Anywhere(i, st, tl, <<x1, x2, x3>>, P, Q), Anywhere(i, st, tl, <<x4, x5>>, Q, R1)
  PROVE  Anywhere(i, st, tl, <<x1, x2, x3, x4, x5>>, P, R1)
<1> DEFINE c == <<x1, x2, x3>> \o <<x4, x5>>
<1>1. Anywhere(i, st, tl, c, P, R1)
  BY AnyJoin, Zenon
<1>2. <<x1, x2, x3>> \in Seq(Ops) /\ <<x4, x5>> \in Seq(Ops)
  BY AnyOps, Zenon
<1>3. /\ c \in Seq(Ops) /\ Len(c) = 5
      /\ c[1] = x1 /\ c[2] = x2 /\ c[3] = x3 /\ c[4] = x4 /\ c[5] = x5
  BY <1>2
<1> HIDE DEF c
<1>4. \A e \in Seq(Ops) : Len(e) = 5 => e = <<e[1], e[2], e[3], e[4], e[5]>>
  OBVIOUS
<1>5. c = <<x1, x2, x3, x4, x5>>
  BY <1>3, <1>4, Zenon
<1> QED BY <1>1, <1>5, Zenon

\* Seven instructions in a row.
LEMMA AnySeven ==
  ASSUME NEW i, NEW st, NEW tl, NEW x1, NEW x2, NEW x3, NEW x4, NEW x5, NEW x6, NEW x7,
         NEW P, NEW Q, NEW R1,
         Anywhere(i, st, tl, <<x1, x2, x3, x4, x5>>, P, Q), Anywhere(i, st, tl, <<x6, x7>>, Q, R1)
  PROVE  Anywhere(i, st, tl, <<x1, x2, x3, x4, x5, x6, x7>>, P, R1)
<1> DEFINE c == <<x1, x2, x3, x4, x5>> \o <<x6, x7>>
<1>1. Anywhere(i, st, tl, c, P, R1)
  BY AnyJoin, Zenon
<1>2. <<x1, x2, x3, x4, x5>> \in Seq(Ops) /\ <<x6, x7>> \in Seq(Ops)
  BY AnyOps, Zenon
<1>3. /\ c \in Seq(Ops) /\ Len(c) = 7
      /\ c[1] = x1 /\ c[2] = x2 /\ c[3] = x3 /\ c[4] = x4 /\ c[5] = x5 /\ c[6] = x6 /\ c[7] = x7
  BY <1>2
<1> HIDE DEF c
<1>4. \A e \in Seq(Ops) : Len(e) = 7 => e = <<e[1], e[2], e[3], e[4], e[5], e[6], e[7]>>
  OBVIOUS
<1>5. c = <<x1, x2, x3, x4, x5, x6, x7>>
  BY <1>3, <1>4, Zenon
<1> QED BY <1>1, <1>5, Zenon

\* Nine instructions in a row.
LEMMA AnyNine ==
  ASSUME NEW i, NEW st, NEW tl, NEW x1, NEW x2, NEW x3, NEW x4, NEW x5, NEW x6, NEW x7, NEW x8, NEW x9, NEW P, NEW Q, NEW R1,
         Anywhere(i, st, tl, <<x1, x2, x3, x4, x5, x6, x7>>, P, Q), Anywhere(i, st, tl, <<x8, x9>>, Q, R1)
  PROVE  Anywhere(i, st, tl, <<x1, x2, x3, x4, x5, x6, x7, x8, x9>>, P, R1)
<1> DEFINE c == <<x1, x2, x3, x4, x5, x6, x7>> \o <<x8, x9>>
<1>1. Anywhere(i, st, tl, c, P, R1)
  BY AnyJoin, Zenon
<1>2. <<x1, x2, x3, x4, x5, x6, x7>> \in Seq(Ops) /\ <<x8, x9>> \in Seq(Ops)
  BY AnyOps, Zenon
<1>3. /\ c \in Seq(Ops) /\ Len(c) = 9
      /\ c[1] = x1 /\ c[2] = x2 /\ c[3] = x3 /\ c[4] = x4 /\ c[5] = x5 /\ c[6] = x6 /\ c[7] = x7 /\ c[8] = x8 /\ c[9] = x9
  BY <1>2
<1> HIDE DEF c
<1>4. \A e \in Seq(Ops) : Len(e) = 9 => e = <<e[1], e[2], e[3], e[4], e[5], e[6], e[7], e[8], e[9]>>
  OBVIOUS
<1>5. c = <<x1, x2, x3, x4, x5, x6, x7, x8, x9>>
  BY <1>3, <1>4, Zenon
<1> QED BY <1>1, <1>5, Zenon

\* A part that leads to the result from anywhere is sound where it stands.
LEMMA AnySound ==
  ASSUME NEW i, NEW b, NEW c, NEW o \in Nat, NEW st \in Stacks, NEW tl \in Savings, NEW P, Start(b) \subseteq P,
         Anywhere(i, st, tl, c, P, Post(i, b))
  PROVE  Sound(i, b, c, o, st, tl)
<1>1. Does(i, st, tl, c, o, P, Post(i, b))
  BY Zenon DEF Anywhere
<1>2. Post(i, b) \subseteq Post(i, b)
  BY Zenon
<1>3. Does(i, st, tl, c, o, Start(b), Post(i, b))
  BY <1>1, <1>2, DoesWeak, Zenon
<1> QED BY <1>3, SoundDoes, Zenon

\* The store of a result in a scratch register, from the contents of a body.
LEMMA StoreAny ==
  ASSUME NEW i, ToMask(i), NEW b, NEW st, NEW tl, NEW r \in Scratch, NEW w \in Widths, NEW a, NEW P,
         P \subseteq Body(b) \cap Regs(w, r, a),
         a = Result(i, b[i.src1], b[i.src2]), w = i.w \/ (w = Wide /\ a \subseteq Low(i.w))
  PROVE  Anywhere(i, st, tl, <<Store(r, w, i.dst)>>, P, Post(i, b))
<1>1. P \in SUBSET Vals /\ r \in AppLocs
  BY BodyFacts, LocFacts, Zenon
<1>2. ASSUME NEW u \in P
      PROVE  u[r] \cap Low(w) = a /\ u[i.dst] \ Low(i.w) \in {{}, b[i.dst] \ Low(i.w)}
  <2>1. u[i.dst] = b[i.dst]
    BY ToMaskFacts, BodyFacts, ZenonT(60) DEF ToMask
  <2>2. u[r] \cap Low(w) = a
    BY Zenon DEF Regs
  <2> QED BY <2>1, <2>2, Zenon
<1> QED BY <1>1, <1>2, StoreFrom, ZenonT(60)

\* The load of a source.
LEMMA LoadAny ==
  ASSUME NEW i, NEW b, NEW st, NEW tl, NEW r \in Scratch, Room(i, st, tl, {r}), NEW w \in Widths,
         NEW s \in AppLocs, IsK(s), NEW F, Untouched(r, F), F \subseteq Body(b)
  PROVE  Anywhere(i, st, tl, <<Load(r, w, s)>>, F, F \cap Regs(w, r, b[s] \cap Low(w)))
\* The loads of a mask, with its width, and of an immediate.
<1>LoadFrom.
  ASSUME NEW i0, NEW st0, NEW tl0, NEW r0 \in Scratch, Room(i0, st0, tl0, {r0}),
         NEW F0, Untouched(r0, F0), NEW b0, NEW E, F0 \subseteq Clean(b0, E),
         NEW w0 \in Widths, NEW s0 \in AppLocs \ E
  PROVE  Anywhere(i0, st0, tl0, <<Load(r0, w0, s0)>>, F0, F0 \cap Regs(w0, r0, b0[s0] \cap Low(w0)))
  <2> USE <1>LoadFrom
  <2> DEFINE x == Load(r0, w0, s0)
  <2>0. r0 \in Locs /\ s0 \in Locs /\ s0[1] # "imm"
    BY LocFacts, Zenon
  <2>1. x \in Ops /\ ~Jumps(x) /\ x.what = "mov" /\ x.d = r0 /\ x.w = w0 /\ x.s = s0 /\ x.sz = w0
    BY <2>0, SMTT(30) DEF Load, Mov, Ops, Whats, Widths, Jumps, Operands
  <2> HIDE DEF x
  <2>2. Harmless(i0, x, st0, tl0)
    BY <2>1, Zenon DEF Harmless, Changes, Room
  <2>3. \A u \in F0 : Value(u, x.s) \cap Low(x.w) = b0[s0] \cap Low(w0)
    BY <2>0, <2>1, Zenon DEF Value, Clean
  <2>4. Sets(x, F0, r0, w0, b0[s0] \cap Low(w0))
    <3>1. F0 \in SUBSET Vals
      BY Zenon DEF Untouched
    <3>2. Sets(x, F0, x.d, x.w, b0[s0] \cap Low(w0))
      BY <2>1, <2>3, <3>1, MovSets, Zenon
    <3> QED BY <2>1, <3>2, Zenon
  <2>5. Anywhere(i0, st0, tl0, <<x>>, F0, F0 \cap Regs(w0, r0, b0[s0] \cap Low(w0)))
    <3>1. F0 \subseteq F0
      BY Zenon
    <3> QED BY <2>1, <2>2, <2>4, <3>1, StepAny, Zenon
  <2> QED BY <2>5, Zenon DEF x
<1>1. s \in AppLocs \ (Scratch \cup {Flags})
  BY LocFacts, Zenon
<1>2. F \subseteq Clean(b, Scratch \cup {Flags})
  BY Zenon DEF Body
<1> QED BY <1>1, <1>2, <1>LoadFrom, Zenon

-----------------------------------------------------------------------------
\* Less may be known before, and less asked after.
LEMMA AnyWeak ==
  ASSUME NEW i, NEW st, NEW tl, NEW c, NEW P, NEW Q, NEW P1, NEW Q1,
         Anywhere(i, st, tl, c, P, Q), P1 \subseteq P, Q \subseteq Q1
  PROVE  Anywhere(i, st, tl, c, P1, Q1)
BY DoesWeak, Zenon DEF Anywhere
=============================================================================
