------------------------------ MODULE MaskExec ------------------------------
(***************************************************************************)
(* A thread of the application that executes mask instructions through     *)
(* their rewritings, one instruction of the chain at a time, next to the   *)
(* registers isa it would have on a processor with AVX-512.                *)
(*                                                                         *)
(* The chains of rewrite.c do not keep two promises of the architecture:   *)
(* most narrow instructions leave the upper bits of k_regs[dst] as they    *)
(* were, and some chains overwrite the flags.  trusted and live record     *)
(* where the state may differ for that reason: trusted[n] is the width of  *)
(* the last instruction that wrote mask n, live is FALSE from a chain that *)
(* overwrites the flags to the next instruction that sets them.            *)
(***************************************************************************)
EXTENDS MaskFuncs

CONSTANTS KRegs,          \* the mask registers in use
          Gprs,           \* the general-purpose registers in use
          First, Later,   \* the instructions to choose from
          MaxInstrs,      \* length of a program
          Starts,         \* possible initial values of the registers
          Careful,        \* only programs that observe Disciplined
          Processors      \* whether processors have AVX-512: {FALSE}, {TRUE} or both

AppLocs == {K(n) : n \in KRegs} \cup {R(r) : r \in Gprs} \cup {Flags}
Slots   == {Tls(n) : n \in 1 .. 3}
Locs    == AppLocs \cup Slots

MaxDepth == 3    \* words a chain pushes at most

\* Mask instructions on registers: kmov has a mask on at least one side, the
\* others have masks only.
IsMaskInstr(i) ==
  /\ i.op \in {"kmov", "kand", "kandn", "kor", "knot", "kxor", "kxnor", "kadd", "kunpck", "kortest",
               "ktest", "kshiftl", "kshiftr"}
  /\ i.w \in Widths /\ (i.op = "kunpck" => i.w # 8) /\ i.imm \in 0 .. 255
  /\ {i.dst, i.src1, i.src2} \subseteq AppLocs \ {Flags}
  /\ IF i.op = "kmov" THEN i.src1 = i.src2 /\ (IsK(i.dst) \/ IsK(i.src1))
                      ELSE IsK(i.dst) /\ IsK(i.src1) /\ IsK(i.src2)

ASSUME MaskAssumption ==
  /\ KRegs \subseteq 0 .. 7
  /\ Gprs \subseteq STRING /\ {"rax", "rbx", "rcx", "rdx", "r11", "r12", "r15"} \subseteq Gprs
  /\ \A i \in First \cup Later : IsMaskInstr(i)
  /\ \A s \in Starts : s \in [AppLocs -> SUBSET Bits]
  /\ MaxInstrs \in Nat /\ Careful \in BOOLEAN /\ Processors \subseteq BOOLEAN

VARIABLES v,         \* what each location holds
          below,     \* the words below the application's stack pointer
          sp,        \* how many of them are pushed
          n,         \* instructions of the application so far
          instr, chain, pc,   \* the current one, its chain, the position in it
          before,    \* the application's registers when it began
          isa, trusted, live, \* see above
          avx512,    \* the processor has AVX-512
          status     \* "app", "run", "fault" or "crash"

vars == <<v, below, sp, n, instr, chain, pc, before, isa, trusted, live, avx512, status>>

\* What the application keeps below its stack pointer.
AppStack == [j \in 1 .. MaxDepth |-> {j, 62}]

None == [op |-> "none", w |-> 64, dst |-> Flags, src1 |-> Flags, src2 |-> Flags, imm |-> 0]

Init ==
  /\ isa \in Starts
  /\ v = [l \in Locs |-> IF l \in AppLocs THEN isa[l] ELSE {}]
  /\ below = AppStack /\ sp = 0
  /\ n = 0 /\ instr = None /\ chain = <<>> /\ pc = 1
  /\ before = isa
  /\ trusted = [k \in KRegs |-> 64] /\ live = TRUE
  /\ avx512 \in Processors
  /\ status = "app"

-----------------------------------------------------------------------------
\* Programs for which the chains are right.

\* What an instruction reads of its sources.
ReadWidth(i) == IF i.op = "kunpck" THEN i.w \div 2 ELSE i.w

FromGpr(i) == i.op = "kmov" /\ ~IsK(i.src1)
ToGpr(i)   == i.op = "kmov" /\ ~IsK(i.dst)

\* Chains that change the flags although the instruction does not.
ClobbersFlags(i) == i.op = "kunpck" \/ (FromGpr(i) /\ i.w \in {16, 32})

\* Operands, widths and counts outside of these are computed wrongly or not at
\* all: the scratch register is also the source, the result goes to another
\* register, the count is taken for negative, the chain cannot be built.
Supported(i) ==
  /\ i.op \notin {"kxor", "kadd", "ktest"}
  /\ i.op = "kortest" => i.w \in {8, 16}
  /\ i.op = "kunpck" => i.w \in {16, 32}
  /\ FromGpr(i) => i.w = 64 \/ i.src1 # (IF i.w = 8 THEN r15 ELSE rax)
  /\ ToGpr(i) /\ i.w = 16 => i.dst = rax
  /\ i.op = "kmov" /\ ~FromGpr(i) /\ ~ToGpr(i) => i.w # 32 /\ (i.w = 8 => i.src1 # i.dst)
  /\ i.op = "kxnor" /\ i.w = 32 /\ i.src1 = i.src2 => i.dst = i.src1
  /\ i.imm < 128

\* Functions that put the original itself into the chain.
KeepsOriginal(i) == \E j \in DOMAIN rewrite_funcs(i) : rewrite_funcs(i)[j].what = "native"

\* No mask is read wider than it was written, and no original is kept that the
\* processor does not have.
Disciplined(i) ==
  /\ Supported(i)
  /\ avx512 \/ ~KeepsOriginal(i)
  /\ \A s \in {i.src1, i.src2} : IsK(s) => ReadWidth(i) <= trusted[s[2]]

-----------------------------------------------------------------------------
\* Chains the builder can make: not NULL_INSTR, operands that exist, and for
\* every move a register as wide as the memory operand, as the encoder demands.
Buildable(c) == c # <<>> /\ \A j \in DOMAIN c : c[j].s # NoSrc /\ (c[j].what = "mov" => c[j].w = c[j].sz)

\* The application's next instruction: exec_rewrite_avx512_bb has put its chain
\* into the block.
Fetch(i) ==
  /\ Careful => Disciplined(i)
  /\ n' = n + 1 /\ instr' = i /\ chain' = rewrite_funcs(i) /\ pc' = 1
  /\ status' = IF Buildable(rewrite_funcs(i)) THEN "run" ELSE "crash"
  /\ before' = [l \in AppLocs |-> v[l]]
  /\ isa' = IsaStep(isa, i)
  /\ trusted' = IF ~WritesFlags(i) /\ IsK(i.dst) THEN [trusted EXCEPT ![i.dst[2]] = i.w] ELSE trusted
  /\ live' = IF ClobbersFlags(i) THEN FALSE ELSE live \/ WritesFlags(i)
  /\ UNCHANGED <<v, below, sp, avx512>>

Executing(kinds) == status = "run" /\ pc \in DOMAIN chain /\ chain[pc].what \in kinds

\* What an instruction of a chain leaves alone, besides pc.
Program == <<n, instr, chain, before, isa, trusted, live, avx512>>

Value(u, s) == IF s[1] = "imm" THEN s[2] ELSE u[s]

\* A write of w bits: a 32-bit register clears its upper half, memory and the
\* narrow registers keep what is above.
Put(u, l, w, x) ==
  [u EXCEPT ![l] = IF w = 64 \/ (w = 32 /\ l[1] = "r") THEN x ELSE (@ \ Low(w)) \cup x]

\* What an instruction o of a chain makes of the contents u.
Moved(u, o) ==
  Put(u, o.d, IF o.what = "movzx" THEN 64 ELSE o.w, Value(u, o.s) \cap Low(o.w))

Move ==
  /\ Executing({"mov", "movzx"})
  /\ v' = Moved(v, chain[pc])
  /\ pc' = pc + 1
  /\ UNCHANGED <<below, sp, status, Program>>

\* a < b as unsigned numbers.
Less(a, b) == \E m \in b \ a : \A j \in a \ b : j < m

Outcome(f, w, a, b) ==
  CASE f \in {"and", "test"} -> a \cap b
    [] f = "or"  -> a \cup b
    [] f = "xor" -> Xor(a, b)
    [] f = "add" -> Plus(a, b) \cap Low(w)
    [] f = "not" -> Low(w) \ a
    [] f = "cmp" -> a

Computed(u, o) ==
  LET a == u[o.d] \cap Low(o.w)
      b == Value(u, o.s) \cap Low(o.w)
      x == Outcome(o.what, o.w, a, b)
      f == CASE o.what = "not" -> u[Flags]
             [] o.what = "cmp" -> TestFlags(a = b, Less(a, b))
             [] OTHER          -> TestFlags(x = {}, FALSE)
  IN  [(IF o.what \in {"test", "cmp"} THEN u ELSE Put(u, o.d, o.w, x)) EXCEPT ![Flags] = f]

\* Arithmetic on a register.  Nothing is mapped at the absolute addresses.
Compute ==
  /\ Executing({"and", "or", "xor", "add", "not", "test", "cmp"})
  /\ IF chain[pc].s = Abs
     THEN status' = "fault" /\ UNCHANGED <<v, pc>>
     ELSE v' = Computed(v, chain[pc]) /\ pc' = pc + 1 /\ UNCHANGED status
  /\ UNCHANGED <<below, sp, Program>>

Shifted(u, o) ==
  LET count == o.sz % o.w
      a     == u[o.d] \cap Low(o.w)
      left  == o.what = "shl"
      x     == IF left THEN {j + count : j \in a} \cap Low(o.w)
                       ELSE {j \in Low(o.w) : (j + count) \in a}
      out   == (IF left THEN o.w - count ELSE count - 1) \in a
  IN  [Put(u, o.d, o.w, x) EXCEPT ![Flags] = IF count = 0 THEN @ ELSE TestFlags(x = {}, out)]

ShiftStep ==
  /\ Executing({"shl", "shr"})
  /\ v' = Shifted(v, chain[pc])
  /\ pc' = pc + 1
  /\ UNCHANGED <<below, sp, status, Program>>

PushStep ==
  /\ Executing({"push"})
  /\ sp' = sp + 1
  /\ below' = [below EXCEPT ![sp + 1] = v[chain[pc].s]]
  /\ pc' = pc + 1
  /\ UNCHANGED <<v, status, Program>>

PopStep ==
  /\ Executing({"pop"})
  /\ sp' = sp - 1
  /\ v' = [v EXCEPT ![chain[pc].d] = below[sp]]
  /\ pc' = pc + 1
  /\ UNCHANGED <<below, status, Program>>

JumpStep ==
  /\ Executing({"jz", "jmp"})
  /\ pc' = IF chain[pc].what = "jmp" \/ ZF \in v[Flags] THEN chain[pc].sz ELSE pc + 1
  /\ UNCHANGED <<v, below, sp, status, Program>>

Carried(u, o) == [u EXCEPT ![Flags] = IF o.what = "stc" THEN @ \cup {CF} ELSE @ \ {CF}]

CarryStep ==
  /\ Executing({"clc", "stc"})
  /\ v' = Carried(v, chain[pc])
  /\ pc' = pc + 1
  /\ UNCHANGED <<below, sp, status, Program>>

\* An original left in the block reads and writes the masks of the processor,
\* which nothing else uses; the tests set the flags from them.  A processor
\* without AVX-512 does not execute it.
NativeStep ==
  /\ Executing({"native"})
  /\ IF avx512
     THEN /\ \E f \in IF WritesFlags(instr) THEN SUBSET {CF, ZF} ELSE {v[Flags]} :
               v' = [v EXCEPT ![Flags] = f]
          /\ pc' = pc + 1
          /\ UNCHANGED status
     ELSE status' = "fault" /\ UNCHANGED <<v, pc>>
  /\ UNCHANGED <<below, sp, Program>>

Retire ==
  /\ status = "run" /\ pc = Len(chain) + 1
  /\ status' = "app"
  /\ UNCHANGED <<v, below, sp, pc, Program>>

Ended ==
  /\ status \in {"fault", "crash"} \/ (status = "app" /\ n = MaxInstrs)
  /\ UNCHANGED vars

Next ==
  \/ status = "app" /\ n < MaxInstrs /\ \E i \in IF n = 0 THEN First ELSE Later : Fetch(i)
  \/ Move \/ Compute \/ ShiftStep \/ PushStep \/ PopStep \/ JumpStep \/ CarryStep
  \/ NativeStep \/ Retire \/ Ended

Spec == Init /\ [][Next]_vars

-----------------------------------------------------------------------------
\* guide.md: "Ensure the rewritten instruction produces the same results as the
\* original".  Between instructions the application finds in k_regs and in the
\* processor what AVX-512 would have left there: in every general-purpose
\* register and in its stack pointer, in the flags while they are live, and in
\* each mask up to the width it was last written with; and no chain faults or
\* fails to be built.
MaskAgrees ==
  /\ status \notin {"fault", "crash"}
  /\ status = "app" =>
       /\ sp = 0
       /\ \A r \in Gprs : v[R(r)] = isa[R(r)]
       /\ live => v[Flags] = isa[Flags]
       /\ \A k \in KRegs : v[K(k)] \cap Low(trusted[k]) = isa[K(k)] \cap Low(trusted[k])

\* A chain leaves nothing of its scratch register in a mask: above the width of
\* the instruction the destination is zero or as it was, whatever the 64-bit
\* arithmetic of the chain has in the upper bits of rax.
NoScratchLeak ==
  status = "app" =>
    \A k \in KRegs : v[K(k)] \ Low(trusted[k]) \in {{}, before[K(k)] \ Low(trusted[k])}

\* A signal may interrupt a chain anywhere.  At each of its instructions every
\* register of the application that the instruction does not write, and the
\* flags where the chain preserves them, still exist: in place, pushed above
\* the stack pointer, or in a TLS slot.
MaskRecoverable ==
  status = "run" =>
    \A l \in AppLocs :
      \/ IsK(l) \/ l = instr.dst
      \/ l = Flags /\ (WritesFlags(instr) \/ ClobbersFlags(instr))
      \/ before[l] \in {v[l]} \cup {below[j] : j \in 1 .. sp} \cup {v[s] : s \in Slots}

\* rewrite.c:44299 and the comments of the other narrow instructions:
\* "DEST[MAX_KL-1:16] := 0".  Masks agree in all 64 bits.
UpperCleared == status = "app" => \A k \in KRegs : v[K(k)] = isa[K(k)]

\* transp.dox: "The application stack must look exactly like it does natively."
StackTransparent == below = AppStack
=============================================================================
