---------------------------- MODULE RewriteExec ----------------------------
(***************************************************************************)
(* One application thread executing rewritten code: the sequences of       *)
(* RewriteFuncs and RewriteMoves, instruction by instruction, on an AVX2   *)
(* processor and the thread's spill_state_t.                               *)
(*                                                                         *)
(* Register r of the application is, for r < 16, the processor's ymm r     *)
(* (lanes 0..1) with the upper half of TLS slot r (lanes 2..3), and for    *)
(* r >= 16 the whole of TLS slot r.  The low half of slots 0..15 is        *)
(* scratch space.                                                          *)
(*                                                                         *)
(* arch and saved are history variables: the application's registers as of *)
(* the last instruction boundary, and the scratch registers on loan.       *)
(***************************************************************************)
EXTENDS RewriteMoves

CONSTANTS LowRegs,      \* the registers below 16 in play
          HighRegs,     \* the registers above 15 in play
          Programs,     \* the programs to run: [obs, instrs], the lanes to compare
                        \* with the instruction set and the instructions to execute
          NoInstr,      \* no instruction in flight
          Value,        \* contents of a lane
          Op(_, _),     \* the term an operation builds from its argument lanes
          Zero,         \* a cleared lane
          Initial(_, _, _)   \* initial contents: place, operand, lane

ASSUME RegsAssumption == /\ LowRegs \subseteq 0 .. 15 /\ HighRegs \subseteq 16 .. 31
                         /\ Slots \subseteq LowRegs
                         /\ \A p \in Programs : p.obs \in {{0}, 0 .. 1, 0 .. 3}

VARIABLES hw,      \* the processor's registers, lanes 0..1
          tls,     \* spill_state_t.zmm_regs, lanes 0..3
          ext,     \* gpr, flags and memory operands, lanes 0..3
          code,    \* what is left of the running sequence
          cur,     \* the application instruction it replaces
          arch, saved,
          todo,    \* application instructions still to run
          obs      \* the lanes compared, fixed by the program

vars == <<hw, tls, ext, code, cur, arch, saved, todo, obs>>

VecRegs  == LowRegs \cup HighRegs
ExtOpnds == {GPR, FLAGS, MEM, REL}
Opnds    == VecRegs \cup ExtOpnds
NativeOps == {"avx2"}
Instrs    == UNION {{p.instrs[k] : k \in DOMAIN p.instrs} : p \in Programs}

\* The application's view of its registers.
Logical == [o \in Opnds |-> [lane \in 0 .. 3 |->
              CASE o \in ExtOpnds -> ext[o][lane]
                [] o \in LowRegs /\ lane < 2 -> hw[o][lane]
                [] OTHER -> tls[o][lane]]]

Init ==
  /\ hw  = [r \in LowRegs |-> [lane \in 0 .. 1 |-> Initial("hw", r, lane)]]
  /\ tls = [r \in VecRegs |-> [lane \in 0 .. 3 |-> Initial("tls", r, lane)]]
  /\ ext = [o \in ExtOpnds |-> [lane \in 0 .. 3 |-> Initial("ext", o, lane)]]
  /\ code = <<>>
  /\ cur = NoInstr
  /\ arch = Logical
  /\ saved = {}
  /\ \E p \in Programs : obs = p.obs /\ todo = p.instrs

-----------------------------------------------------------------------------
\* The sequence that stands for an instruction in the code cache.
Rewrite(instr) ==
  IF instr.op \in NativeOps THEN <<Vex(instr.op, instr.dst, instr.srcs, instr.w)>>
  ELSE exec_rewrite_avx512_instr(instr)

\* Control reaches an instruction.  One without a rewriting never gets here.
Fetch ==
  /\ cur = NoInstr
  /\ todo # <<>>
  /\ Rewrite(Head(todo)) # NULL_INSTR
  /\ cur' = Head(todo)
  /\ code' = Rewrite(Head(todo))
  /\ todo' = Tail(todo)
  /\ UNCHANGED <<hw, tls, ext, arch, saved, obs>>

\* A register VEX can name, a slot of zmm_regs, a 128- or 256-bit operation.
HwReg(r) == r \in LowRegs
Width(n) == n \in {1, 2}

EncodableInstr(m) ==
  CASE m.t = "vex" -> /\ HwReg(m.dst) \/ m.dst \in {GPR, FLAGS}
                      /\ \A k \in DOMAIN m.srcs : HwReg(m.srcs[k])
                      /\ Width(m.n)
    [] m.t \in {"save", "restore"} -> HwReg(m.reg) /\ m.slot \in VecRegs /\ Width(m.n)
    [] OTHER -> HwReg(m.reg) /\ Width(m.n)

Step(type) ==
  /\ code # <<>>
  /\ Head(code).t = type
  /\ EncodableInstr(Head(code))
  /\ code' = Tail(code)
  /\ UNCHANGED <<cur, arch, todo, obs>>

\* A 128-bit VEX write clears the lane above.
Narrowed(lanes, n) == [lane \in 0 .. 1 |-> IF lane < n THEN lanes[lane] ELSE Zero]

\* lanes with its lanes half*2 .. half*2 + n - 1 replaced.
Patched(lanes, half, n, new) ==
  [lane \in 0 .. 3 |-> IF lane - 2 * half \in 0 .. (n - 1) THEN new[lane - 2 * half]
                                                           ELSE lanes[lane]]

SaveStep ==
  /\ Step("save")
  /\ LET m == Head(code) IN
       /\ tls' = [tls EXCEPT ![m.slot] = Patched(@, m.half, m.n, hw[m.reg])]
       /\ saved' = IF m.slot = m.reg /\ m.half = 0 /\ m.reg # cur.dst
                   THEN saved \cup {m.reg} ELSE saved
  /\ UNCHANGED <<hw, ext>>

RestoreStep ==
  /\ Step("restore")
  /\ LET m == Head(code) IN
       /\ hw' = [hw EXCEPT ![m.reg] =
                   Narrowed([lane \in 0 .. 1 |-> tls[m.slot][2 * m.half + lane]], m.n)]
       /\ saved' = IF m.slot = m.reg /\ m.half = 0 THEN saved \ {m.reg} ELSE saved
  /\ UNCHANGED <<tls, ext>>

VexStep ==
  /\ Step("vex")
  /\ LET m == Head(code)
         Lane(lane) == LET args == [k \in DOMAIN m.srcs |-> hw[m.srcs[k]][lane]]
                       IN  IF m.op = "mov" THEN args[1] ELSE Op(m.op, args)
     IN  IF m.dst \in ExtOpnds
         THEN ext' = [ext EXCEPT ![m.dst][0] = Lane(0)] /\ UNCHANGED hw
         ELSE /\ hw' = [hw EXCEPT ![m.dst] = Narrowed([lane \in 0 .. 1 |-> Lane(lane)], m.n)]
              /\ UNCHANGED ext
  /\ UNCHANGED <<tls, saved>>

StoreStep ==
  /\ Step("store")
  /\ LET m == Head(code) IN ext' = [ext EXCEPT ![m.mem] = Patched(@, m.half, m.n, hw[m.reg])]
  /\ UNCHANGED <<hw, tls, saved>>

LoadStep ==
  /\ Step("load")
  /\ LET m == Head(code) IN
       hw' = [hw EXCEPT ![m.reg] =
                Narrowed([lane \in 0 .. 1 |-> ext[m.mem][2 * m.half + lane]], m.n)]
  /\ UNCHANGED <<tls, ext, saved>>

\* The sequence is through; the next application instruction may follow.
Retire ==
  /\ cur # NoInstr
  /\ code = <<>>
  /\ cur' = NoInstr
  /\ arch' = Logical
  /\ UNCHANGED <<hw, tls, ext, code, saved, todo, obs>>

\* The application has run its instructions, or the next has no rewriting.
Done ==
  /\ cur = NoInstr
  /\ todo # <<>> => Rewrite(Head(todo)) = NULL_INSTR
  /\ UNCHANGED vars

Next ==
  \/ Fetch
  \/ SaveStep \/ RestoreStep \/ VexStep \/ StoreStep \/ LoadStep
  \/ Retire
  \/ Done

\* The processor keeps executing.
Spec == Init /\ [][Next]_vars /\ WF_vars(Next)

-----------------------------------------------------------------------------
\* Type invariant.  Only pool registers other than the destination are ever on
\* loan, and none is on loan between application instructions.
TypeOK ==
  /\ hw \in [LowRegs -> [0 .. 1 -> Value]]
  /\ tls \in [VecRegs -> [0 .. 3 -> Value]]
  /\ ext \in [ExtOpnds -> [0 .. 3 -> Value]]
  /\ arch \in [Opnds -> [0 .. 3 -> Value]]
  /\ cur \in Instrs \cup {NoInstr}
  /\ saved \subseteq Slots
  /\ \A k \in DOMAIN todo : todo[k] \in Instrs
  /\ obs \in {{0}, 0 .. 1, 0 .. 3}
  /\ IF cur = NoInstr THEN code = <<>> /\ saved = {} ELSE cur.dst \notin saved

\* Everything a generator emits runs on an AVX2 processor: it names registers
\* 0..15 (in particular not DR_REG_NULL, the selectors' answer when the pool is
\* exhausted, and no mask register), stays within zmm_regs and is at most 256 bits
\* wide.
Encodable == \A k \in DOMAIN code : EncodableInstr(code[k])

\* README.md: "translation to semantically equivalent sequences".  On the lanes
\* observed, the registers, memory and flags the application finds after each
\* rewritten sequence are those the AVX-512 instruction would have left.
Isa == INSTANCE Avx512Isa
         WITH arch <- [o \in Opnds |-> [lane \in obs |-> arch[o][lane]]]
ImplementsIsa == Isa!Spec

\* guide.md: "Always restore spilled registers to maintain state consistency".
\* Every step of every sequence is a step of the spill discipline, so the
\* theorems about it (SpillDiscipline_proof) hold of the emitted code: at each
\* instruction every register but the destination is recoverable.
LowLanes(lanes)  == [lane \in obs \cap 0 .. 1 |-> lanes[lane]]
HighLanes(lanes) == [lane \in obs \cap 2 .. 3 |-> lanes[lane]]
Halves == [{} -> Value] \cup [{0} -> Value] \cup [0 .. 1 -> Value] \cup [2 .. 3 -> Value]

\* The running sequence writes no vector register; no sequence is running.
NoVecDst == 200
Boundary == 201

Discipline == INSTANCE SpillDiscipline
                WITH SpillRegs <- Slots, Value <- Halves,
                     NoDest <- NoVecDst, Idle <- Boundary,
                     hw <- [r \in LowRegs |-> LowLanes(hw[r])],
                     lo <- [r \in VecRegs |-> LowLanes(tls[r])],
                     hi <- [r \in VecRegs |-> HighLanes(tls[r])],
                     applo <- [r \in VecRegs |-> LowLanes(arch[r])],
                     apphi <- [r \in VecRegs |-> HighLanes(arch[r])],
                     dst <- IF cur = NoInstr THEN Boundary
                            ELSE IF cur.dst \in VecRegs THEN cur.dst ELSE NoVecDst
FollowsDiscipline == Discipline!Spec
=============================================================================
