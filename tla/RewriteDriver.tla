--------------------------- MODULE RewriteDriver ---------------------------
(***************************************************************************)
(* exec_rewrite_avx512_bb of core/arch/rewrite.c: one pass over the        *)
(* instruction list of a basic block that replaces every AVX-512           *)
(* instruction by the chain its rewrite function returns.                  *)
(*                                                                         *)
(* The list is DynamoRIO's intrusive doubly linked list, and its nodes     *)
(* come from a heap whose free list is last-in first-out: a rewrite        *)
(* function that destroys the original before it creates the replacement   *)
(* gets the same node back.  Freeing a node leaves its links in place.     *)
(*                                                                         *)
(* A block is a sequence of kinds of instructions:                         *)
(*   native   not an AVX-512 instruction                                   *)
(*   early    its function removes and destroys it, then creates a chain   *)
(*   late     its function creates one instruction, then removes it        *)
(*   kept     its function creates a chain and leaves it in the list       *)
(*   null     its function removes and destroys it and returns NULL_INSTR  *)
(*   empty    rw_func_empty                                                *)
(* The trailing need_spill_simd block is left out: nothing sets the flag.  *)
(***************************************************************************)
EXTENDS Integers, Sequences, FiniteSets

CONSTANTS Blocks,     \* the basic blocks to rewrite
          ChainLen,   \* length of the chain an "early" function creates
          MaxNodes    \* size of the heap

Kinds == {"native", "early", "late", "kept", "null", "empty"}

ASSUME DriverAssumption ==
  /\ ChainLen \in Nat \ {0} /\ MaxNodes \in Nat
  /\ \A b \in Blocks : b \in Seq(Kinds) /\ b # <<>> /\ Len(b) * (ChainLen + 1) <= MaxNodes

NULL  == 0
Nodes == 1 .. MaxNodes
NOP   == <<0, 0>>

VARIABLES block,   \* the block being rewritten
          heap,    \* node -> [next, prev, what]: <<i, 0>> is instruction i of the
                   \* block, <<i, k>> the k-th instruction of its replacement
          free,    \* free list of the heap, as a stack
          ilist,   \* [first, last]
          instr, next_instr, prev_avx512_instr, rewritten,   \* locals
          pc       \* "loop", "call", "insert", "done" or "crash"

vars == <<block, heap, free, ilist, instr, next_instr, prev_avx512_instr, rewritten, pc>>

\* A chain of nodes carrying the given instructions.
Chained(h, nodes, what) ==
  [x \in Nodes |->
     IF \E k \in DOMAIN nodes : nodes[k] = x
     THEN LET k == CHOOSE k \in DOMAIN nodes : nodes[k] = x
          IN  [next |-> IF k = Len(nodes) THEN NULL ELSE nodes[k + 1],
               prev |-> IF k = 1 THEN NULL ELSE nodes[k - 1],
               what |-> what[k]]
     ELSE h[x]]

Init ==
  /\ block \in Blocks
  /\ heap = Chained([x \in Nodes |-> [next |-> NULL, prev |-> NULL, what |-> NOP]],
                    [i \in 1 .. Len(block) |-> i], [i \in 1 .. Len(block) |-> <<i, 0>>])
  /\ free = [k \in 1 .. (MaxNodes - Len(block)) |-> Len(block) + k]
  /\ ilist = [first |-> 1, last |-> Len(block)]
  /\ instr = 1
  /\ next_instr = NULL /\ prev_avx512_instr = NULL /\ rewritten = NULL
  /\ pc = "loop"

Kind(x) == block[heap[x].what[1]]
is_avx512_instr(x) == heap[x].what # NOP /\ heap[x].what[2] = 0 /\ Kind(x) # "native"

-----------------------------------------------------------------------------
\* Variant: prev is not maintained.
LinkedForward(h, from, to) ==
  [x \in Nodes |-> [next |-> IF x = from THEN to ELSE h[x].next,
                    prev |-> h[x].prev,
                    what |-> h[x].what]]

\* instrlist_remove: the heap and the list's ends afterwards.
Linked(h, from, to) ==
  [x \in Nodes |-> [next |-> IF x = from THEN to ELSE h[x].next,
                    prev |-> IF x = to THEN from ELSE h[x].prev,
                    what |-> h[x].what]]

Removed(h, x) ==
  LET l == Linked(h, h[x].prev, h[x].next)
  IN  [y \in Nodes |-> [next |-> IF y = x THEN NULL ELSE l[y].next,
                        prev |-> IF y = x THEN NULL ELSE l[y].prev,
                        what |-> l[y].what]]

EndsAfterRemove(ends, h, x) ==
  [first |-> IF h[x].prev = NULL THEN h[x].next ELSE ends.first,
   last  |-> IF h[x].next = NULL THEN h[x].prev ELSE ends.last]

\* Variants: the previous instruction is read after the original was unlinked;
\* a native instruction is not stepped over.
LoopLatePrev ==
  /\ pc = "loop"
  /\ instr # NULL
  /\ next_instr' = heap[instr].next
  /\ IF is_avx512_instr(instr)
     THEN pc' = "call" /\ prev_avx512_instr' = NULL /\ UNCHANGED instr
     ELSE instr' = next_instr' /\ UNCHANGED <<pc, prev_avx512_instr>>
  /\ UNCHANGED <<block, heap, free, ilist, rewritten>>

LoopStuck ==
  /\ pc = "loop"
  /\ instr # NULL
  /\ next_instr' = heap[instr].next
  /\ IF is_avx512_instr(instr)
     THEN pc' = "call" /\ prev_avx512_instr' = heap[instr].prev
     ELSE UNCHANGED <<pc, prev_avx512_instr>>
  /\ UNCHANGED <<block, heap, free, ilist, instr, rewritten>>

\* The loop header, and the part of the body before the call.
Loop ==
  /\ pc = "loop"
  /\ instr # NULL
  /\ next_instr' = heap[instr].next
  /\ IF is_avx512_instr(instr)
     THEN pc' = "call" /\ prev_avx512_instr' = heap[instr].prev /\ UNCHANGED instr
     ELSE instr' = next_instr' /\ UNCHANGED <<pc, prev_avx512_instr>>
  /\ UNCHANGED <<block, heap, free, ilist, rewritten>>

Finish ==
  /\ pc = "loop"
  /\ instr = NULL
  /\ pc' = "done"
  /\ UNCHANGED <<block, heap, free, ilist, instr, next_instr, prev_avx512_instr, rewritten>>

\* Most generators: remove, destroy, create, concatenate.
CallEarly ==
  /\ pc = "call" /\ Kind(instr) = "early"
  /\ LET i     == heap[instr].what[1]
         stack == <<instr>> \o free
         nodes == SubSeq(stack, 1, ChainLen)
     IN  /\ heap' = Chained(Removed(heap, instr), nodes, [k \in 1 .. ChainLen |-> <<i, k>>])
         /\ free' = SubSeq(stack, ChainLen + 1, Len(stack))
         /\ rewritten' = nodes[1]
  /\ ilist' = EndsAfterRemove(ilist, heap, instr)
  /\ pc' = "insert"
  /\ UNCHANGED <<block, instr, next_instr, prev_avx512_instr>>

\* Variants: the original is destroyed twice; it is never destroyed.
CallLateTwice ==
  /\ pc = "call" /\ Kind(instr) = "late"
  /\ heap' = Removed(Chained(heap, <<Head(free)>>, << <<heap[instr].what[1], 1>> >>), instr)
  /\ free' = <<instr, instr>> \o Tail(free)
  /\ rewritten' = Head(free)
  /\ ilist' = EndsAfterRemove(ilist, heap, instr)
  /\ pc' = "insert"
  /\ UNCHANGED <<block, instr, next_instr, prev_avx512_instr>>

CallLateLeak ==
  /\ pc = "call" /\ Kind(instr) = "late"
  /\ heap' = Removed(Chained(heap, <<Head(free)>>, << <<heap[instr].what[1], 1>> >>), instr)
  /\ free' = Tail(free)
  /\ rewritten' = Head(free)
  /\ ilist' = EndsAfterRemove(ilist, heap, instr)
  /\ pc' = "insert"
  /\ UNCHANGED <<block, instr, next_instr, prev_avx512_instr>>

\* Single-instruction replacements that are created first.
CallLate ==
  /\ pc = "call" /\ Kind(instr) = "late"
  /\ heap' = Removed(Chained(heap, <<Head(free)>>, << <<heap[instr].what[1], 1>> >>), instr)
  /\ free' = <<instr>> \o Tail(free)
  /\ rewritten' = Head(free)
  /\ ilist' = EndsAfterRemove(ilist, heap, instr)
  /\ pc' = "insert"
  /\ UNCHANGED <<block, instr, next_instr, prev_avx512_instr>>

\* Variant: the chain is returned by its last instruction.
CallKeptLast ==
  /\ pc = "call" /\ Kind(instr) = "kept"
  /\ LET nodes == SubSeq(free, 1, ChainLen)
     IN  /\ heap' = Chained(heap, nodes, [k \in 1 .. ChainLen |-> <<heap[instr].what[1], k>>])
         /\ rewritten' = nodes[ChainLen]
  /\ free' = SubSeq(free, ChainLen + 1, Len(free))
  /\ pc' = "insert"
  /\ UNCHANGED <<block, ilist, instr, next_instr, prev_avx512_instr>>

\* Many mask instructions: no call of instrlist_remove.
CallKept ==
  /\ pc = "call" /\ Kind(instr) = "kept"
  /\ LET nodes == SubSeq(free, 1, ChainLen)
     IN  /\ heap' = Chained(heap, nodes, [k \in 1 .. ChainLen |-> <<heap[instr].what[1], k>>])
         /\ rewritten' = nodes[1]
  /\ free' = SubSeq(free, ChainLen + 1, Len(free))
  /\ pc' = "insert"
  /\ UNCHANGED <<block, ilist, instr, next_instr, prev_avx512_instr>>

\* A generator without code for the operand combination.
CallNull ==
  /\ pc = "call" /\ Kind(instr) = "null"
  /\ heap' = Removed(heap, instr)
  /\ free' = <<instr>> \o free
  /\ rewritten' = NULL
  /\ ilist' = EndsAfterRemove(ilist, heap, instr)
  /\ pc' = "insert"
  /\ UNCHANGED <<block, instr, next_instr, prev_avx512_instr>>

\* Variant: the original, still in the list, is returned.
CallEmptyOriginal ==
  /\ pc = "call" /\ Kind(instr) = "empty"
  /\ rewritten' = instr
  /\ pc' = "insert"
  /\ UNCHANGED <<block, heap, free, ilist, instr, next_instr, prev_avx512_instr>>

\* rw_func_empty creates a nop, destroys it and returns it.
CallEmpty ==
  /\ pc = "call" /\ Kind(instr) = "empty"
  /\ heap' = Chained(heap, <<Head(free)>>, <<NOP>>)
  /\ rewritten' = Head(free)
  /\ pc' = "insert"
  /\ UNCHANGED <<block, free, ilist, instr, next_instr, prev_avx512_instr>>

\* The last node of the chain that starts at x.
Bottom(h, x) ==
  LET walk[k \in 0 .. MaxNodes] ==
        IF k = 0 THEN x
        ELSE LET y == walk[k - 1] IN IF h[y].next = NULL THEN y ELSE h[y].next
  IN  walk[MaxNodes]

\* instrlist_postinsert(ilist, prev_avx512_instr, rewritten), which prepends
\* when there is no previous instruction; both read the chain's links first.
Insert ==
  /\ pc = "insert"
  /\ IF rewritten = NULL
     THEN pc' = "crash" /\ UNCHANGED <<heap, ilist, instr>>
     ELSE LET where     == prev_avx512_instr
              wherenext == IF where = NULL THEN ilist.first ELSE heap[where].next
              bot       == Bottom(heap, rewritten)
          IN  /\ heap' = Linked(Linked(heap, where, rewritten), bot, wherenext)
              /\ ilist' = [first |-> IF where = NULL THEN rewritten ELSE ilist.first,
                           last  |-> IF wherenext = NULL THEN bot ELSE ilist.last]
              /\ instr' = next_instr
              /\ pc' = "loop"
  /\ UNCHANGED <<block, free, next_instr, prev_avx512_instr, rewritten>>

Stopped == pc \in {"done", "crash"} /\ UNCHANGED vars

Next ==
  \/ Loop \/ Finish \/ CallEarly \/ CallLate \/ CallKept \/ CallNull \/ CallEmpty
  \/ Insert \/ Stopped

\* The builder runs the loop to its end.
Spec == Init /\ [][Next]_vars /\ WF_vars(Next)

-----------------------------------------------------------------------------
Instrs == {<<i, k>> : i \in 0 .. MaxNodes, k \in 0 .. ChainLen}

\* Type invariant.  The free list never runs out and holds no node twice.
TypeOK ==
  /\ block \in Blocks
  /\ heap \in [Nodes -> [next : Nodes \cup {NULL}, prev : Nodes \cup {NULL}, what : Instrs]]
  /\ \A k \in DOMAIN free : free[k] \in Nodes /\ \A j \in 1 .. (k - 1) : free[j] # free[k]
  /\ ilist \in [first : Nodes \cup {NULL}, last : Nodes \cup {NULL}]
  /\ {instr, next_instr, prev_avx512_instr, rewritten} \subseteq Nodes \cup {NULL}
  /\ pc \in {"loop", "call", "insert", "done", "crash"}

\* The nodes of the list, from the first on.
Listed ==
  LET walk[k \in 0 .. MaxNodes] ==
        IF k = 0 THEN IF ilist.first = NULL THEN <<>> ELSE <<ilist.first>>
        ELSE LET before == walk[k - 1]
                 n == IF before = <<>> THEN NULL ELSE heap[before[Len(before)]].next
             IN  IF n = NULL THEN before ELSE Append(before, n)
  IN  walk[MaxNodes]

AtRest == pc \in {"loop", "done"}

\* instr_destroy: "assumes that instr is not part of any instrlist".  Between
\* iterations every node is either in the list, once, or on the free list,
\* once: replacements are live, removed originals are freed, nothing is freed twice and
\* nothing is lost, although the allocator hands freed nodes straight back.
HeapPartition ==
  AtRest =>
    LET all == Listed \o free
    IN  Len(all) = MaxNodes /\ {all[k] : k \in DOMAIN all} = Nodes

\* Between iterations the prev links mirror the next links and the list's ends
\* are its first and last node, so that the next removal and insertion, which
\* go by prev, act on the right place.
LinksConsistent ==
  AtRest =>
    LET list == Listed
        n    == Len(list)
    IN  /\ ilist.last = IF n = 0 THEN NULL ELSE list[n]
        /\ \A k \in 1 .. n : heap[list[k]].prev = IF k = 1 THEN NULL ELSE list[k - 1]

Replacement(i) ==
  CASE block[i] = "native" -> << <<i, 0>> >>
    [] block[i] = "early"  -> [k \in 1 .. ChainLen |-> <<i, k>>]
    [] block[i] = "late"   -> << <<i, 1>> >>
    [] block[i] = "kept"   -> [k \in 1 .. ChainLen |-> <<i, k>>] \o << <<i, 0>> >>
    [] block[i] = "null"   -> <<>>
    [] block[i] = "empty"  -> << NOP, <<i, 0>> >>

\* The block with its first n instructions rewritten.
Rewritten(n) ==
  LET part[i \in 0 .. Len(block)] ==
        IF i = 0 THEN <<>>
        ELSE part[i - 1] \o (IF i <= n THEN Replacement(i) ELSE << <<i, 0>> >>)
  IN  part[Len(block)]

\* guide.md: "Return the first instruction in the replacement sequence".  The
\* whole chain lands where its original was: between iterations the list is the
\* block in program order, rewritten up to the cursor and untouched after it;
\* no instruction is skipped, rewritten twice, duplicated or lost.
InProgramOrder ==
  AtRest =>
    LET list == Listed
    IN  [k \in DOMAIN list |-> heap[list[k]].what]
          = Rewritten(IF instr = NULL THEN Len(block) ELSE heap[instr].what[1] - 1)

\* The same for the blocks in which no instruction is handled by rw_func_empty,
\* whose nop is free and listed at once.
NothingLost == (\A i \in DOMAIN block : block[i] # "empty") => HeapPartition

\* The loop of exec_rewrite_avx512_bb ends, and it ends by finishing the block,
\* unless a function returns NULL_INSTR.
Finishes == (\A i \in DOMAIN block : block[i] # "null") => <>(pc = "done")

\* README.md: "Run unmodified AVX-512 binaries".  The rewriter does not pass the
\* NULL_INSTR of a function on to instrlist_postinsert, which dereferences it.
NeverCrashes == pc # "crash"
=============================================================================
