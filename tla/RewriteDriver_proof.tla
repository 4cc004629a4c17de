------------------------ MODULE RewriteDriver_proof ------------------------
(***************************************************************************)
(* exec_rewrite_avx512_bb for every block without an instruction of        *)
(* rw_func_empty, every chain length and every heap that has room for the  *)
(* rewritten block.                                                        *)
(*                                                                         *)
(* The list is a picture of a sequence of nodes.  First come the effects   *)
(* of instrlist_remove, instrlist_postinsert and the concatenation of a    *)
(* chain on such a picture, and of the walks along it; then the inductive  *)
(* invariant: between iterations the sequence is a part that is done and a *)
(* part that starts at the cursor, and after a rewrite function its chain  *)
(* is a third part, apart from them.  Each action moves nodes from one     *)
(* part, or from the free list, to another.                                *)
(***************************************************************************)
EXTENDS RewriteDriver, WellFoundedInduction, TLAPS

\* A nonempty set of naturals has a least element.
LEMMA LeastNatural ==
  ASSUME NEW T, T \subseteq Nat, T # {}
  PROVE  \E x \in T : \A y \in T : x <= y
<1> DEFINE Less == OpToRel(<, Nat)
<1>1. IsWellFoundedOn(Less, Nat)
  BY NatLessThanWellFounded, Zenon
<1> HIDE DEF Less
<1>2. PICK x \in T : \A y \in T : ~ (<<y, x>> \in Less)
  BY <1>1, WFMin, Zenon
<1>3. \A y \in T : ~ (y < x)
  BY <1>2, Zenon DEF Less, OpToRel
<1> QED
  BY <1>3

\* Sequences of the same length that agree at every index are equal.
LEMMA SameElements ==
  ASSUME NEW S, NEW s \in Seq(S), NEW t \in Seq(S),
         Len(s) = Len(t), \A k \in 1 .. Len(s) : s[k] = t[k]
  PROVE  s = t
OBVIOUS

\* Type, length and elements of a concatenation.
LEMMA JoinElements ==
  ASSUME NEW S, NEW a \in Seq(S), NEW b \in Seq(S)
  PROVE  /\ a \o b \in Seq(S) /\ Len(a \o b) = Len(a) + Len(b)
         /\ \A k \in 1 .. Len(a) + Len(b) :
              (a \o b)[k] = IF k <= Len(a) THEN a[k] ELSE b[k - Len(a)]
OBVIOUS

\* The empty sequence adds nothing, on either side.
LEMMA JoinEmpty ==
  ASSUME NEW S, NEW a \in Seq(S)
  PROVE  a \o <<>> = a /\ <<>> \o a = a
OBVIOUS

\* Concatenation in any grouping.
LEMMA JoinAssociates ==
  ASSUME NEW S, NEW a \in Seq(S), NEW b \in Seq(S), NEW c \in Seq(S)
  PROVE  (a \o b) \o c = a \o (b \o c)
<1> DEFINE u == (a \o b) \o c
           v == a \o (b \o c)
<1>1. u \in Seq(S) /\ v \in Seq(S) /\ Len(u) = Len(v)
  OBVIOUS
<1>2. ASSUME NEW k \in 1 .. Len(u) PROVE u[k] = v[k]
  OBVIOUS
<1> HIDE DEF u, v
<1>3. u = v
  BY <1>1, <1>2, SameElements, Zenon
<1> QED BY <1>3, Zenon DEF u, v

\* NULL is no node.
LEMMA NullNoNode == NULL \notin Nodes
BY DriverAssumption DEF NULL, Nodes

Heaps == [Nodes -> [next : Nodes \cup {NULL}, prev : Nodes \cup {NULL}, what : Instrs]]

\* No node twice, and no node in both.
Distinct(s) == \A j, k \in 1 .. Len(s) : s[j] = s[k] => j = k
Apart(s, t) == \A j \in 1 .. Len(s), k \in 1 .. Len(t) : s[j] # t[k]

\* The links of the nodes s in the heap h are those of a list of its own.
LinkedUp(h, s) ==
  \A k \in 1 .. Len(s) :
    /\ h[s[k]].prev = IF k = 1 THEN NULL ELSE s[k - 1]
    /\ h[s[k]].next = IF k = Len(s) THEN NULL ELSE s[k + 1]

EndsOf(s) ==
  [first |-> IF Len(s) = 0 THEN NULL ELSE s[1], last |-> IF Len(s) = 0 THEN NULL ELSE s[Len(s)]]

\* The sequence s with the d elements after position q replaced by c.
Splice(s, q, d, c) ==
  [k \in 1 .. (Len(s) - d + Len(c)) |->
     IF k <= q THEN s[k] ELSE IF k <= q + Len(c) THEN c[k - q] ELSE s[k - Len(c) + d]]

\* Its type and length.
LEMMA SpliceType ==
  ASSUME NEW S, NEW s \in Seq(S), NEW c \in Seq(S), NEW q \in Nat, NEW d \in Nat, q + d <= Len(s)
  PROVE  /\ Splice(s, q, d, c) \in Seq(S)
         /\ Len(Splice(s, q, d, c)) = Len(s) - d + Len(c)
<1> DEFINE n == Len(s) - d + Len(c)
<1>1. n \in Nat /\ Len(s) \in Nat /\ Len(c) \in Nat
  OBVIOUS
<1>2. \A k \in 1 .. n : Splice(s, q, d, c)[k] \in S
  BY <1>1 DEF Splice
<1>3. Splice(s, q, d, c) \in [1 .. n -> S]
  BY <1>2, Zenon DEF Splice
<1> HIDE DEF n
<1>4. Splice(s, q, d, c) \in Seq(S) /\ Len(Splice(s, q, d, c)) = n
  BY <1>1, <1>3
<1> QED
  BY <1>4, Zenon DEF n

-----------------------------------------------------------------------------
\* instrlist_remove: the list without its p-th node, which is left alone.
LEMMA RemoveLinks ==
  ASSUME NEW h \in Heaps, NEW s \in Seq(Nodes), Distinct(s), LinkedUp(h, s), NEW p \in 1 .. Len(s)
  PROVE  /\ Removed(h, s[p]) \in Heaps
         /\ LinkedUp(Removed(h, s[p]), Splice(s, p - 1, 1, <<>>))
         /\ EndsAfterRemove(EndsOf(s), h, s[p]) = EndsOf(Splice(s, p - 1, 1, <<>>))
         /\ \A y \in Nodes : Removed(h, s[p])[y].what = h[y].what
         /\ \A y \in Nodes : (\A k \in 1 .. Len(s) : s[k] # y) => Removed(h, s[p])[y] = h[y]
<1> DEFINE x == s[p]
           n == Len(s)
           r == Splice(s, p - 1, 1, <<>>)
           b == IF p = 1 THEN NULL ELSE s[p - 1]
           a == IF p = n THEN NULL ELSE s[p + 1]
           g == Removed(h, x)
<1>1. n \in Nat /\ p \in 1 .. n /\ \A k \in 1 .. n : s[k] \in Nodes
  OBVIOUS
<1>2. h[x].prev = b /\ h[x].next = a
  BY Zenon DEF LinkedUp
<1>3. b \in Nodes \cup {NULL} /\ a \in Nodes \cup {NULL} /\ b # x /\ a # x
  BY <1>1, NullNoNode DEF Distinct
<1>4. \A y \in Nodes :
        /\ h[y] \in [next : Nodes \cup {NULL}, prev : Nodes \cup {NULL}, what : Instrs]
        /\ h[y].next \in Nodes \cup {NULL} /\ h[y].prev \in Nodes \cup {NULL}
        /\ h[y].what \in Instrs
        /\ h[y] = [next |-> h[y].next, prev |-> h[y].prev, what |-> h[y].what]
  BY Zenon DEF Heaps
<1>5. /\ g \in Heaps
      /\ \A y \in Nodes :
           /\ g[y].next = IF y = x THEN NULL ELSE IF y = b THEN a ELSE h[y].next
           /\ g[y].prev = IF y = x THEN NULL ELSE IF y = a THEN b ELSE h[y].prev
           /\ g[y].what = h[y].what
  <2> HIDE DEF x, a, b
  <2> QED BY <1>2, <1>3, <1>4, Zenon DEF Removed, Linked, Heaps
<1>6. Len(r) = n - 1 /\ \A k \in 1 .. (n - 1) : r[k] = IF k < p THEN s[k] ELSE s[k + 1]
  BY <1>1 DEF Splice
<1> HIDE DEF g
<1>7. g \in Heaps
  BY <1>5, Zenon
<1>8. LinkedUp(g, r)
  <2> SUFFICES ASSUME NEW k \in 1 .. (n - 1)
               PROVE  /\ g[r[k]].prev = IF k = 1 THEN NULL ELSE r[k - 1]
                      /\ g[r[k]].next = IF k = n - 1 THEN NULL ELSE r[k + 1]
    BY <1>6 DEF LinkedUp
  <2> DEFINE j == IF k < p THEN k ELSE k + 1
  <2>1. /\ j \in 1 .. n /\ j # p /\ r[k] = s[j]
        /\ h[s[j]].prev = (IF j = 1 THEN NULL ELSE s[j - 1])
        /\ h[s[j]].next = (IF j = n THEN NULL ELSE s[j + 1])
    BY <1>1, <1>6, SMTT(30) DEF LinkedUp
  <2>2. s[j] # x /\ (s[j] = b <=> j = p - 1) /\ (s[j] = a <=> j = p + 1)
    BY <1>1, <2>1, NullNoNode DEF Distinct
  <2>3. g[r[k]].prev = IF k = 1 THEN NULL ELSE r[k - 1]
    BY <1>1, <1>5, <1>6, <2>1, <2>2, SMTT(30)
  <2>4. g[r[k]].next = IF k = n - 1 THEN NULL ELSE r[k + 1]
    BY <1>1, <1>5, <1>6, <2>1, <2>2, SMTT(30)
  <2> QED BY <2>3, <2>4, Zenon
<1>9. EndsAfterRemove(EndsOf(s), h, x) = EndsOf(r)
  BY <1>1, <1>2, <1>6, NullNoNode DEF EndsAfterRemove, EndsOf
<1>10. \A y \in Nodes : (\A k \in 1 .. n : s[k] # y) => g[y] = h[y]
  <2> SUFFICES ASSUME NEW y \in Nodes, \A k \in 1 .. n : s[k] # y PROVE g[y] = h[y]
    BY Zenon
  <2>1. y # x /\ y # a /\ y # b
    BY <1>1, NullNoNode
  <2>2. g[y].next = h[y].next /\ g[y].prev = h[y].prev /\ g[y].what = h[y].what
    BY <1>5, <2>1, Zenon
  <2>3. g[y] = [next |-> g[y].next, prev |-> g[y].prev, what |-> g[y].what]
    BY <1>5, Zenon DEF Heaps
  <2> QED BY <1>4, <2>2, <2>3, Zenon
<1>11. \A y \in Nodes : g[y].what = h[y].what
  BY <1>5, Zenon
<1> QED
  BY <1>7, <1>8, <1>9, <1>10, <1>11, Zenon DEF g

\* instrlist_postinsert and instrlist_prepend: the chain c after the q-th node.
LEMMA InsertLinks ==
  ASSUME NEW h \in Heaps, NEW s \in Seq(Nodes), NEW c \in Seq(Nodes), NEW q \in 0 .. Len(s),
         Len(c) > 0, Distinct(s), Distinct(c), Apart(s, c), LinkedUp(h, s), LinkedUp(h, c)
  PROVE  LET where == IF q = 0 THEN NULL ELSE s[q]
             next  == IF q = Len(s) THEN NULL ELSE s[q + 1]
             bot   == c[Len(c)]
             g     == Linked(Linked(h, where, c[1]), bot, next)
             r     == Splice(s, q, 0, c)
         IN  /\ g \in Heaps
             /\ Distinct(r) /\ LinkedUp(g, r)
             /\ [first |-> IF where = NULL THEN c[1] ELSE EndsOf(s).first,
                 last  |-> IF next = NULL THEN bot ELSE EndsOf(s).last] = EndsOf(r)
             /\ \A y \in Nodes : g[y].what = h[y].what
<1> DEFINE n == Len(s)
           m == Len(c)
           where == IF q = 0 THEN NULL ELSE s[q]
           next  == IF q = n THEN NULL ELSE s[q + 1]
           top   == c[1]
           bot   == c[m]
           g     == Linked(Linked(h, where, top), bot, next)
           r     == Splice(s, q, 0, c)
<1>1. /\ n \in Nat /\ m \in Nat /\ m > 0 /\ q \in 0 .. n
      /\ \A k \in 1 .. n : s[k] \in Nodes
      /\ \A k \in 1 .. m : c[k] \in Nodes
  OBVIOUS
<1>2. \A y \in Nodes : /\ h[y].next \in Nodes \cup {NULL} /\ h[y].prev \in Nodes \cup {NULL}
                       /\ h[y].what \in Instrs
  BY Zenon DEF Heaps
<1>3. /\ where \in Nodes \cup {NULL} /\ next \in Nodes \cup {NULL}
      /\ top \in Nodes /\ bot \in Nodes /\ top # where /\ top # next /\ bot # where /\ bot # next
  BY <1>1, NullNoNode DEF Apart
<1>4. /\ g \in Heaps
      /\ \A y \in Nodes :
           /\ g[y].next = IF y = bot THEN next ELSE IF y = where THEN top ELSE h[y].next
           /\ g[y].prev = IF y = next THEN bot ELSE IF y = top THEN where ELSE h[y].prev
           /\ g[y].what = h[y].what
  <2> HIDE DEF where, next, top, bot
  <2> QED BY <1>2, <1>3, Zenon DEF Linked, Heaps
<1>5. /\ Len(r) = n + m
      /\ \A k \in 1 .. (n + m) :
           r[k] = IF k <= q THEN s[k] ELSE IF k <= q + m THEN c[k - q] ELSE s[k - m]
  BY <1>1 DEF Splice
<1>11. /\ \A j, k \in 1 .. n : s[j] = s[k] => j = k
       /\ \A j, k \in 1 .. m : c[j] = c[k] => j = k
       /\ \A j \in 1 .. n, k \in 1 .. m : s[j] # c[k]
  BY Zenon DEF Distinct, Apart
<1>12. \A k \in 1 .. n : /\ h[s[k]].prev = IF k = 1 THEN NULL ELSE s[k - 1]
                         /\ h[s[k]].next = IF k = n THEN NULL ELSE s[k + 1]
  BY Zenon DEF LinkedUp
<1>13. \A k \in 1 .. m : /\ h[c[k]].prev = IF k = 1 THEN NULL ELSE c[k - 1]
                         /\ h[c[k]].next = IF k = m THEN NULL ELSE c[k + 1]
  BY Zenon DEF LinkedUp
<1>14. EndsOf(s) = [first |-> IF n = 0 THEN NULL ELSE s[1], last |-> IF n = 0 THEN NULL ELSE s[n]]
  BY Zenon DEF EndsOf
<1> HIDE DEF g, r, n, m
<1>6. Distinct(r)
  <2> SUFFICES ASSUME NEW j \in 1 .. (n + m), NEW k \in 1 .. (n + m), r[j] = r[k] PROVE j = k
    BY <1>5, Zenon DEF Distinct
  <2> DEFINE at(i) == IF i <= q THEN i ELSE IF i <= q + m THEN i - q ELSE i - m
             in(i) == i > q /\ i <= q + m
  <2>1. ASSUME NEW i \in 1 .. (n + m)
        PROVE  r[i] = IF in(i) THEN c[at(i)] ELSE s[at(i)]
    BY <1>1, <1>5
  <2>2. ASSUME NEW i \in 1 .. (n + m)
        PROVE  at(i) \in IF in(i) THEN 1 .. m ELSE 1 .. n
    BY <1>1
  <2>3. ASSUME in(j) = in(k), at(j) = at(k) PROVE j = k
    BY <1>1, <2>3
  <2> HIDE DEF at
  <2>4. in(j) = in(k) /\ at(j) = at(k)
    <3> HIDE DEF in
    <3>1. in(j) \in BOOLEAN /\ in(k) \in BOOLEAN
      BY <1>1, Zenon DEF in
    <3>2. r[j] = (IF in(j) THEN c[at(j)] ELSE s[at(j)]) /\ at(j) \in (IF in(j) THEN 1 .. m ELSE 1 .. n)
      BY <2>1, <2>2, Zenon
    <3>3. r[k] = (IF in(k) THEN c[at(k)] ELSE s[at(k)]) /\ at(k) \in (IF in(k) THEN 1 .. m ELSE 1 .. n)
      BY <2>1, <2>2, Zenon
    <3>4. CASE in(j) /\ in(k)
      BY <1>11, <3>2, <3>3, <3>4, Zenon
    <3>5. CASE in(j) /\ ~in(k)
      BY <1>11, <3>2, <3>3, <3>5, Zenon
    <3>6. CASE ~in(j) /\ in(k)
      BY <1>11, <3>2, <3>3, <3>6, Zenon
    <3>7. CASE ~in(j) /\ ~in(k)
      BY <1>11, <3>1, <3>2, <3>3, <3>7, Zenon
    <3> QED BY <3>4, <3>5, <3>6, <3>7, Zenon
  <2> QED BY <2>3, <2>4, Zenon
<1>7. ASSUME NEW k \in 1 .. (n + m), k <= q \/ k > q + m
      PROVE  /\ g[r[k]].prev = IF k = 1 THEN NULL ELSE r[k - 1]
             /\ g[r[k]].next = IF k = n + m THEN NULL ELSE r[k + 1]
  <2> DEFINE j == IF k <= q THEN k ELSE k - m
  <2>1. j \in 1 .. n /\ r[k] = s[j] /\ s[j] \in Nodes
    BY <1>1, <1>5, <1>7, SMTT(30)
  <2>2. s[j] # top /\ s[j] # bot /\ (s[j] = where <=> j = q) /\ (s[j] = next <=> j = q + 1)
    <3> HIDE DEF j
    <3>1. s[j] # top /\ s[j] # bot
      <4>1. 1 \in 1 .. m /\ m \in 1 .. m
        BY <1>1
      <4> QED BY <1>11, <2>1, <4>1, Zenon
    <3>2. s[j] = where <=> j = q
      BY <1>1, <1>11, <2>1, NullNoNode
    <3>3. s[j] = next <=> j = q + 1
      BY <1>1, <1>11, <2>1, NullNoNode
    <3> QED BY <3>1, <3>2, <3>3, Zenon
  <2>3. /\ g[s[j]].prev = IF j = q + 1 THEN bot ELSE IF j = 1 THEN NULL ELSE s[j - 1]
        /\ g[s[j]].next = IF j = q THEN top ELSE IF j = n THEN NULL ELSE s[j + 1]
    <3> HIDE DEF j, where, next, top, bot
    <3> QED BY <1>4, <1>12, <2>1, <2>2
  <2>4. CASE k <= q
    <3>1. k + 1 <= q => r[k + 1] = s[k + 1]
      BY <1>1, <1>5, <2>4
    <3>2. k = q => r[k + 1] = c[1] /\ k # n + m
      BY <1>1, <1>5, <2>4
    <3>3. k # 1 => r[k - 1] = s[k - 1]
      BY <1>1, <1>5, <2>4, SMTT(30)
    <3> QED BY <1>1, <2>1, <2>3, <2>4, <3>1, <3>2, <3>3, SMTT(30)
  <2>5. CASE k > q + m
    <3>1. j = k - m /\ k # 1
      BY <1>1, <2>5
    <3>2. k # n + m => r[k + 1] = s[(k + 1) - m]
      BY <1>1, <1>5, <2>5, SMTT(30)
    <3>3. k = q + m + 1 => r[k - 1] = c[m]
      BY <1>1, <1>5, <2>5
    <3>4. k # q + m + 1 => r[k - 1] = s[k - 1 - m]
      BY <1>1, <1>5, <2>5
    <3> QED BY <1>1, <2>1, <2>3, <2>5, <3>1, <3>2, <3>3, <3>4, SMTT(30)
  <2> QED BY <1>7, <2>4, <2>5, Zenon
<1>8. ASSUME NEW k \in 1 .. (n + m), k > q, k <= q + m
      PROVE  /\ g[r[k]].prev = IF k = 1 THEN NULL ELSE r[k - 1]
             /\ g[r[k]].next = IF k = n + m THEN NULL ELSE r[k + 1]
  <2> DEFINE j == k - q
  <2>1. j \in 1 .. m /\ r[k] = c[j] /\ c[j] \in Nodes
    BY <1>1, <1>5, <1>8, SMTT(30)
  <2>2. c[j] # where /\ c[j] # next /\ (c[j] = top <=> j = 1) /\ (c[j] = bot <=> j = m)
    <3> HIDE DEF j
    <3>1. c[j] # where
      BY <1>1, <1>11, <2>1, NullNoNode
    <3>2. c[j] # next
      BY <1>1, <1>11, <2>1, NullNoNode
    <3>3. (c[j] = top <=> j = 1) /\ (c[j] = bot <=> j = m)
      BY <1>1, <1>11, <2>1
    <3> QED BY <3>1, <3>2, <3>3, Zenon
  <2>3. /\ g[c[j]].prev = IF j = 1 THEN where ELSE c[j - 1]
        /\ g[c[j]].next = IF j = m THEN next ELSE c[j + 1]
    <3> HIDE DEF j, where, next, top, bot
    <3>1. /\ g[c[j]].next = IF c[j] = bot THEN next ELSE IF c[j] = where THEN top ELSE h[c[j]].next
          /\ g[c[j]].prev = IF c[j] = next THEN bot ELSE IF c[j] = top THEN where ELSE h[c[j]].prev
      BY <1>4, <2>1, Zenon
    <3>2. /\ h[c[j]].prev = IF j = 1 THEN NULL ELSE c[j - 1]
          /\ h[c[j]].next = IF j = m THEN NULL ELSE c[j + 1]
      BY <1>13, <2>1, Zenon
    <3> QED BY <2>2, <3>1, <3>2, Zenon
  <2>4. g[r[k]].prev = IF k = 1 THEN NULL ELSE r[k - 1]
    <3>1. CASE j = 1
      BY <1>1, <1>5, <1>8, <2>1, <2>3, <3>1
    <3>2. CASE j # 1
      <4>1. k # 1 /\ r[k - 1] = c[j - 1]
        BY <1>1, <1>5, <1>8, <2>1, <3>2, SMTT(30)
      <4> QED BY <2>1, <2>3, <3>2, <4>1, Zenon
    <3> QED BY <3>1, <3>2, Zenon
  <2>5. g[r[k]].next = IF k = n + m THEN NULL ELSE r[k + 1]
    <3>1. CASE j = m
      <4>1. ASSUME q # n PROVE k # n + m /\ r[k + 1] = s[q + 1]
        <5>1. k = q + m /\ k # n + m /\ k + 1 \in 1 .. (n + m) /\ (k + 1) - m = q + 1
          BY <1>1, <1>8, <3>1, <4>1, SMTT(30)
        <5>2. ~(k + 1 <= q) /\ ~(k + 1 <= q + m)
          BY <1>1, <5>1
        <5>3. r[k + 1] = s[(k + 1) - m]
          BY <1>5, <5>1, <5>2, Zenon
        <5> QED BY <5>1, <5>3, Zenon
      <4>2. q = n => k = n + m
        BY <1>1, <1>8, <3>1
      <4> QED BY <2>1, <2>3, <3>1, <4>1, <4>2, Zenon
    <3>2. CASE j # m
      <4>1. k # n + m /\ k + 1 \in 1 .. (n + m) /\ (k + 1) - q = j + 1
        BY <1>1, <1>8, <3>2
      <4>2. ~(k + 1 <= q) /\ k + 1 <= q + m
        BY <1>1, <1>8, <3>2
      <4>3. k # n + m /\ r[k + 1] = c[j + 1]
        <5> HIDE DEF j
        <5> QED BY <1>5, <4>1, <4>2, SMTT(30)
      <4> QED BY <2>1, <2>3, <3>2, <4>3, Zenon
    <3> QED BY <3>1, <3>2, Zenon
  <2> QED BY <2>4, <2>5, Zenon
<1>9. LinkedUp(g, r)
  <2>1. \A k \in 1 .. (n + m) : (k <= q \/ k > q + m) \/ (k > q /\ k <= q + m)
    BY <1>1
  <2> QED BY <1>5, <1>7, <1>8, <2>1 DEF LinkedUp
<1>10. [first |-> IF where = NULL THEN top ELSE EndsOf(s).first,
        last  |-> IF next = NULL THEN bot ELSE EndsOf(s).last] = EndsOf(r)
  <2>1. EndsOf(r) = [first |-> r[1], last |-> r[n + m]]
    BY <1>1, <1>5 DEF EndsOf
  <2>2. r[1] = IF q = 0 THEN c[1] ELSE s[1]
    BY <1>1, <1>5
  <2>3. r[n + m] = IF q = n THEN c[m] ELSE s[n]
    BY <1>1, <1>5
  <2>4. (where = NULL <=> q = 0) /\ (next = NULL <=> q = n)
    BY <1>1, NullNoNode
  <2>5. EndsOf(s).first = (IF n = 0 THEN NULL ELSE s[1]) /\ EndsOf(s).last = (IF n = 0 THEN NULL ELSE s[n])
    BY <1>14
  <2>6. q # 0 => n # 0
    BY <1>1
  <2>7. q # n => n # 0
    BY <1>1
  <2>8. (IF where = NULL THEN top ELSE EndsOf(s).first) = r[1]
    BY <2>2, <2>4, <2>5, <2>6, Zenon
  <2>9. (IF next = NULL THEN bot ELSE EndsOf(s).last) = r[n + m]
    BY <2>3, <2>4, <2>5, <2>7, Zenon
  <2> QED BY <2>1, <2>8, <2>9, Zenon
<1> QED
  BY <1>4, <1>6, <1>9, <1>10, Zenon DEF g, r, n, m

\* INSTR_CREATE and instr_concat: a chain of its own, with the given instructions.
LEMMA ChainedLinks ==
  ASSUME NEW h \in Heaps, NEW c \in Seq(Nodes), Distinct(c), NEW w \in Seq(Instrs), Len(w) = Len(c)
  PROVE  LET g == Chained(h, c, w)
         IN  /\ g \in Heaps /\ LinkedUp(g, c)
             /\ \A k \in 1 .. Len(c) : g[c[k]].what = w[k]
             /\ \A y \in Nodes : (\A k \in 1 .. Len(c) : c[k] # y) => g[y] = h[y]
<1> DEFINE g == Chained(h, c, w)
           n == Len(c)
           cell(k) == [next |-> IF k = n THEN NULL ELSE c[k + 1],
                       prev |-> IF k = 1 THEN NULL ELSE c[k - 1], what |-> w[k]]
<1>1. /\ n \in Nat /\ DOMAIN c = 1 .. n
      /\ \A k \in 1 .. n : c[k] \in Nodes /\ w[k] \in Instrs
  OBVIOUS
<1>2. ASSUME NEW k \in 1 .. n PROVE g[c[k]] = cell(k)
  <2>1. \E j \in DOMAIN c : c[j] = c[k]
    BY <1>1, Zenon
  <2>2. (CHOOSE j \in DOMAIN c : c[j] = c[k]) = k
    BY <1>1, Zenon DEF Distinct
  <2> QED BY <1>1, <2>1, <2>2, Zenon DEF Chained
<1>3. ASSUME NEW y \in Nodes, \A k \in 1 .. n : c[k] # y PROVE g[y] = h[y]
  BY <1>1, <1>3, Zenon DEF Chained
<1>4. \A k \in 1 .. n : cell(k) \in [next : Nodes \cup {NULL}, prev : Nodes \cup {NULL}, what : Instrs]
  BY <1>1
<1>5. g = [y \in Nodes |-> g[y]]
  BY Zenon DEF Chained
<1> HIDE DEF g
<1>6. g \in Heaps
  <2> HIDE DEF cell
  <2>1. \A y \in Nodes : g[y] \in [next : Nodes \cup {NULL}, prev : Nodes \cup {NULL}, what : Instrs]
    BY <1>2, <1>3, <1>4, ZenonT(60) DEF Heaps
  <2> QED BY <1>5, <2>1, Zenon DEF Heaps
<1>7. ASSUME NEW k \in 1 .. n
      PROVE  /\ g[c[k]].prev = (IF k = 1 THEN NULL ELSE c[k - 1])
             /\ g[c[k]].next = (IF k = n THEN NULL ELSE c[k + 1])
             /\ g[c[k]].what = w[k]
  <2>1. g[c[k]] = cell(k)
    BY <1>2, Zenon
  <2> QED BY <2>1
<1>8. LinkedUp(g, c)
  BY <1>7, Zenon DEF LinkedUp
<1> QED
  BY <1>3, <1>6, <1>7, <1>8, Zenon DEF g, n

-----------------------------------------------------------------------------
\* The walk of instr_concat's callers down a chain ends at its last node.
LEMMA BottomIs ==
  ASSUME NEW h, NEW c \in Seq(Nodes), Len(c) \in 1 .. MaxNodes, LinkedUp(h, c)
  PROVE  Bottom(h, c[1]) = c[Len(c)]
<1> DEFINE m == Len(c)
           Step(y) == IF h[y].next = NULL THEN y ELSE h[y].next
           Walk(f) == f = [k \in 0 .. MaxNodes |-> IF k = 0 THEN c[1] ELSE Step(f[k - 1])]
           w == [k \in 0 .. MaxNodes |-> IF k < m THEN c[k + 1] ELSE c[m]]
           f == CHOOSE g : Walk(g)
<1>1. /\ m \in 1 .. MaxNodes /\ MaxNodes \in Nat
      /\ \A k \in 1 .. m : c[k] \in Nodes
      /\ \A k \in 1 .. m : h[c[k]].next = IF k = m THEN NULL ELSE c[k + 1]
  BY DriverAssumption, SMTT(30) DEF LinkedUp
<1> HIDE DEF m
<1>2. \A k \in 1 .. MaxNodes : Step(w[k - 1]) = w[k]
  <2> SUFFICES ASSUME NEW k \in 1 .. MaxNodes PROVE Step(w[k - 1]) = w[k]
    BY Zenon
  <2>1. CASE k < m
    <3>1. w[k - 1] = c[k] /\ w[k] = c[k + 1] /\ c[k + 1] \in Nodes /\ h[c[k]].next = c[k + 1]
      BY <1>1, <2>1, SMTT(30)
    <3> QED BY <3>1, NullNoNode, Zenon
  <2>2. CASE k >= m
    <3>1. w[k - 1] = c[m] /\ w[k] = c[m] /\ h[c[m]].next = NULL
      BY <1>1, <2>2
    <3> QED BY <3>1, Zenon
  <2> QED BY <1>1, <2>1, <2>2, SMTT(30)
<1>3. Walk(w)
  <2>1. w[0] = c[1]
    BY <1>1
  <2>2. \A k \in 0 .. MaxNodes : w[k] = IF k = 0 THEN c[1] ELSE Step(w[k - 1])
    <3> HIDE DEF w, Step
    <3> QED BY <1>1, <1>2, <2>1
  <2>3. w = [k \in 0 .. MaxNodes |-> w[k]]
    BY Zenon
  <2> HIDE DEF w, Step
  <2> QED BY <2>2, <2>3, Zenon
<1>4. Walk(f)
  <2> HIDE DEF Walk, w
  <2> QED BY <1>3, Zenon
<1>5. Bottom(h, c[1]) = f[MaxNodes]
  BY Zenon DEF Bottom
<1> HIDE DEF f
<1>6. \A k \in 0 .. MaxNodes : f[k] = IF k = 0 THEN c[1] ELSE Step(f[k - 1])
  <2> HIDE DEF Step
  <2> QED BY <1>4, Zenon
<1>7. \A k \in 0 .. MaxNodes : f[k] = w[k]
  <2> DEFINE T == {k \in 0 .. MaxNodes : f[k] # w[k]}
  <2> SUFFICES ASSUME T # {} PROVE FALSE
    BY Zenon
  <2>1. T \subseteq Nat
    BY <1>1
  <2>2. PICK x \in T : \A y \in T : x <= y
    <3> HIDE DEF T
    <3> QED BY <2>1, LeastNatural, Zenon
  <2>3. x # 0
    BY <1>1, <1>6, <2>2
  <2>4. x \in 1 .. MaxNodes /\ x - 1 \in 0 .. MaxNodes /\ ~(x <= x - 1) /\ f[x] # w[x]
    BY <1>1, <2>2, <2>3, SMTT(30)
  <2>5. f[x - 1] = w[x - 1]
    BY <2>2, <2>4, Zenon
  <2>6. f[x] = Step(f[x - 1])
    <3> HIDE DEF Step
    <3> QED BY <1>6, <2>3, <2>4, Zenon
  <2> HIDE DEF Step, w
  <2> QED BY <1>2, <2>4, <2>5, <2>6, Zenon
<1>8. w[MaxNodes] = c[m] /\ MaxNodes \in 0 .. MaxNodes
  BY <1>1, SMTT(30)
<1> HIDE DEF w
<1> QED BY <1>5, <1>7, <1>8, Zenon DEF m

-----------------------------------------------------------------------------
\* The instructions of the nodes s.
Whats(h, s) == [k \in 1 .. Len(s) |-> h[s[k]].what]

\* Every node once.
AllOnce(s) == Len(s) = MaxNodes /\ Distinct(s) /\ {s[k] : k \in 1 .. Len(s)} = Nodes

NoEmpty == \A i \in DOMAIN block : block[i] # "empty"

\* The replacements of the first i instructions, and the instructions after them.
DoneUpTo(f) ==
  f = [i \in 0 .. Len(block) |-> IF i = 0 THEN <<>> ELSE f[i - 1] \o Replacement(i)]
Done(i) == (CHOOSE f : DoneUpTo(f))[i]
Rest(i) == [j \in 1 .. (Len(block) - i) |-> <<i + j, 0>>]

FirstOf(s) == IF Len(s) = 0 THEN NULL ELSE s[1]
LastOf(s)  == IF Len(s) = 0 THEN NULL ELSE s[Len(s)]

\* The list is a, with the replacements of i instructions, then b, the rest.
At(i, a, b) ==
  /\ i \in 0 .. Len(block)
  /\ a \in Seq(Nodes) /\ b \in Seq(Nodes)
  /\ LinkedUp(heap, a \o b) /\ ilist = EndsOf(a \o b)
  /\ AllOnce((a \o b) \o free)
  /\ instr = FirstOf(b)
  /\ Whats(heap, a) = Done(i) /\ Whats(heap, b) = Rest(i)

\* The chain c, for instruction i, goes between a and k; k is the original when
\* its function keeps it.
Between(i, a, c, k, b) ==
  /\ i \in 1 .. Len(block)
  /\ a \in Seq(Nodes) /\ c \in Seq(Nodes) /\ k \in Seq(Nodes) /\ b \in Seq(Nodes)
  /\ Len(c) > 0 /\ rewritten = c[1]
  /\ LinkedUp(heap, a \o (k \o b)) /\ ilist = EndsOf(a \o (k \o b)) /\ LinkedUp(heap, c)
  /\ AllOnce(((a \o c) \o (k \o b)) \o free)
  /\ prev_avx512_instr = LastOf(a) /\ next_instr = FirstOf(b)
  /\ Whats(heap, a) = Done(i - 1)
  /\ Whats(heap, c \o k) = Replacement(i) /\ Whats(heap, b) = Rest(i)

\* The inductive invariant of the pass.
DriverInv ==
  /\ TypeOK /\ free \in Seq(Nodes)
  /\ pc \in {"loop", "done"} => \E i, a, b : At(i, a, b) /\ (pc = "done" => instr = NULL)
  /\ pc = "call" =>
       \E i, a, b : /\ At(i, a, b) /\ i < Len(block) /\ block[i + 1] # "native"
                    /\ next_instr = FirstOf(Tail(b)) /\ prev_avx512_instr = LastOf(a)
  /\ pc = "insert" /\ rewritten # NULL => \E i, a, c, k, b : Between(i, a, c, k, b)

-----------------------------------------------------------------------------
\* A list without the first node of its second part, as a splice.
LEMMA SpliceOut ==
  ASSUME NEW S, NEW a \in Seq(S), NEW b \in Seq(S), b # <<>>
  PROVE  Splice(a \o b, Len(a), 1, <<>>) = a \o Tail(b)
<1> DEFINE u == Splice(a \o b, Len(a), 1, <<>>)
           v == a \o Tail(b)
<1>1. /\ a \o b \in Seq(S) /\ Len(a \o b) = Len(a) + Len(b) /\ Len(b) > 0
      /\ Len(a) \in Nat /\ Len(b) \in Nat /\ <<>> \in Seq(S) /\ Len(<<>>) = 0
  OBVIOUS
<1>2. u \in Seq(S) /\ Len(u) = Len(a) + Len(b) - 1
  <2> DEFINE t == a \o b
             e == <<>>
  <2>1. t \in Seq(S) /\ e \in Seq(S) /\ 1 \in Nat /\ Len(a) \in Nat /\ Len(a) + 1 <= Len(t)
    BY <1>1
  <2> HIDE DEF t, e
  <2>2. Splice(t, Len(a), 1, e) \in Seq(S) /\ Len(Splice(t, Len(a), 1, e)) = Len(t) - 1 + Len(e)
    BY <2>1, SpliceType
  <2> QED BY <1>1, <2>2 DEF t, e
<1>3. v \in Seq(S) /\ Len(v) = Len(a) + Len(b) - 1
  BY <1>1, SMTT(30)
<1>4. ASSUME NEW k \in 1 .. Len(u) PROVE u[k] = v[k]
  <2>1. u[k] = (a \o b)[IF k <= Len(a) THEN k ELSE k + 1]
    BY <1>1, <1>2, SMTT(30) DEF Splice
  <2>2. CASE k <= Len(a)
    BY <1>1, <1>2, <2>1, <2>2, SMTT(30)
  <2>3. CASE k > Len(a)
    <3>1. k - Len(a) \in 1 .. Len(Tail(b)) /\ (k + 1) - Len(a) = (k - Len(a)) + 1
      BY <1>1, <1>2, <2>3
    <3>2. (a \o b)[k + 1] = b[(k + 1) - Len(a)]
      BY <1>1, <1>2, <2>3
    <3>3. v[k] = Tail(b)[k - Len(a)]
      BY <1>1, <1>2, <2>3
    <3>4. Tail(b)[k - Len(a)] = b[(k - Len(a)) + 1]
      BY <1>1, <3>1
    <3> QED BY <1>1, <2>1, <2>3, <3>1, <3>2, <3>3, <3>4, SMTT(30)
  <2> QED BY <1>1, <1>2, <2>2, <2>3, SMTT(30)
<1> HIDE DEF u, v
<1>5. u = v
  BY <1>2, <1>3, <1>4, SameElements, Zenon
<1> QED BY <1>5, Zenon DEF u, v

\* A list with a chain between its two parts, as a splice.
LEMMA SpliceIn ==
  ASSUME NEW S, NEW a \in Seq(S), NEW b \in Seq(S), NEW c \in Seq(S)
  PROVE  Splice(a \o b, Len(a), 0, c) = (a \o c) \o b
<1> DEFINE u == Splice(a \o b, Len(a), 0, c)
           v == (a \o c) \o b
<1>1. /\ a \o b \in Seq(S) /\ Len(a \o b) = Len(a) + Len(b)
      /\ a \o c \in Seq(S) /\ Len(a \o c) = Len(a) + Len(c)
      /\ Len(a) \in Nat /\ Len(b) \in Nat /\ Len(c) \in Nat
  OBVIOUS
<1>2. u \in Seq(S) /\ Len(u) = Len(a) + Len(b) + Len(c)
  <2> DEFINE t == a \o b
             q == Len(a)
             none == 0
  <2>1. t \in Seq(S) /\ none \in Nat /\ q \in Nat /\ q + none <= Len(t)
    BY <1>1
  <2> HIDE DEF t, q, none
  <2>2. Splice(t, q, none, c) \in Seq(S) /\ Len(Splice(t, q, none, c)) = Len(t) - none + Len(c)
    BY <2>1, SpliceType
  <2> QED BY <1>1, <2>2 DEF t, q, none
<1>3. v \in Seq(S) /\ Len(v) = Len(a) + Len(b) + Len(c)
  BY <1>1
<1>4. ASSUME NEW k \in 1 .. Len(u) PROVE u[k] = v[k]
  <2>1. u[k] = IF k <= Len(a) THEN (a \o b)[k]
               ELSE IF k <= Len(a) + Len(c) THEN c[k - Len(a)] ELSE (a \o b)[k - Len(c)]
    BY <1>1, <1>2 DEF Splice
  <2>2. v[k] = IF k <= Len(a) + Len(c) THEN (a \o c)[k] ELSE b[k - (Len(a) + Len(c))]
    BY <1>1, <1>2, SMTT(30)
  <2>3. CASE k <= Len(a)
    BY <1>1, <1>2, <2>1, <2>2, <2>3, SMTT(30)
  <2>4. CASE k > Len(a) /\ k <= Len(a) + Len(c)
    BY <1>1, <1>2, <2>1, <2>2, <2>4, SMTT(30)
  <2>5. CASE k > Len(a) + Len(c)
    <3>1. (a \o b)[k - Len(c)] = b[(k - Len(c)) - Len(a)]
      BY <1>1, <1>2, <2>5, SMTT(30)
    <3> QED BY <1>1, <1>2, <2>1, <2>2, <2>5, <3>1, SMTT(30)
  <2> QED BY <1>1, <1>2, <2>3, <2>4, <2>5, SMTT(30)
<1> HIDE DEF u, v
<1>5. u = v
  BY <1>2, <1>3, <1>4, SameElements, Zenon
<1> QED BY <1>5, Zenon DEF u, v

\* Concatenation of nodes, and of what they carry, in any grouping.
LEMMA NodesAssoc ==
  ASSUME NEW a \in Seq(Nodes), NEW b \in Seq(Nodes), NEW c \in Seq(Nodes)
  PROVE  (a \o b) \o c = a \o (b \o c)
BY JoinAssociates

\* The same as a predicate of three sequences, which names the instance meant.
Regroups(a, b, c) == (a \o b) \o c = a \o (b \o c)

LEMMA NodesRegroup ==
  ASSUME NEW a \in Seq(Nodes), NEW b \in Seq(Nodes), NEW c \in Seq(Nodes)
  PROVE  Regroups(a, b, c)
BY NodesAssoc, Zenon DEF Regroups

\* The same for the instructions they carry.
LEMMA InstrsAssoc ==
  ASSUME NEW a \in Seq(Instrs), NEW b \in Seq(Instrs), NEW c \in Seq(Instrs)
  PROVE  (a \o b) \o c = a \o (b \o c)
BY JoinAssociates

\* Its type and length.
LEMMA WhatsType ==
  ASSUME NEW h \in Heaps, NEW s \in Seq(Nodes)
  PROVE  /\ Whats(h, s) \in Seq(Instrs) /\ Len(Whats(h, s)) = Len(s)
         /\ \A k \in 1 .. Len(s) : Whats(h, s)[k] = h[s[k]].what
<1>1. \A k \in 1 .. Len(s) : h[s[k]].what \in Instrs
  BY DEF Heaps
<1>2. Whats(h, s) \in [1 .. Len(s) -> Instrs] /\ Len(s) \in Nat
  BY <1>1 DEF Whats
<1>3. Whats(h, s) \in Seq(Instrs) /\ Len(Whats(h, s)) = Len(s)
  BY <1>2
<1> QED BY <1>3, Zenon DEF Whats

\* What a single node carries.
LEMMA WhatsOne ==
  ASSUME NEW h \in Heaps, NEW x \in Nodes
  PROVE  Whats(h, <<x>>) = <<h[x].what>>
<1> DEFINE s == <<x>>
           w == <<h[x].what>>
<1>1. s \in Seq(Nodes) /\ Len(s) = 1 /\ s[1] = x
  OBVIOUS
<1>2. h[x].what \in Instrs
  BY Zenon DEF Heaps
<1>3. w \in Seq(Instrs) /\ Len(w) = 1 /\ w[1] = h[x].what
  BY <1>2
<1> HIDE DEF s, w
<1>4. Whats(h, s) \in Seq(Instrs) /\ Len(Whats(h, s)) = 1 /\ Whats(h, s)[1] = h[x].what
  BY <1>1, WhatsType, SMTT(30)
<1>5. Whats(h, s) = w
  BY <1>3, <1>4, SameElements
<1> QED BY <1>5, Zenon DEF s, w

\* Two lists carry what the first carries, then what the second carries.
LEMMA WhatsConcat ==
  ASSUME NEW h \in Heaps, NEW a \in Seq(Nodes), NEW b \in Seq(Nodes)
  PROVE  Whats(h, a \o b) = Whats(h, a) \o Whats(h, b)
<1> DEFINE u == Whats(h, a \o b)
           v == Whats(h, a) \o Whats(h, b)
<1>1. /\ a \o b \in Seq(Nodes) /\ Len(a \o b) = Len(a) + Len(b)
      /\ Len(a) \in Nat /\ Len(b) \in Nat
  OBVIOUS
<1>2. u \in Seq(Instrs) /\ Len(u) = Len(a) + Len(b)
  BY <1>1, WhatsType, Zenon
<1>3. v \in Seq(Instrs) /\ Len(v) = Len(a) + Len(b)
  <2> DEFINE x == Whats(h, a)
             y == Whats(h, b)
  <2>1. x \in Seq(Instrs) /\ Len(x) = Len(a) /\ y \in Seq(Instrs) /\ Len(y) = Len(b)
    BY WhatsType, Zenon
  <2> HIDE DEF x, y
  <2>2. x \o y \in Seq(Instrs) /\ Len(x \o y) = Len(x) + Len(y)
    BY <2>1, JoinElements, Zenon
  <2> QED BY <2>1, <2>2, Zenon DEF x, y
<1>4. ASSUME NEW k \in 1 .. Len(u) PROVE u[k] = v[k]
  <2>1. u[k] = h[(a \o b)[k]].what
    BY <1>1, <1>2, WhatsType, Zenon
  <2>2. CASE k <= Len(a)
    <3>1. v[k] = Whats(h, a)[k] /\ k \in 1 .. Len(a)
      BY <1>1, <1>2, <2>2, WhatsType, SMTT(30)
    <3> QED BY <2>1, <3>1, WhatsType
  <2>3. CASE k > Len(a)
    <3>1. v[k] = Whats(h, b)[k - Len(a)] /\ k - Len(a) \in 1 .. Len(b)
      BY <1>1, <1>2, <2>3, WhatsType, SMTT(30)
    <3>2. (a \o b)[k] = b[k - Len(a)]
      BY <1>1, <1>2, <2>3, SMTT(30)
    <3> QED BY <2>1, <3>1, <3>2, WhatsType, Zenon
  <2>4. k <= Len(a) \/ k > Len(a)
    <3> HIDE DEF u
    <3> QED BY <1>1, <1>2
  <2> QED BY <2>2, <2>3, <2>4, Zenon
<1> HIDE DEF u, v
<1>5. u = v
  BY <1>2, <1>3, <1>4, SameElements, Zenon
<1> QED BY <1>5, Zenon DEF u, v

\* A list depends on its own nodes only.
LEMMA WhatsSame ==
  ASSUME NEW h, NEW g, NEW s, \A k \in 1 .. Len(s) : g[s[k]] = h[s[k]]
  PROVE  Whats(g, s) = Whats(h, s) /\ (LinkedUp(h, s) => LinkedUp(g, s))
BY Zenon DEF Whats, LinkedUp

\* The parts of a list without repetition.
LEMMA DistinctParts ==
  ASSUME NEW S, NEW a \in Seq(S), NEW b \in Seq(S), Distinct(a \o b)
  PROVE  Distinct(a) /\ Distinct(b) /\ Apart(a, b)
<1> DEFINE u == a \o b
           m == Len(a)
           n == Len(b)
<1>1. /\ m \in Nat /\ n \in Nat /\ Len(u) = m + n
      /\ \A k \in 1 .. m : k \in 1 .. (m + n) /\ u[k] = a[k]
      /\ \A k \in 1 .. n : m + k \in 1 .. (m + n) /\ u[m + k] = b[k]
  OBVIOUS
<1>2. \A j, k \in 1 .. (m + n) : u[j] = u[k] => j = k
  BY <1>1, Zenon DEF Distinct
<1> HIDE DEF u, m, n
<1>3. \A j, k \in 1 .. m : a[j] = a[k] => j = k
  BY <1>1, <1>2, Zenon
<1>4. \A j, k \in 1 .. n : b[j] = b[k] => j = k
  <2> SUFFICES ASSUME NEW j \in 1 .. n, NEW k \in 1 .. n, b[j] = b[k] PROVE j = k
    BY Zenon
  <2>1. m + j = m + k
    BY <1>1, <1>2
  <2> QED BY <1>1, <2>1, SMTT(30)
<1>5. \A j \in 1 .. m, k \in 1 .. n : a[j] # b[k]
  <2> SUFFICES ASSUME NEW j \in 1 .. m, NEW k \in 1 .. n, a[j] = b[k] PROVE FALSE
    BY Zenon
  <2>1. j = m + k
    BY <1>1, <1>2, ZenonT(60)
  <2> QED BY <1>1, <2>1
<1> QED BY <1>3, <1>4, <1>5, Zenon DEF Distinct, Apart, m, n

\* Every node once, in whichever order.
LEMMA SwapOnce ==
  ASSUME NEW a \in Seq(Nodes), NEW b \in Seq(Nodes), NEW c \in Seq(Nodes), NEW d \in Seq(Nodes),
         AllOnce(((a \o b) \o c) \o d)
  PROVE  AllOnce(((a \o c) \o b) \o d)
<1> DEFINE u == ((a \o b) \o c) \o d
           v == ((a \o c) \o b) \o d
           l == Len(a)
           m == Len(b)
           n == Len(c)
           to(k) == IF k <= l THEN k ELSE IF k <= l + n THEN k + m
                    ELSE IF k <= l + n + m THEN k - n ELSE k
           from(k) == IF k <= l THEN k ELSE IF k <= l + m THEN k + n
                      ELSE IF k <= l + m + n THEN k - m ELSE k
<1>1. /\ l \in Nat /\ m \in Nat /\ n \in Nat /\ Len(d) \in Nat /\ MaxNodes \in Nat
      /\ Len(u) = l + m + n + Len(d) /\ Len(v) = l + m + n + Len(d)
  BY DriverAssumption
<1>2. Len(u) = MaxNodes /\ Len(v) = MaxNodes /\ l + m + n <= MaxNodes
  BY <1>1 DEF AllOnce
<1>3. ASSUME NEW k \in 1 .. MaxNodes
      PROVE  u[k] = IF k <= l THEN a[k] ELSE IF k <= l + m THEN b[k - l]
                    ELSE IF k <= l + m + n THEN c[k - (l + m)] ELSE d[k - (l + m + n)]
  <2>1. /\ a \o b \in Seq(Nodes) /\ Len(a \o b) = l + m
        /\ (a \o b) \o c \in Seq(Nodes) /\ Len((a \o b) \o c) = l + m + n
    BY <1>1
  <2>2. u[k] = IF k <= l + m + n THEN ((a \o b) \o c)[k] ELSE d[k - (l + m + n)]
    BY <1>1, <1>2, <2>1, SMTT(30)
  <2>3. k <= l + m + n => ((a \o b) \o c)[k] = IF k <= l + m THEN (a \o b)[k] ELSE c[k - (l + m)]
    BY <1>1, <1>2, <2>1, SMTT(30)
  <2>4. k <= l + m => (a \o b)[k] = IF k <= l THEN a[k] ELSE b[k - l]
    BY <1>1, <1>2, SMTT(30)
  <2>5. (k <= l => k <= l + m) /\ (k <= l + m => k <= l + m + n)
    BY <1>1
  <2> DEFINE two == a \o b
             three == two \o c
  <2> HIDE DEF u, l, m, n, two, three
  <2> QED BY <2>2, <2>3, <2>4, <2>5, Zenon DEF two, three
<1>4. ASSUME NEW k \in 1 .. MaxNodes
      PROVE  v[k] = IF k <= l THEN a[k] ELSE IF k <= l + n THEN c[k - l]
                    ELSE IF k <= l + n + m THEN b[k - (l + n)] ELSE d[k - (l + n + m)]
  <2>1. /\ a \o c \in Seq(Nodes) /\ Len(a \o c) = l + n
        /\ (a \o c) \o b \in Seq(Nodes) /\ Len((a \o c) \o b) = l + n + m
    BY <1>1, SMTT(30)
  <2>2. v[k] = IF k <= l + n + m THEN ((a \o c) \o b)[k] ELSE d[k - (l + n + m)]
    BY <1>1, <1>2, <2>1, SMTT(30)
  <2>3. k <= l + n + m => ((a \o c) \o b)[k] = IF k <= l + n THEN (a \o c)[k] ELSE b[k - (l + n)]
    BY <1>1, <1>2, <2>1, SMTT(30)
  <2>4. k <= l + n => (a \o c)[k] = IF k <= l THEN a[k] ELSE c[k - l]
    BY <1>1, <1>2
  <2>5. (k <= l => k <= l + n) /\ (k <= l + n => k <= l + n + m)
    BY <1>1, SMTT(30)
  <2> DEFINE two == a \o c
             three == two \o b
  <2> HIDE DEF v, l, m, n, two, three
  <2> QED BY <2>2, <2>3, <2>4, <2>5, Zenon DEF two, three
<1> HIDE DEF u, v, l, m, n
<1>5. ASSUME NEW k \in 1 .. MaxNodes
      PROVE  to(k) \in 1 .. MaxNodes /\ from(to(k)) = k /\ v[k] = u[to(k)]
  <2>1. CASE k <= l
    BY <1>1, <1>2, <1>3, <1>4, <2>1, Zenon
  <2>2. CASE k > l /\ k <= l + n
    <3>1. to(k) = k + m /\ k + m \in 1 .. MaxNodes /\ ~(k + m <= l + m) /\ k + m <= l + m + n
      BY <1>1, <1>2, <2>2, SMTT(30)
    <3>2. from(k + m) = k
      BY <1>1, <1>2, <2>2, SMTT(30)
    <3>3. u[k + m] = c[(k + m) - (l + m)] /\ (k + m) - (l + m) = k - l
      BY <1>1, <1>3, <3>1, SMTT(30)
    <3> QED BY <1>1, <1>4, <2>2, <3>1, <3>2, <3>3, SMTT(30)
  <2>3. CASE k > l + n /\ k <= l + n + m
    <3>1. to(k) = k - n /\ k - n \in 1 .. MaxNodes /\ ~(k - n <= l) /\ k - n <= l + m
      BY <1>1, <1>2, <2>3, SMTT(30)
    <3>2. from(k - n) = k
      BY <1>1, <1>2, <2>3, SMTT(30)
    <3>3. u[k - n] = b[(k - n) - l] /\ (k - n) - l = k - (l + n)
      BY <1>1, <1>3, <3>1, SMTT(30)
    <3> QED BY <1>1, <1>4, <2>3, <3>1, <3>2, <3>3, SMTT(30)
  <2>4. CASE k > l + n + m
    <3>1. to(k) = k /\ from(k) = k
      BY <1>1, <2>4, SMTT(30)
    <3>2. u[k] = d[k - (l + m + n)] /\ v[k] = d[k - (l + n + m)] /\ l + m + n = l + n + m
      BY <1>1, <1>3, <1>4, <2>4, SMTT(30)
    <3> QED BY <3>1, <3>2, Zenon
  <2>5. k <= l \/ (k > l /\ k <= l + n) \/ (k > l + n /\ k <= l + n + m) \/ k > l + n + m
    BY <1>1
  <2> QED BY <2>1, <2>2, <2>3, <2>4, <2>5, Zenon
<1>6. ASSUME NEW k \in 1 .. MaxNodes PROVE from(k) \in 1 .. MaxNodes /\ to(from(k)) = k
  BY <1>1, <1>2, SMTT(30)
<1>7. /\ \A j, k \in 1 .. MaxNodes : u[j] = u[k] => j = k
      /\ {u[k] : k \in 1 .. MaxNodes} = Nodes
  BY <1>2, Zenon DEF AllOnce, Distinct, u
<1> HIDE DEF to, from
<1>8. ASSUME NEW j \in 1 .. MaxNodes, NEW k \in 1 .. MaxNodes, v[j] = v[k] PROVE j = k
  <2>1. to(j) = to(k)
    BY <1>5, <1>7, <1>8, Zenon
  <2> QED BY <1>5, <2>1, Zenon
<1>9. {v[k] : k \in 1 .. MaxNodes} = Nodes
  <2>1. \A k \in 1 .. MaxNodes : v[k] \in Nodes
    BY <1>5, <1>7, Zenon
  <2>2. ASSUME NEW x \in Nodes PROVE \E k \in 1 .. MaxNodes : v[k] = x
    <3>1. PICK k \in 1 .. MaxNodes : u[k] = x
      BY <1>7, Zenon
    <3>2. v[from(k)] = u[to(from(k))] /\ from(k) \in 1 .. MaxNodes /\ to(from(k)) = k
      BY <1>5, <1>6, Zenon
    <3> QED BY <3>1, <3>2, Zenon
  <2> QED BY <2>1, <2>2, Zenon
<1> QED BY <1>2, <1>8, <1>9, Zenon DEF AllOnce, Distinct, v

-----------------------------------------------------------------------------
\* The walk along next from the list's first node meets its nodes, in order.
LEMMA ListedIs ==
  ASSUME NEW s \in Seq(Nodes), Len(s) <= MaxNodes, LinkedUp(heap, s), ilist = EndsOf(s)
  PROVE  Listed = s
<1> DEFINE n == Len(s)
           start == IF ilist.first = NULL THEN <<>> ELSE <<ilist.first>>
           after(t) == IF t = <<>> THEN NULL ELSE heap[t[Len(t)]].next
           Step(t) == IF after(t) = NULL THEN t ELSE Append(t, after(t))
           Walk(f) == f = [k \in 0 .. MaxNodes |-> IF k = 0 THEN start ELSE Step(f[k - 1])]
           top(k) == IF k < n THEN k + 1 ELSE n
           w == [k \in 0 .. MaxNodes |-> SubSeq(s, 1, top(k))]
           f == CHOOSE g : Walk(g)
<1>1. /\ n \in 0 .. MaxNodes /\ MaxNodes \in Nat
      /\ \A k \in 1 .. n : s[k] \in Nodes /\ s[k] # NULL
      /\ \A k \in 1 .. n : heap[s[k]].next = IF k = n THEN NULL ELSE s[k + 1]
      /\ ilist.first = IF n = 0 THEN NULL ELSE s[1]
  BY DriverAssumption, NullNoNode, SMTT(30) DEF LinkedUp, EndsOf
<1>2. ASSUME NEW k \in 0 .. n
      PROVE  /\ SubSeq(s, 1, k) \in Seq(Nodes) /\ Len(SubSeq(s, 1, k)) = k
             /\ \A i \in 1 .. k : SubSeq(s, 1, k)[i] = s[i]
  OBVIOUS
<1>3. SubSeq(s, 1, n) = s
  OBVIOUS
<1> HIDE DEF n
<1>4. w[0] = start
  <2>1. CASE n = 0
    <3>1. w[0] = SubSeq(s, 1, 0)
      BY <1>1, <2>1, SMTT(30)
    <3> QED BY <1>1, <2>1, <3>1, SMTT(30)
  <2>2. CASE n # 0
    <3>1. w[0] = SubSeq(s, 1, 1) /\ start = <<s[1]>> /\ s[1] \in Nodes
      BY <1>1, <2>2
    <3>2. SubSeq(s, 1, 1) = <<s[1]>>
      <4> DEFINE t == SubSeq(s, 1, 1)
                 z == <<s[1]>>
      <4>1. 1 \in 0 .. n /\ 1 \in 1 .. 1
        BY <1>1, <2>2
      <4>2. t \in Seq(Nodes) /\ Len(t) = 1 /\ t[1] = s[1]
        BY <1>2, <4>1, Zenon
      <4>3. z \in Seq(Nodes) /\ Len(z) = 1 /\ z[1] = s[1]
        BY <3>1
      <4> HIDE DEF t, z
      <4>4. t = z
        BY <4>2, <4>3, SameElements
      <4> QED BY <4>4, Zenon DEF t, z
    <3> QED BY <3>1, <3>2, Zenon
  <2> QED BY <2>1, <2>2, Zenon
<1>5. ASSUME NEW k \in 1 .. MaxNodes PROVE Step(w[k - 1]) = w[k]
  <2>1. CASE k < n
    <3>1. w[k - 1] = SubSeq(s, 1, k) /\ w[k] = SubSeq(s, 1, k + 1) /\ k \in 1 .. n /\ k + 1 \in 1 .. n
      <4>1. /\ k - 1 \in 0 .. MaxNodes /\ k \in 0 .. MaxNodes /\ k \in 1 .. n /\ k + 1 \in 1 .. n
            /\ top(k - 1) = k /\ top(k) = k + 1
        BY <1>1, <2>1
      <4> HIDE DEF top
      <4> QED BY <4>1, Zenon
    <3>2. SubSeq(s, 1, k) # <<>> /\ after(SubSeq(s, 1, k)) = s[k + 1] /\ s[k + 1] # NULL
      <4>1. Len(SubSeq(s, 1, k)) = k /\ SubSeq(s, 1, k)[k] = s[k]
        BY <1>1, <1>2, <3>1
      <4>2. SubSeq(s, 1, k) # <<>>
        <5> DEFINE z == SubSeq(s, 1, k)
        <5>1. Len(z) # 0 /\ z \in Seq(Nodes)
          BY <1>2, <3>1, <4>1
        <5> HIDE DEF z
        <5>2. z # <<>>
          BY <5>1
        <5> QED BY <5>2, Zenon DEF z
      <4>3. heap[s[k]].next = s[k + 1] /\ s[k + 1] # NULL
        <5>1. k # n
          BY <1>1, <2>1
        <5> QED BY <1>1, <3>1, <5>1, Zenon
      <4> QED BY <4>1, <4>2, <4>3, Zenon
    <3>3. Append(SubSeq(s, 1, k), s[k + 1]) = SubSeq(s, 1, k + 1)
      <4> DEFINE t == Append(SubSeq(s, 1, k), s[k + 1])
                 z == SubSeq(s, 1, k + 1)
      <4>1. t \in Seq(Nodes) /\ Len(t) = k + 1 /\ z \in Seq(Nodes) /\ Len(z) = k + 1
        BY <1>1, <1>2, <3>1
      <4>2. \A i \in 1 .. (k + 1) : t[i] = z[i]
        BY <1>1, <1>2, <3>1
      <4> HIDE DEF t, z
      <4>3. t = z
        BY <4>1, <4>2, SameElements, Zenon
      <4> QED BY <4>3, Zenon DEF t, z
    <3> HIDE DEF w, after
    <3> QED BY <3>1, <3>2, <3>3, Zenon
  <2>2. CASE k >= n
    <3>1. w[k - 1] = s /\ w[k] = s
      <4>1. /\ k - 1 \in 0 .. MaxNodes /\ k \in 0 .. MaxNodes
            /\ top(k - 1) = n /\ top(k) = n
        BY <1>1, <2>2
      <4> HIDE DEF top
      <4> QED BY <1>3, <4>1, Zenon
    <3>2. after(s) = NULL
      BY <1>1 DEF n
    <3>3. Step(s) = s
      BY <3>2, Zenon
    <3> HIDE DEF w, Step
    <3> QED BY <3>1, <3>3, Zenon
  <2>3. k < n \/ k >= n
    BY <1>1
  <2> QED BY <2>1, <2>2, <2>3, Zenon
<1>6. Walk(w)
  <2>1. w = [k \in 0 .. MaxNodes |-> w[k]]
    BY Zenon
  <2> HIDE DEF w, Step, start
  <2>2. \A k \in 0 .. MaxNodes : w[k] = IF k = 0 THEN start ELSE Step(w[k - 1])
    BY <1>1, <1>4, <1>5
  <2> QED BY <2>1, <2>2, Zenon
<1>7. Walk(f)
  <2> HIDE DEF Walk, w
  <2> QED BY <1>6, Zenon
<1>8. Listed = f[MaxNodes]
  BY Zenon DEF Listed
<1> HIDE DEF f, Step, start
<1>9. \A k \in 0 .. MaxNodes : f[k] = IF k = 0 THEN start ELSE Step(f[k - 1])
  BY <1>7, Zenon
<1>10. \A k \in 0 .. MaxNodes : f[k] = w[k]
  <2> DEFINE T == {k \in 0 .. MaxNodes : f[k] # w[k]}
  <2> SUFFICES ASSUME T # {} PROVE FALSE
    BY Zenon
  <2> HIDE DEF w
  <2>1. T \subseteq Nat
    BY <1>1
  <2>2. PICK x \in T : \A y \in T : x <= y
    <3> HIDE DEF T
    <3> QED BY <2>1, LeastNatural, Zenon
  <2>3. x # 0
    BY <1>1, <1>4, <1>9, <2>2, Zenon
  <2>4. x \in 1 .. MaxNodes /\ x - 1 \in 0 .. MaxNodes /\ ~(x <= x - 1) /\ f[x] # w[x]
    BY <1>1, <2>2, <2>3
  <2>5. f[x - 1] = w[x - 1]
    BY <2>2, <2>4, Zenon
  <2>6. f[x] = Step(f[x - 1])
    BY <1>9, <2>3, <2>4, Zenon
  <2> QED BY <1>5, <2>4, <2>5, <2>6, Zenon
<1>11. w[MaxNodes] = s /\ MaxNodes \in 0 .. MaxNodes
  BY <1>1, <1>3
<1> HIDE DEF w
<1> QED BY <1>8, <1>10, <1>11, Zenon

-----------------------------------------------------------------------------
\* Concatenating the members of p one after the other is well defined.
LEMMA ConcatExists ==
  ASSUME NEW m \in Nat, NEW p
  PROVE  \E f : f = [i \in 0 .. m |-> IF i = 0 THEN <<>> ELSE f[i - 1] \o p[i]]
<1> DEFINE Upto(f, n) == f = [i \in 0 .. n |-> IF i = 0 THEN <<>> ELSE f[i - 1] \o p[i]]
           T == {n \in Nat : ~ \E f : Upto(f, n)}
<1> SUFFICES ASSUME T # {} PROVE FALSE
  BY Zenon
<1>1. PICK n \in T : \A y \in T : n <= y
  <2>1. T \subseteq Nat
    BY Zenon
  <2> HIDE DEF T
  <2> QED BY <2>1, LeastNatural, Zenon
<1>2. n # 0
  <2> SUFFICES \E f : Upto(f, 0)
    BY <1>1, Zenon
  <2> DEFINE e == [i \in 0 .. 0 |-> <<>>]
  <2>1. \A i \in 0 .. 0 : i = 0
    OBVIOUS
  <2>2. Upto(e, 0)
    BY <2>1, Zenon
  <2> HIDE DEF e, Upto
  <2> QED BY <2>2, Zenon
<1>3. n \in Nat /\ n - 1 \in Nat /\ ~(n <= n - 1)
  BY <1>1, <1>2
<1>4. PICK f : Upto(f, n - 1)
  BY <1>1, <1>3, Zenon
<1> DEFINE g == [i \in 0 .. n |-> IF i = n THEN f[n - 1] \o p[n] ELSE f[i]]
<1>5. \A i \in 0 .. (n - 1) : f[i] = IF i = 0 THEN <<>> ELSE f[i - 1] \o p[i]
  BY <1>4, Zenon
<1>6. ASSUME NEW i \in 0 .. n PROVE g[i] = IF i = 0 THEN <<>> ELSE g[i - 1] \o p[i]
  <2>1. CASE i = n
    <3>1. i # 0 /\ n \in 0 .. n /\ n - 1 \in 0 .. n /\ n - 1 # n
      BY <1>3, <2>1
    <3>2. g[n - 1] = f[n - 1] /\ g[n] = f[n - 1] \o p[n]
      BY <3>1, Zenon
    <3> HIDE DEF g
    <3> QED BY <2>1, <3>1, <3>2, Zenon
  <2>2. CASE i # n
    <3>1. i \in 0 .. (n - 1) /\ g[i] = f[i] /\ (i # 0 => g[i - 1] = f[i - 1])
      BY <1>3, <2>2
    <3> HIDE DEF g
    <3> QED BY <1>5, <3>1, Zenon
  <2> QED BY <2>1, <2>2, Zenon
<1>7. g = [i \in 0 .. n |-> g[i]]
  BY Zenon
<1> HIDE DEF g
<1>8. Upto(g, n)
  BY <1>6, <1>7, Zenon
<1> HIDE DEF Upto
<1> QED BY <1>1, <1>8, Zenon

\* What DriverAssumption says of the block.
LEMMA BlockType ==
  ASSUME block \in Blocks
  PROVE  /\ Len(block) \in Nat /\ Len(block) > 0 /\ Len(block) <= MaxNodes
         /\ DOMAIN block = 1 .. Len(block)
         /\ \A i \in 1 .. Len(block) : block[i] \in Kinds
         /\ Len(block) * (ChainLen + 1) <= MaxNodes
<1>1. block \in Seq(Kinds) /\ block # <<>> /\ Len(block) * (ChainLen + 1) <= MaxNodes
  BY DriverAssumption, Zenon
<1>2. Len(block) \in Nat /\ Len(block) > 0 /\ ChainLen \in Nat /\ MaxNodes \in Nat
  BY <1>1, DriverAssumption
<1> DEFINE m == Len(block)
<1>3. m * (ChainLen + 1) = m * ChainLen + m /\ m * ChainLen \in Nat
  <2> HIDE DEF m
  <2> QED BY <1>2 DEF m
<1>4. m <= MaxNodes
  <2> DEFINE p == m * ChainLen
  <2> HIDE DEF m, p
  <2>1. p + m <= MaxNodes /\ p \in Nat /\ m \in Nat
    BY <1>1, <1>2, <1>3, Zenon DEF m, p
  <2> QED BY <1>2, <2>1
<1> QED BY <1>1, <1>2, <1>4

\* The chain of length n for instruction i.
ChainOf(i, n) == [k \in 1 .. n |-> <<i, k>>]

\* The type and length of a chain.
LEMMA ChainType ==
  ASSUME NEW i \in 0 .. MaxNodes, NEW n \in 0 .. ChainLen
  PROVE  ChainOf(i, n) \in Seq(Instrs) /\ Len(ChainOf(i, n)) = n
<1>1. \A k \in 1 .. n : k \in 0 .. ChainLen
  BY DriverAssumption
<1>2. \A k \in 1 .. n : <<i, k>> \in Instrs
  BY <1>1 DEF Instrs
<1>3. ChainOf(i, n) \in [1 .. n -> Instrs] /\ n \in Nat
  BY <1>2, DriverAssumption DEF ChainOf
<1> QED BY <1>3

\* The chain of a function that creates one instruction.
LEMMA ChainOfOne ==
  ASSUME NEW n \in 0 .. MaxNodes
  PROVE  << <<n, 1>> >> = ChainOf(n, 1)
<1> DEFINE u == << <<n, 1>> >>
           v == ChainOf(n, 1)
<1>1. 1 \in 0 .. ChainLen
  BY DriverAssumption
<1>2. v \in Seq(Instrs) /\ Len(v) = 1 /\ v[1] = <<n, 1>>
  BY <1>1, ChainType DEF ChainOf
<1>3. <<n, 1>> \in Instrs
  BY <1>1 DEF Instrs
<1>4. u \in Seq(Instrs) /\ Len(u) = 1 /\ u[1] = <<n, 1>>
  BY <1>3
<1> HIDE DEF u, v
<1>5. u = v
  BY <1>2, <1>4, SameElements
<1> QED BY <1>5, Zenon DEF u, v

\* The type of an instruction of the block.
LEMMA OriginalType ==
  ASSUME NEW i \in 0 .. MaxNodes
  PROVE  <<i, 0>> \in Instrs
BY DriverAssumption DEF Instrs

\* What each kind of rewrite function leaves in the list.
LEMMA ReplacementType ==
  ASSUME block \in Blocks, NoEmpty, NEW i \in 1 .. Len(block)
  PROVE  /\ Replacement(i) \in Seq(Instrs) /\ Len(Replacement(i)) <= ChainLen + 1
         /\ block[i] = "native" => Replacement(i) = << <<i, 0>> >>
         /\ block[i] = "early" => Replacement(i) = ChainOf(i, ChainLen)
         /\ block[i] = "late" => Replacement(i) = << <<i, 1>> >>
         /\ block[i] = "kept" => Replacement(i) = ChainOf(i, ChainLen) \o << <<i, 0>> >>
<1>1. /\ i \in 0 .. MaxNodes /\ ChainLen \in 0 .. ChainLen /\ ChainLen \in Nat /\ ChainLen > 0
      /\ block[i] \in {"native", "early", "late", "kept", "null"}
  BY BlockType, DriverAssumption DEF Kinds, NoEmpty
<1>2. <<i, 0>> \in Instrs /\ <<i, 1>> \in Instrs
  BY <1>1, DriverAssumption DEF Instrs
<1>3. ChainOf(i, ChainLen) \in Seq(Instrs) /\ Len(ChainOf(i, ChainLen)) = ChainLen
  BY <1>1, ChainType, Zenon
<1>4. CASE block[i] = "native"
  <2>1. Replacement(i) = << <<i, 0>> >>
    BY <1>4, Zenon DEF Replacement
  <2> QED BY <1>1, <1>2, <1>4, <2>1
<1>5. CASE block[i] = "early"
  <2>1. Replacement(i) = ChainOf(i, ChainLen)
    BY <1>5, Zenon DEF Replacement, ChainOf
  <2> QED BY <1>1, <1>3, <1>5, <2>1
<1>6. CASE block[i] = "late"
  <2>1. Replacement(i) = << <<i, 1>> >>
    BY <1>6, Zenon DEF Replacement
  <2> QED BY <1>1, <1>2, <1>6, <2>1
<1>7. CASE block[i] = "kept"
  <2>1. Replacement(i) = ChainOf(i, ChainLen) \o << <<i, 0>> >>
    BY <1>7, Zenon DEF Replacement, ChainOf
  <2> DEFINE c == ChainOf(i, ChainLen)
             o == << <<i, 0>> >>
  <2>2. o \in Seq(Instrs) /\ Len(o) = 1
    BY <1>2
  <2>3. c \in Seq(Instrs) /\ Len(c) = ChainLen
    BY <1>3, Zenon
  <2> HIDE DEF c, o
  <2>4. c \o o \in Seq(Instrs) /\ Len(c \o o) = ChainLen + 1
    <3>1. c \o o \in Seq(Instrs) /\ Len(c \o o) = Len(c) + Len(o)
      <4> HIDE DEF Instrs
      <4> QED BY <2>2, <2>3, JoinElements, Zenon
    <3> QED BY <2>2, <2>3, <3>1, Zenon
  <2> QED BY <1>1, <1>7, <2>1, <2>4 DEF c, o
<1>8. CASE block[i] = "null"
  <2>1. Replacement(i) = <<>>
    BY <1>8, Zenon DEF Replacement
  <2> QED BY <1>1, <1>8, <2>1
<1> QED BY <1>1, <1>4, <1>5, <1>6, <1>7, <1>8, Zenon

\* The recursion that defines the replacements is well founded.
LEMMA DoneStep ==
  ASSUME block \in Blocks
  PROVE  /\ Done(0) = <<>>
         /\ \A i \in 1 .. Len(block) : Done(i) = Done(i - 1) \o Replacement(i)
<1> DEFINE m == Len(block)
           p == [i \in 1 .. m |-> Replacement(i)]
           d == CHOOSE f : DoneUpTo(f)
<1>1. m \in Nat
  BY BlockType, Zenon
<1>2. PICK f : f = [i \in 0 .. m |-> IF i = 0 THEN <<>> ELSE f[i - 1] \o p[i]]
  <2> HIDE DEF m, p
  <2> QED BY <1>1, ConcatExists, Zenon
<1>3. DoneUpTo(f)
  <2>1. \A i \in 0 .. m : i # 0 => p[i] = Replacement(i)
    BY <1>1
  <2> HIDE DEF p
  <2>2. f = [i \in 0 .. m |-> IF i = 0 THEN <<>> ELSE f[i - 1] \o Replacement(i)]
    BY <1>2, <2>1, Zenon
  <2> QED BY <2>2, Zenon DEF DoneUpTo
<1>4. DoneUpTo(d)
  BY <1>3, Zenon
<1> HIDE DEF d
<1>5. \A i \in 0 .. m : d[i] = IF i = 0 THEN <<>> ELSE d[i - 1] \o Replacement(i)
  BY <1>4, Zenon DEF DoneUpTo
<1>6. \A i : Done(i) = d[i]
  BY Zenon DEF Done, d
<1> HIDE DEF m
<1>7. d[0] = <<>>
  BY <1>1, <1>5
<1>8. \A i \in 1 .. m : d[i] = d[i - 1] \o Replacement(i)
  <2>1. \A i \in 1 .. m : i \in 0 .. m /\ i # 0
    BY <1>1
  <2> QED BY <1>5, <2>1, Zenon
<1> QED BY <1>6, <1>7, <1>8, Zenon DEF m

\* One more instruction is done.
LEMMA DoneNext ==
  ASSUME block \in Blocks, NEW i \in 0 .. (Len(block) - 1)
  PROVE  Done(i + 1) = Done(i) \o Replacement(i + 1)
<1> DEFINE j == i + 1
<1>1. j \in 1 .. Len(block) /\ j - 1 = i
  BY BlockType
<1> HIDE DEF j
<1>2. Done(j) = Done(j - 1) \o Replacement(j)
  BY <1>1, DoneStep, Zenon
<1>3. Done(j) = Done(i) \o Replacement(j)
  BY <1>1, <1>2, Zenon
<1> QED BY <1>3, Zenon DEF j

\* The type of the replacements and a bound on their number.
LEMMA DoneType ==
  ASSUME block \in Blocks, NoEmpty, NEW i \in 0 .. Len(block)
  PROVE  Done(i) \in Seq(Instrs) /\ Len(Done(i)) <= i * (ChainLen + 1)
<1> DEFINE m == Len(block)
           c == ChainLen + 1
           Good(n) == Done(n) \in Seq(Instrs) /\ Len(Done(n)) <= n * c
           T == {n \in 0 .. m : ~Good(n)}
<1> SUFFICES ASSUME T # {} PROVE FALSE
  BY Zenon
<1>1. m \in Nat /\ c \in Nat
  BY BlockType, DriverAssumption
<1>2. PICK n \in T : \A y \in T : n <= y
  <2>1. T \subseteq Nat
    BY <1>1
  <2> HIDE DEF T
  <2> QED BY <2>1, LeastNatural, Zenon
<1>3. n # 0
  <2>1. Good(0)
    <3>1. Done(0) = <<>> /\ 0 * c = 0
      BY <1>1, DoneStep
    <3>2. <<>> \in Seq(Instrs) /\ Len(<<>>) <= 0
      OBVIOUS
    <3> HIDE DEF c
    <3> QED BY <3>1, <3>2, Zenon
  <2> HIDE DEF Good
  <2> QED BY <1>2, <2>1, Zenon
<1>4. n \in 1 .. m /\ n - 1 \in 0 .. m /\ ~(n <= n - 1) /\ ~Good(n)
  BY <1>1, <1>2, <1>3
<1>5. Good(n - 1)
  <2> HIDE DEF Good
  <2> QED BY <1>2, <1>4, Zenon
<1>6. Done(n) = Done(n - 1) \o Replacement(n)
  BY <1>4, DoneStep, Zenon
<1>7. Replacement(n) \in Seq(Instrs) /\ Len(Replacement(n)) <= c
  BY <1>4, ReplacementType, Zenon
<1>8. Done(n) \in Seq(Instrs) /\ Len(Done(n)) = Len(Done(n - 1)) + Len(Replacement(n))
  BY <1>5, <1>6, <1>7
<1>9. (n - 1) * c + c = n * c
  <2> HIDE DEF c
  <2> QED BY <1>1, <1>4
<1>10. Len(Done(n)) <= n * c
  <2> DEFINE x == (n - 1) * c
             y == n * c
             l == Len(Done(n - 1))
             r == Len(Replacement(n))
  <2>1. x \in Int /\ y \in Int /\ l \in Nat /\ r \in Nat /\ l <= x /\ r <= c /\ x + c = y
    BY <1>1, <1>4, <1>5, <1>7, <1>9, SMTT(30)
  <2> HIDE DEF x, y, l, r, c
  <2>2. l + r <= y
    BY <1>1, <2>1
  <2> QED BY <1>8, <2>2, Zenon DEF l, r, y
<1> QED BY <1>4, <1>8, <1>10, Zenon

\* What is left of the heap when i instructions are done is enough for a chain.
LEMMA Room ==
  ASSUME block \in Blocks, NoEmpty, NEW i \in 0 .. (Len(block) - 1)
  PROVE  Len(Done(i)) + (Len(block) - i) + ChainLen <= MaxNodes
<1> DEFINE m == Len(block)
           c == ChainLen
           l == Len(Done(i))
           r == m - i
           x == i * (c + 1)
           y == r * c
<1>1. /\ m \in Nat /\ c \in Nat /\ MaxNodes \in Nat /\ i \in Nat /\ r \in Nat /\ r >= 1
      /\ m * (c + 1) <= MaxNodes /\ l \in Nat /\ l <= x
  BY BlockType, DoneType, DriverAssumption
<1> HIDE DEF m, l, c
<1>2. m * (c + 1) = x + y + r
  BY <1>1
<1>3. x \in Nat /\ y \in Nat
  BY <1>1
<1>4. y >= c
  <2>1. y = (r - 1) * c + c /\ (r - 1) * c \in Nat
    <3> HIDE DEF r
    <3> QED BY <1>1
  <2> DEFINE z == (r - 1) * c
  <2> HIDE DEF y, z
  <2>2. y = z + c /\ z \in Nat
    BY <2>1, Zenon DEF z
  <2> QED BY <1>1, <2>2
<1>5. x + y + r <= MaxNodes
  BY <1>1, <1>2, Zenon
<1> HIDE DEF x, y, r
<1>6. l + r + c <= MaxNodes
  BY <1>1, <1>3, <1>4, <1>5
<1> QED BY <1>6, Zenon DEF l, r, c, m

\* The instructions that are left.
LEMMA RestType ==
  ASSUME block \in Blocks, NEW n \in 0 .. Len(block)
  PROVE  /\ Rest(n) \in Seq(Instrs) /\ Len(Rest(n)) = Len(block) - n
         /\ \A j \in 1 .. (Len(block) - n) : Rest(n)[j] = <<n + j, 0>>
<1> DEFINE m == Len(block)
<1>1. m \in Nat /\ m <= MaxNodes /\ MaxNodes \in Nat /\ m - n \in Nat
  BY BlockType, DriverAssumption
<1>2. \A j \in 1 .. (m - n) : n + j \in 0 .. MaxNodes
  <2> HIDE DEF m
  <2> QED BY <1>1 DEF m
<1>3. \A j \in 1 .. (m - n) : <<n + j, 0>> \in Instrs
  BY <1>2, OriginalType, Zenon
<1>4. Rest(n) \in [1 .. (m - n) -> Instrs]
  BY <1>3, Zenon DEF Rest
<1>5. Rest(n) \in Seq(Instrs) /\ Len(Rest(n)) = m - n
  <2> HIDE DEF m
  <2> QED BY <1>1, <1>4
<1> QED BY <1>5, Zenon DEF Rest

\* The expected list is the replacements followed by the rest.
LEMMA RewrittenIs ==
  ASSUME block \in Blocks, NoEmpty, NEW n \in 0 .. Len(block)
  PROVE  Rewritten(n) = Done(n) \o Rest(n)
<1> DEFINE m == Len(block)
           piece(i) == IF i <= n THEN Replacement(i) ELSE << <<i, 0>> >>
           Part(f) == f = [i \in 0 .. m |-> IF i = 0 THEN <<>> ELSE f[i - 1] \o piece(i)]
           p == [i \in 1 .. m |-> piece(i)]
           g == CHOOSE f : Part(f)
           T(k) == [j \in 1 .. k |-> <<n + j, 0>>]
           is(i) == IF i <= n THEN Done(i) ELSE Done(n) \o T(i - n)
<1>1. m \in Nat /\ m > 0 /\ n \in Nat /\ n <= m /\ m <= MaxNodes /\ MaxNodes \in Nat
  BY BlockType, DriverAssumption
<1>2. PICK f : f = [i \in 0 .. m |-> IF i = 0 THEN <<>> ELSE f[i - 1] \o p[i]]
  <2> HIDE DEF m, p
  <2> QED BY <1>1, ConcatExists, Zenon
<1>3. Part(f)
  <2>1. \A i \in 0 .. m : i # 0 => p[i] = piece(i)
    BY <1>1
  <2> HIDE DEF p, piece
  <2> QED BY <1>2, <2>1, Zenon
<1>4. Part(g)
  <2> HIDE DEF Part
  <2> QED BY <1>3, Zenon
<1>5. Rewritten(n) = g[m]
  BY Zenon DEF Rewritten
<1> HIDE DEF g, piece
<1>6. \A i \in 0 .. m : g[i] = IF i = 0 THEN <<>> ELSE g[i - 1] \o piece(i)
  BY <1>4, Zenon
<1> HIDE DEF m
<1>7. ASSUME NEW k \in 0 .. (m - n)
      PROVE  T(k) \in Seq(Instrs) /\ Len(T(k)) = k
  <2>1. \A j \in 1 .. k : n + j \in 0 .. MaxNodes
    BY <1>1
  <2>2. \A j \in 1 .. k : <<n + j, 0>> \in Instrs
    BY <2>1, OriginalType, Zenon
  <2>3. T(k) \in [1 .. k -> Instrs] /\ k \in Nat
    BY <1>1, <2>2
  <2> QED BY <2>3, SMTT(30)
<1>8. ASSUME NEW k \in 1 .. (m - n) PROVE T(k) = T(k - 1) \o << <<n + k, 0>> >>
  <2> DEFINE u == T(k)
             v == T(k - 1)
             w == << <<n + k, 0>> >>
  <2>1. u \in Seq(Instrs) /\ Len(u) = k /\ v \in Seq(Instrs) /\ Len(v) = k - 1
    <3>1. k \in 0 .. (m - n) /\ k - 1 \in 0 .. (m - n)
      BY <1>1
    <3> HIDE DEF T
    <3> QED BY <1>7, <3>1, Zenon
  <2>2. w \in Seq(Instrs) /\ Len(w) = 1 /\ w[1] = <<n + k, 0>>
    BY <1>1, OriginalType
  <2>3. /\ \A j \in 1 .. k : u[j] = <<n + j, 0>>
        /\ \A j \in 1 .. (k - 1) : v[j] = <<n + j, 0>>
    BY Zenon
  <2> HIDE DEF u, v, w
  <2>4. /\ v \o w \in Seq(Instrs) /\ Len(v \o w) = k
        /\ \A i \in 1 .. k : (v \o w)[i] = IF i <= k - 1 THEN v[i] ELSE w[i - (k - 1)]
    <3>1. /\ v \o w \in Seq(Instrs) /\ Len(v \o w) = Len(v) + Len(w)
          /\ \A i \in 1 .. Len(v) + Len(w) :
               (v \o w)[i] = IF i <= Len(v) THEN v[i] ELSE w[i - Len(v)]
      BY <2>1, <2>2, JoinElements, Zenon
    <3>2. Len(v) + Len(w) = k
      BY <1>1, <2>1, <2>2
    <3> QED BY <2>1, <3>1, <3>2, Zenon
  <2>5. ASSUME NEW j \in 1 .. k PROVE u[j] = (v \o w)[j]
    <3>1. CASE j = k
      <4>1. (v \o w)[k] = w[1]
        <5>1. k - (k - 1) = 1 /\ k \in 1 .. k /\ ~(k <= k - 1)
          BY <1>1
        <5> QED BY <2>4, <5>1, Zenon
      <4> QED BY <2>2, <2>3, <3>1, <4>1, Zenon
    <3>2. CASE j # k
      <4>1. j \in 1 .. (k - 1)
        BY <1>1, <3>2
      <4>2. (v \o w)[j] = v[j]
        BY <1>1, <2>4, <4>1
      <4> QED BY <2>3, <4>1, <4>2, Zenon
    <3> QED BY <3>1, <3>2, Zenon
  <2>6. u = v \o w
    BY <2>1, <2>4, <2>5, SameElements, Zenon
  <2> QED BY <2>6, Zenon DEF u, v, w
<1>9. ASSUME NEW i \in 1 .. m, g[i - 1] = is(i - 1) PROVE g[i] = is(i)
  <2>1. g[i] = g[i - 1] \o piece(i)
    <3>1. i \in 0 .. m /\ i # 0
      BY <1>1
    <3> QED BY <1>6, <3>1, Zenon
  <2>2. CASE i <= n
    <3>1. i - 1 <= n /\ i \in 1 .. Len(block)
      BY <1>1, <2>2 DEF m
    <3>2. Done(i) = Done(i - 1) \o Replacement(i)
      BY <3>1, DoneStep, Zenon
    <3>3. is(i) = Done(i) /\ is(i - 1) = Done(i - 1) /\ piece(i) = Replacement(i)
      <4> HIDE DEF T
      <4> QED BY <2>2, <3>1, Zenon DEF piece
    <3> HIDE DEF is
    <3> QED BY <1>9, <2>1, <3>2, <3>3, Zenon
  <2>3. CASE i > n
    <3> DEFINE k == i - n
               d == Done(n)
    <3>1. k \in 1 .. (m - n) /\ k - 1 \in 0 .. (m - n) /\ n + k = i /\ (i - 1) - n = k - 1
      BY <1>1, <2>3
    <3>2. piece(i) = << <<n + k, 0>> >> /\ is(i) = d \o T(k)
      <4>1. ~(i <= n)
        BY <1>1, <2>3
      <4> HIDE DEF T
      <4> QED BY <3>1, <4>1, Zenon DEF piece
    <3>3. d \in Seq(Instrs)
      BY DoneType, Zenon
    <3>4. is(i - 1) = d \o T(k - 1)
      <4>1. CASE i - 1 = n
        <5>1. T(0) = <<>>
          BY <1>1, <1>7
        <5>2. k - 1 = 0 /\ i - 1 <= n
          BY <1>1, <4>1
        <5>3. is(i - 1) = d
          <6> HIDE DEF T, k
          <6> QED BY <4>1, <5>2, Zenon
        <5>4. d \o <<>> = d
          BY <3>3
        <5> HIDE DEF T, is, d, k
        <5> QED BY <5>1, <5>2, <5>3, <5>4, Zenon
      <4>2. CASE i - 1 # n
        <5>1. ~(i - 1 <= n)
          BY <1>1, <2>3, <4>2
        <5> HIDE DEF T, d, k
        <5> QED BY <3>1, <5>1, Zenon DEF d
      <4> QED BY <4>1, <4>2, Zenon
    <3>5. T(k - 1) \in Seq(Instrs) /\ T(k) = T(k - 1) \o << <<n + k, 0>> >>
      BY <1>7, <1>8, <3>1, Zenon
    <3> DEFINE t == T(k - 1)
               o == << <<n + k, 0>> >>
    <3>6. o \in Seq(Instrs)
      BY <1>1, <3>1, OriginalType
    <3>7. t \in Seq(Instrs)
      BY <3>5, Zenon
    <3> HIDE DEF T, is, d, t, o, k
    <3>8. (d \o t) \o o = d \o (t \o o)
      BY <3>3, <3>6, <3>7, InstrsAssoc, ZenonT(60)
    <3> QED BY <1>9, <2>1, <3>2, <3>4, <3>5, <3>8, Zenon DEF t, o
  <2> QED BY <1>1, <2>2, <2>3
<1>10. g[m] = is(m)
  <2> DEFINE X == {i \in 0 .. m : g[i] # is(i)}
  <2>5. is(0) = Done(0)
    <3> HIDE DEF T
    <3> QED BY <1>1
  <2> HIDE DEF is
  <2> SUFFICES ASSUME X # {} PROVE FALSE
    BY <1>1
  <2>1. PICK i \in X : \A y \in X : i <= y
    <3>1. X \subseteq Nat
      BY <1>1
    <3> HIDE DEF X
    <3> QED BY <3>1, LeastNatural, Zenon
  <2>2. i # 0
    BY <1>1, <1>6, <2>1, <2>5, DoneStep, Zenon
  <2>3. i \in 1 .. m /\ i - 1 \in 0 .. m /\ ~(i <= i - 1) /\ g[i] # is(i)
    BY <1>1, <2>1, <2>2
  <2>4. g[i - 1] = is(i - 1)
    BY <2>1, <2>3, Zenon
  <2> QED BY <1>9, <2>3, <2>4, Zenon
<1>11. is(m) = Done(n) \o Rest(n)
  <2>1. Rest(n) = T(m - n)
    BY Zenon DEF Rest, m
  <2>2. CASE m = n
    <3>1. Rest(n) = <<>>
      BY <1>1, <2>2, RestType DEF m
    <3>2. Done(n) \in Seq(Instrs) /\ m <= n
      BY <1>1, <2>2, DoneType, Zenon
    <3>3. is(m) = Done(n)
      <4> HIDE DEF T
      <4> QED BY <2>2, <3>2, Zenon
    <3> HIDE DEF is
    <3> QED BY <3>1, <3>2, <3>3
  <2>3. CASE m # n
    <3>1. ~(m <= n)
      BY <1>1, <2>3
    <3> HIDE DEF T
    <3> QED BY <2>1, <3>1, Zenon
  <2> QED BY <2>2, <2>3, Zenon
<1> QED BY <1>5, <1>10, <1>11, Zenon

-----------------------------------------------------------------------------
\* No step changes the block, so none changes what is to be done with it.
LEMMA DoneSame ==
  ASSUME block' = block, NEW i
  PROVE  Done(i)' = Done(i) /\ Rest(i)' = Rest(i) /\ Replacement(i)' = Replacement(i)
<1>1. \A j : Replacement(j)' = Replacement(j)
  BY Zenon DEF Replacement
<1>2. \A f : DoneUpTo(f)' <=> DoneUpTo(f)
  BY <1>1, Zenon DEF DoneUpTo
<1>3. (CHOOSE f : DoneUpTo(f))' = CHOOSE f : DoneUpTo(f)
  BY <1>2, Zenon
<1>4. Done(i)' = Done(i)
  BY <1>3, Zenon DEF Done
<1> QED BY <1>1, <1>4, Zenon DEF Rest

\* A list is its first node followed by the others.
LEMMA HeadAndTail ==
  ASSUME NEW S, NEW b \in Seq(S), b # <<>>
  PROVE  /\ Len(b) \in Nat /\ Len(b) > 0 /\ b[1] \in S
         /\ Tail(b) \in Seq(S) /\ Len(Tail(b)) = Len(b) - 1
         /\ <<b[1]>> \in Seq(S) /\ Len(<<b[1]>>) = 1
         /\ \A k \in 1 .. Len(Tail(b)) : Tail(b)[k] = b[k + 1]
         /\ b = <<b[1]>> \o Tail(b)
<1>1. /\ Len(b) \in Nat /\ Len(b) > 0 /\ b[1] \in S
      /\ Tail(b) \in Seq(S) /\ Len(Tail(b)) = Len(b) - 1
      /\ \A k \in 1 .. Len(Tail(b)) : Tail(b)[k] = b[k + 1]
  OBVIOUS
<1> DEFINE o == <<b[1]>>
           t == Tail(b)
<1>2. o \in Seq(S) /\ Len(o) = 1 /\ o[1] = b[1] /\ t \in Seq(S)
  BY <1>1
<1> HIDE DEF o, t
<1>3. /\ o \o t \in Seq(S) /\ Len(o \o t) = Len(o) + Len(t)
      /\ \A k \in 1 .. Len(o) + Len(t) : (o \o t)[k] = IF k <= Len(o) THEN o[k] ELSE t[k - Len(o)]
  BY <1>2, JoinElements, Zenon
<1>4. ASSUME NEW k \in 1 .. Len(b) PROVE b[k] = (o \o t)[k]
  <2>1. CASE k = 1
    BY <1>1, <1>2, <1>3, <2>1 DEF t
  <2>2. CASE k # 1
    <3>1. k - 1 \in 1 .. Len(t) /\ ~(k <= 1) /\ k \in 1 .. 1 + Len(t) /\ (k - 1) + 1 = k
      BY <1>1, <2>2 DEF t
    <3>2. t[k - 1] = b[(k - 1) + 1]
      BY <1>1, <3>1, Zenon DEF t
    <3>3. (o \o t)[k] = t[k - 1]
      BY <1>2, <1>3, <3>1, Zenon
    <3> QED BY <3>1, <3>2, <3>3, Zenon
  <2> QED BY <2>1, <2>2, Zenon
<1>5. Len(b) = Len(o \o t)
  BY <1>1, <1>2, <1>3 DEF t
<1>6. b = o \o t
  BY <1>3, <1>4, <1>5, SameElements, Zenon
<1> QED BY <1>1, <1>2, <1>6, Zenon DEF o, t

\* The node behind a becomes the first of the free ones.
LEMMA TakeOnce ==
  ASSUME NEW a \in Seq(Nodes), NEW b \in Seq(Nodes), NEW f \in Seq(Nodes), b # <<>>,
         AllOnce((a \o b) \o f)
  PROVE  AllOnce((a \o Tail(b)) \o (<<b[1]>> \o f))
<1> DEFINE o == <<b[1]>>
           t == Tail(b)
<1>1. o \in Seq(Nodes) /\ t \in Seq(Nodes) /\ b = o \o t
  BY HeadAndTail, Zenon
<1> HIDE DEF o, t
<1>2. (a \o o) \o t = a \o b
  <2>a. o \in Seq(Nodes) /\ t \in Seq(Nodes)
    BY <1>1, Zenon
  <2>1. (a \o o) \o t = a \o (o \o t)
    <3>1. Regroups(a, o, t)
      BY <2>a, NodesRegroup, Zenon
    <3> QED BY <3>1, Zenon DEF Regroups
  <2> QED BY <1>1, <2>1, Zenon
<1>3. AllOnce(((a \o t) \o o) \o f)
  BY <1>1, <1>2, SwapOnce, Zenon
<1>4. a \o t \in Seq(Nodes)
  BY <1>1, JoinElements, Zenon
<1>5. ((a \o t) \o o) \o f = (a \o t) \o (o \o f)
  <2> DEFINE u == a \o t
  <2> HIDE DEF u
  <2>1. u \in Seq(Nodes)
    BY <1>4, Zenon DEF u
  <2>2. (u \o o) \o f = u \o (o \o f)
    <3>1. Regroups(u, o, f)
      BY <1>1, <2>1, NodesRegroup, Zenon
    <3> QED BY <3>1, Zenon DEF Regroups
  <2> QED BY <2>2, Zenon DEF u
<1> QED BY <1>3, <1>5, Zenon DEF o, t

\* The first of the free nodes become a chain behind a.
LEMMA PutOnce ==
  ASSUME NEW a \in Seq(Nodes), NEW t \in Seq(Nodes), NEW c \in Seq(Nodes), NEW f \in Seq(Nodes),
         AllOnce((a \o t) \o (c \o f))
  PROVE  /\ AllOnce(((a \o c) \o t) \o f)
         /\ Distinct(a \o t) /\ Distinct(c) /\ Apart(a \o t, c) /\ Apart(a \o t, f) /\ Distinct(f)
         /\ Apart(c, f) /\ Len(a \o t) + Len(c) + Len(f) = MaxNodes
<1> DEFINE u == a \o t
           v == c \o f
<1>1. u \in Seq(Nodes) /\ v \in Seq(Nodes)
  BY JoinElements, Zenon
<1> HIDE DEF u
<1>2. (u \o c) \o f = u \o (c \o f)
  <2>1. u \in Seq(Nodes)
    BY <1>1, Zenon
  <2> HIDE DEF v
  <2>2. Regroups(u, c, f)
    BY <2>1, NodesRegroup, Zenon
  <2> QED BY <2>2, Zenon DEF Regroups
<1>3. AllOnce(((a \o t) \o c) \o f)
  BY <1>2, Zenon DEF u
<1>4. AllOnce(((a \o c) \o t) \o f)
  BY <1>3, SwapOnce, Zenon
<1> HIDE DEF v
<1>5. Distinct(u) /\ Distinct(v) /\ Apart(u, v) /\ Len(u \o v) = MaxNodes
  <2>1. AllOnce(u \o v)
    BY Zenon DEF u, v
  <2>2. Distinct(u \o v) /\ Len(u \o v) = MaxNodes
    BY <2>1, Zenon DEF AllOnce
  <2> QED BY <1>1, <2>2, DistinctParts, Zenon
<1>6. Distinct(c) /\ Distinct(f) /\ Apart(c, f)
  BY <1>5, DistinctParts, Zenon DEF v
<1>7. Len(v) = Len(c) + Len(f) /\ Len(u \o v) = Len(u) + Len(v)
  <2>1. Len(v) = Len(c) + Len(f)
    BY JoinElements, Zenon DEF v
  <2> QED BY <1>1, <2>1, JoinElements, Zenon
<1>8. (\A k \in 1 .. Len(c) : k \in 1 .. Len(v) /\ v[k] = c[k])
  BY DEF v
<1>9. \A k \in 1 .. Len(f) : Len(c) + k \in 1 .. Len(v) /\ v[Len(c) + k] = f[k]
  BY DEF v
<1>10. Apart(u, c) /\ Apart(u, f)
  BY <1>5, <1>8, <1>9, Zenon DEF Apart
<1>11. Len(u) + Len(c) + Len(f) = MaxNodes
  BY <1>1, <1>5, <1>7
<1> QED BY <1>4, <1>5, <1>6, <1>10, <1>11, Zenon DEF u

\* instrlist_remove of the node behind a.
LEMMA TakeLinks ==
  ASSUME NEW h \in Heaps, NEW a \in Seq(Nodes), NEW b \in Seq(Nodes), b # <<>>,
         Distinct(a \o b), LinkedUp(h, a \o b)
  PROVE  /\ Removed(h, b[1]) \in Heaps
         /\ LinkedUp(Removed(h, b[1]), a \o Tail(b))
         /\ EndsAfterRemove(EndsOf(a \o b), h, b[1]) = EndsOf(a \o Tail(b))
         /\ \A y \in Nodes : Removed(h, b[1])[y].what = h[y].what
         /\ \A y \in Nodes : (\A k \in 1 .. Len(a \o b) : (a \o b)[k] # y) => Removed(h, b[1])[y] = h[y]
<1> DEFINE s == a \o b
           p == Len(a) + 1
<1>1. s \in Seq(Nodes) /\ p \in 1 .. Len(s) /\ s[p] = b[1] /\ p - 1 = Len(a)
  BY HeadAndTail
<1>2. Splice(s, p - 1, 1, <<>>) = a \o Tail(b)
  BY <1>1, SpliceOut, Zenon
<1> HIDE DEF s, p
<1>3. /\ Removed(h, s[p]) \in Heaps
      /\ LinkedUp(Removed(h, s[p]), Splice(s, p - 1, 1, <<>>))
      /\ EndsAfterRemove(EndsOf(s), h, s[p]) = EndsOf(Splice(s, p - 1, 1, <<>>))
      /\ \A y \in Nodes : Removed(h, s[p])[y].what = h[y].what
      /\ \A y \in Nodes : (\A k \in 1 .. Len(s) : s[k] # y) => Removed(h, s[p])[y] = h[y]
  <2>1. Distinct(s) /\ LinkedUp(h, s)
    BY Zenon DEF s
  <2> QED BY <1>1, <2>1, RemoveLinks, Zenon
<1> QED BY <1>1, <1>2, <1>3, Zenon DEF s

\* instrlist_postinsert of the chain c behind a.
LEMMA PutLinks ==
  ASSUME NEW h \in Heaps, NEW a \in Seq(Nodes), NEW b \in Seq(Nodes), NEW c \in Seq(Nodes), Len(c) > 0,
         Distinct(a \o b), Distinct(c), Apart(a \o b, c), LinkedUp(h, a \o b), LinkedUp(h, c)
  PROVE  LET g == Linked(Linked(h, LastOf(a), c[1]), c[Len(c)], FirstOf(b))
         IN  /\ g \in Heaps /\ LinkedUp(g, (a \o c) \o b)
             /\ [first |-> IF LastOf(a) = NULL THEN c[1] ELSE EndsOf(a \o b).first,
                 last  |-> IF FirstOf(b) = NULL THEN c[Len(c)] ELSE EndsOf(a \o b).last]
                  = EndsOf((a \o c) \o b)
             /\ \A y \in Nodes : g[y].what = h[y].what
<1> DEFINE s == a \o b
           q == Len(a)
<1>1. s \in Seq(Nodes) /\ q \in 0 .. Len(s)
  OBVIOUS
<1>2. (IF q = 0 THEN NULL ELSE s[q]) = LastOf(a)
  BY DEF LastOf
<1>3. (IF q = Len(s) THEN NULL ELSE s[q + 1]) = FirstOf(b)
  BY DEF FirstOf
<1>4. Splice(s, q, 0, c) = (a \o c) \o b
  BY SpliceIn, ZenonT(60)
<1>5. Distinct(s) /\ LinkedUp(h, s) /\ Apart(s, c)
  BY Zenon
<1> HIDE DEF s, q
<1>6. LET where == IF q = 0 THEN NULL ELSE s[q]
          next  == IF q = Len(s) THEN NULL ELSE s[q + 1]
          bot   == c[Len(c)]
          g     == Linked(Linked(h, where, c[1]), bot, next)
          r     == Splice(s, q, 0, c)
      IN  /\ g \in Heaps
          /\ Distinct(r) /\ LinkedUp(g, r)
          /\ [first |-> IF where = NULL THEN c[1] ELSE EndsOf(s).first,
              last  |-> IF next = NULL THEN bot ELSE EndsOf(s).last] = EndsOf(r)
          /\ \A y \in Nodes : g[y].what = h[y].what
  BY <1>1, <1>5, InsertLinks
<1> QED BY <1>2, <1>3, <1>4, <1>6, Zenon DEF s

-----------------------------------------------------------------------------
\* The instruction under the cursor is the next one of the block, and its node
\* knows its neighbours.
LEMMA AtCursor ==
  ASSUME block \in Blocks, NoEmpty, heap \in Heaps, free \in Seq(Nodes),
         NEW i, NEW a, NEW b, At(i, a, b), instr # NULL
  PROVE  /\ i \in 0 .. (Len(block) - 1) /\ i + 1 \in 1 .. Len(block)
         /\ b # <<>> /\ instr = b[1] /\ instr \in Nodes
         /\ heap[instr].what = <<i + 1, 0>>
         /\ heap[instr].next = FirstOf(Tail(b)) /\ heap[instr].prev = LastOf(a)
         /\ Kind(instr) = block[i + 1] /\ (is_avx512_instr(instr) <=> block[i + 1] # "native")
         /\ Whats(heap, Tail(b)) = Rest(i + 1)
         /\ Len(free) >= ChainLen
<1>1. /\ i \in 0 .. Len(block) /\ a \in Seq(Nodes) /\ b \in Seq(Nodes)
      /\ LinkedUp(heap, a \o b) /\ AllOnce((a \o b) \o free)
      /\ instr = FirstOf(b) /\ Whats(heap, a) = Done(i) /\ Whats(heap, b) = Rest(i)
  BY Zenon DEF At
<1>2. /\ Len(block) \in Nat /\ Len(block) > 0
      /\ Rest(i) \in Seq(Instrs) /\ Len(Rest(i)) = Len(block) - i
      /\ \A j \in 1 .. (Len(block) - i) : Rest(i)[j] = <<i + j, 0>>
  BY <1>1, BlockType, RestType, Zenon
<1>3. Len(b) = Len(block) - i /\ Len(a) = Len(Done(i))
  BY <1>1, <1>2, WhatsType, Zenon
<1>4. b # <<>> /\ instr = b[1] /\ Len(b) > 0
  BY <1>1 DEF FirstOf
<1>5. i \in 0 .. (Len(block) - 1) /\ i + 1 \in 1 .. Len(block) /\ instr \in Nodes
  BY <1>1, <1>2, <1>3, <1>4
<1>6. \A k \in 1 .. Len(b) : heap[b[k]].what = <<i + k, 0>>
  BY <1>1, <1>2, <1>3, WhatsType, ZenonT(60)
<1>7. heap[instr].what = <<i + 1, 0>>
  BY <1>4, <1>6
<1>8. heap[instr].next = FirstOf(Tail(b)) /\ heap[instr].prev = LastOf(a)
  <2> DEFINE s == a \o b
             k == Len(a) + 1
  <2>1. /\ k \in 1 .. Len(s) /\ s[k] = b[1] /\ (k = 1 <=> Len(a) = 0) /\ (k = Len(s) <=> Len(b) = 1)
        /\ (k # 1 => s[k - 1] = a[Len(a)]) /\ (k # Len(s) => s[k + 1] = b[2])
    <3>1. /\ Len(a) \in Nat /\ Len(b) \in Nat /\ Len(b) > 0 /\ Len(s) = Len(a) + Len(b)
          /\ \A j \in 1 .. Len(a) + Len(b) : s[j] = IF j <= Len(a) THEN a[j] ELSE b[j - Len(a)]
      BY <1>1, <1>4, JoinElements
    <3> HIDE DEF s
    <3>2. k \in 1 .. Len(s) /\ s[k] = b[1] /\ (k = 1 <=> Len(a) = 0) /\ (k = Len(s) <=> Len(b) = 1)
      <4>1. k \in 1 .. Len(a) + Len(b) /\ ~(k <= Len(a)) /\ k - Len(a) = 1
        BY <3>1
      <4>2. (k = 1 <=> Len(a) = 0) /\ (k = Len(s) <=> Len(b) = 1)
        <5> DEFINE x == Len(a)
                   y == Len(b)
                   z == Len(s)
        <5>1. x \in Nat /\ y \in Nat /\ z = x + y /\ k = x + 1
          BY <3>1, Zenon
        <5> HIDE DEF x, y, z, k
        <5>2. (k = 1 <=> x = 0) /\ (k = z <=> y = 1)
          BY <5>1
        <5> QED BY <5>2, Zenon DEF x, y, z
      <4> HIDE DEF k
      <4> QED BY <3>1, <4>1, <4>2, Zenon
    <3>3. k # 1 => s[k - 1] = a[Len(a)]
      BY <3>1
    <3>4. k # Len(s) => s[k + 1] = b[2]
      BY <3>1, SMTT(30)
    <3> QED BY <3>2, <3>3, <3>4, Zenon
  <2>2. LastOf(a) = IF k = 1 THEN NULL ELSE s[k - 1]
    BY <2>1, Zenon DEF LastOf
  <2>3. FirstOf(Tail(b)) = IF k = Len(s) THEN NULL ELSE s[k + 1]
    <3>1. Len(Tail(b)) = Len(b) - 1 /\ (Len(b) # 1 => Tail(b)[1] = b[2])
      <4>1. /\ Len(b) \in Nat /\ Len(b) > 0 /\ Len(Tail(b)) = Len(b) - 1
            /\ \A j \in 1 .. Len(Tail(b)) : Tail(b)[j] = b[j + 1]
        BY <1>1, <1>4, HeadAndTail, Zenon
      <4>2. Len(b) # 1 => 1 \in 1 .. Len(Tail(b)) /\ 1 + 1 = 2
        <5> DEFINE n == Len(Tail(b))
        <5> HIDE DEF n
        <5>1. n = Len(b) - 1 /\ Len(b) \in Nat /\ Len(b) > 0
          BY <4>1, Zenon DEF n
        <5>2. Len(b) # 1 => 1 \in 1 .. n
          BY <5>1
        <5> QED BY <5>2 DEF n
      <4>3. 1 \in 1 .. Len(Tail(b)) => Tail(b)[1] = b[1 + 1]
        BY <4>1, Zenon
      <4> QED BY <4>1, <4>2, <4>3, Zenon
    <3>2. Len(Tail(b)) = 0 <=> Len(b) = 1
      BY <1>1, <1>4, <3>1
    <3> HIDE DEF s, k
    <3> QED BY <2>1, <3>1, <3>2, Zenon DEF FirstOf
  <2>4. heap[s[k]].prev = (IF k = 1 THEN NULL ELSE s[k - 1]) /\ heap[s[k]].next = IF k = Len(s) THEN NULL ELSE s[k + 1]
    <3> HIDE DEF k
    <3> QED BY <1>1, <2>1, Zenon DEF LinkedUp
  <2> HIDE DEF s, k
  <2> QED BY <1>4, <2>1, <2>2, <2>3, <2>4, Zenon
<1>9. Kind(instr) = block[i + 1] /\ (is_avx512_instr(instr) <=> block[i + 1] # "native")
  <2>1. <<i + 1, 0>>[1] = i + 1 /\ <<i + 1, 0>>[2] = 0 /\ <<i + 1, 0>> # <<0, 0>>
    BY <1>5
  <2>2. Kind(instr) = block[i + 1]
    BY <1>7, <2>1, Zenon DEF Kind
  <2> QED BY <1>7, <2>1, <2>2, Zenon DEF is_avx512_instr, NOP
<1>10. Whats(heap, Tail(b)) = Rest(i + 1)
  <2> DEFINE t == Tail(b)
  <2>1. /\ t \in Seq(Nodes) /\ Len(t) = Len(b) - 1
        /\ \A k \in 1 .. Len(t) : t[k] = b[k + 1]
    BY <1>1, <1>4, HeadAndTail, Zenon
  <2>2. Whats(heap, t) \in Seq(Instrs) /\ Len(Whats(heap, t)) = Len(t)
    BY <2>1, WhatsType, Zenon
  <2>3. /\ Rest(i + 1) \in Seq(Instrs) /\ Len(Rest(i + 1)) = Len(block) - (i + 1)
        /\ \A j \in 1 .. (Len(block) - (i + 1)) : Rest(i + 1)[j] = <<(i + 1) + j, 0>>
    <3>1. i + 1 \in 0 .. Len(block)
      BY <1>2, <1>5, SMTT(30)
    <3> QED BY <3>1, RestType, Zenon
  <2> HIDE DEF t
  <2>4. Len(t) = Len(block) - (i + 1)
    BY <1>1, <1>2, <1>3, <2>1
  <2>5. ASSUME NEW k \in 1 .. Len(t) PROVE Whats(heap, t)[k] = Rest(i + 1)[k]
    <3>1. k + 1 \in 1 .. Len(b) /\ i + (k + 1) = (i + 1) + k
      BY <1>1, <1>2, <1>3, <2>1
    <3>2. Whats(heap, t)[k] = heap[b[k + 1]].what
      BY <2>1, WhatsType, ZenonT(60)
    <3>3. heap[b[k + 1]].what = <<i + (k + 1), 0>>
      BY <1>6, <3>1, Zenon
    <3> QED BY <2>3, <2>4, <3>1, <3>2, <3>3, Zenon
  <2>6. Whats(heap, t) = Rest(i + 1)
    BY <2>2, <2>3, <2>4, <2>5, SameElements, Zenon
  <2> QED BY <2>6, Zenon DEF t
<1>11. Len(free) >= ChainLen
  <2>1. Len((a \o b) \o free) = MaxNodes
    BY <1>1, Zenon DEF AllOnce
  <2>2. Len(a) + Len(b) + Len(free) = MaxNodes
    BY <1>1, <2>1
  <2>3. Len(Done(i)) + (Len(block) - i) + ChainLen <= MaxNodes
    BY <1>5, Room, Zenon
  <2>4. Len(a) \in Nat /\ Len(b) \in Nat /\ Len(free) \in Nat /\ ChainLen \in Nat /\ MaxNodes \in Nat
    BY <1>1, DriverAssumption
  <2> DEFINE x == Len(a)
             y == Len(b)
             z == Len(free)
  <2>5. x + y + ChainLen <= MaxNodes /\ x + y + z = MaxNodes /\ x \in Nat /\ y \in Nat /\ z \in Nat
    BY <1>3, <2>2, <2>3, <2>4, Zenon
  <2> HIDE DEF x, y, z
  <2>6. z >= ChainLen
    BY <2>4, <2>5
  <2> QED BY <2>6, Zenon DEF z
<1> QED BY <1>4, <1>5, <1>7, <1>8, <1>9, <1>10, <1>11, Zenon

-----------------------------------------------------------------------------
\* The free list has the type that TypeOK asks for.
LEMMA FreeType ==
  ASSUME NEW f \in Seq(Nodes), Distinct(f)
  PROVE  \A k \in DOMAIN f : f[k] \in Nodes /\ \A j \in 1 .. (k - 1) : f[j] # f[k]
<1>1. DOMAIN f = 1 .. Len(f) /\ Len(f) \in Nat
  OBVIOUS
<1> SUFFICES ASSUME NEW k \in 1 .. Len(f), NEW j \in 1 .. (k - 1) PROVE f[j] # f[k]
  BY <1>1
<1>2. j \in 1 .. Len(f) /\ j # k
  BY <1>1
<1> QED BY <1>2, Zenon DEF Distinct

\* The ends of a list are nodes, or NULL.
LEMMA EndsType ==
  ASSUME NEW s \in Seq(Nodes)
  PROVE  /\ FirstOf(s) \in Nodes \cup {NULL} /\ LastOf(s) \in Nodes \cup {NULL}
         /\ EndsOf(s) \in [first : Nodes \cup {NULL}, last : Nodes \cup {NULL}]
BY DEF FirstOf, LastOf, EndsOf

\* The listed nodes are distinct and not free.
LEMMA OnceFree ==
  ASSUME NEW s \in Seq(Nodes), NEW f \in Seq(Nodes), AllOnce(s \o f)
  PROVE  Distinct(s) /\ Distinct(f) /\ Apart(s, f) /\ Len(s) <= MaxNodes
<1>1. Distinct(s \o f) /\ Len(s \o f) = MaxNodes
  BY Zenon DEF AllOnce
<1>2. Len(s) + Len(f) = MaxNodes
  BY <1>1
<1>3. Len(s) <= MaxNodes
  BY <1>2
<1> QED BY <1>1, <1>3, DistinctParts, Zenon

\* The parts of the type invariant that the steps below use.
LEMMA TypeFacts ==
  ASSUME DriverInv
  PROVE  /\ block \in Blocks /\ heap \in Heaps /\ free \in Seq(Nodes)
         /\ \A k \in DOMAIN free : free[k] \in Nodes /\ \A j \in 1 .. (k - 1) : free[j] # free[k]
         /\ ilist \in [first : Nodes \cup {NULL}, last : Nodes \cup {NULL}]
         /\ {instr, next_instr, prev_avx512_instr, rewritten} \subseteq Nodes \cup {NULL}
BY Zenon DEF DriverInv, TypeOK, Heaps

\* The loop header: a native instruction is done, another one is rewritten.
LEMMA LoopStep ==
  ASSUME NoEmpty, DriverInv, Loop
  PROVE  DriverInv'
<1>1. pc = "loop" /\ instr # NULL
  BY Zenon DEF Loop
<1>2. PICK i, a, b : At(i, a, b)
  BY <1>1, Zenon DEF DriverInv
<1>3. block \in Blocks /\ heap \in Heaps /\ free \in Seq(Nodes)
  BY TypeFacts, Zenon
<1>4. /\ i \in 0 .. (Len(block) - 1) /\ i + 1 \in 1 .. Len(block)
      /\ b # <<>> /\ instr = b[1] /\ instr \in Nodes
      /\ heap[instr].what = <<i + 1, 0>>
      /\ heap[instr].next = FirstOf(Tail(b)) /\ heap[instr].prev = LastOf(a)
      /\ Kind(instr) = block[i + 1] /\ (is_avx512_instr(instr) <=> block[i + 1] # "native")
      /\ Whats(heap, Tail(b)) = Rest(i + 1)
  BY <1>1, <1>2, <1>3, AtCursor, Zenon
<1>5. /\ i \in 0 .. Len(block) /\ a \in Seq(Nodes) /\ b \in Seq(Nodes)
      /\ LinkedUp(heap, a \o b) /\ ilist = EndsOf(a \o b) /\ AllOnce((a \o b) \o free)
      /\ instr = FirstOf(b) /\ Whats(heap, a) = Done(i) /\ Whats(heap, b) = Rest(i)
  BY <1>2, Zenon DEF At
<1>6. UNCHANGED <<block, heap, free, ilist, rewritten>> /\ next_instr' = FirstOf(Tail(b))
  BY <1>4, Zenon DEF Loop
<1> DEFINE t == Tail(b)
           o == <<b[1]>>
<1>7. t \in Seq(Nodes) /\ o \in Seq(Nodes) /\ b = o \o t
  BY <1>4, <1>5, HeadAndTail, Zenon
<1>8. FirstOf(t) \in Nodes \cup {NULL} /\ LastOf(a) \in Nodes \cup {NULL}
  BY <1>5, <1>7, EndsType, Zenon
<1>9. \A j : Done(j)' = Done(j) /\ Rest(j)' = Rest(j)
  BY <1>6, DoneSame, Zenon
<1>10. CASE block[i + 1] # "native"
  <2>1. pc' = "call" /\ prev_avx512_instr' = LastOf(a) /\ instr' = instr
    BY <1>4, <1>10, Zenon DEF Loop
  <2>2. (TypeOK /\ free \in Seq(Nodes))'
    BY <1>6, <1>8, <2>1, TypeFacts, Zenon DEF TypeOK, Heaps
  <2>3. At(i, a, b)'
    BY <1>5, <1>6, <1>9, <2>1, Zenon DEF At
  <2>4. (i < Len(block) /\ block[i + 1] # "native" /\ next_instr = FirstOf(Tail(b)) /\ prev_avx512_instr = LastOf(a))'
    <3>1. i < Len(block)
      BY <1>3, <1>4, BlockType
    <3> QED BY <1>6, <1>10, <2>1, <3>1, Zenon
  <2> QED BY <2>1, <2>2, <2>3, <2>4, Zenon DEF DriverInv
<1>11. CASE block[i + 1] = "native"
  <2>1. pc' = "loop" /\ prev_avx512_instr' = prev_avx512_instr /\ instr' = FirstOf(t)
    BY <1>1, <1>4, <1>6, <1>11, Zenon DEF Loop
  <2>2. (TypeOK /\ free \in Seq(Nodes))'
    <3> HIDE DEF t
    <3> QED BY <1>6, <1>8, <2>1, TypeFacts, Zenon DEF TypeOK, Heaps, t
  <2> DEFINE c == a \o o
  <2>3. c \in Seq(Nodes) /\ c \o t = a \o b
    <3> HIDE DEF o, t
    <3>1. a \o o \in Seq(Nodes)
      BY <1>5, <1>7, JoinElements, Zenon
    <3>2. (a \o o) \o t = a \o (o \o t)
      <4>1. Regroups(a, o, t)
        BY <1>5, <1>7, NodesRegroup, Zenon
      <4> QED BY <4>1, Zenon DEF Regroups
    <3> QED BY <1>7, <3>1, <3>2, Zenon
  <2>4. Whats(heap, c) = Done(i + 1)
    <3>1. Whats(heap, o) = << <<i + 1, 0>> >>
      BY <1>3, <1>4, WhatsOne, Zenon
    <3>2. Whats(heap, c) = Done(i) \o << <<i + 1, 0>> >>
      <4> HIDE DEF o
      <4>1. Whats(heap, a \o o) = Whats(heap, a) \o Whats(heap, o)
        BY <1>3, <1>5, <1>7, WhatsConcat, Zenon
      <4> QED BY <1>5, <3>1, <4>1, Zenon
    <3>3. Replacement(i + 1) = << <<i + 1, 0>> >>
      BY <1>3, <1>4, <1>11, ReplacementType, Zenon
    <3>4. Done(i + 1) = Done(i) \o Replacement(i + 1)
      BY <1>3, <1>4, DoneNext, Zenon
    <3> HIDE DEF c
    <3> QED BY <3>2, <3>3, <3>4, Zenon
  <2>5. At(i + 1, c, t)'
    <3>1. i + 1 \in 0 .. Len(block)
      BY <1>3, <1>4, BlockType
    <3> HIDE DEF c, t
    <3> QED BY <1>4, <1>5, <1>6, <1>7, <1>9, <2>1, <2>3, <2>4, <3>1, ZenonT(60) DEF At, t
  <2> QED BY <2>1, <2>2, <2>5, Zenon DEF DriverInv
<1> QED BY <1>10, <1>11, Zenon

\* The end of the loop.
LEMMA FinishStep ==
  ASSUME NoEmpty, DriverInv, Finish
  PROVE  DriverInv'
<1>1. pc = "loop" /\ instr = NULL /\ pc' = "done"
  BY Zenon DEF Finish
<1>2. UNCHANGED <<block, heap, free, ilist, instr, next_instr, prev_avx512_instr, rewritten>>
  BY Zenon DEF Finish
<1>3. PICK i, a, b : At(i, a, b)
  BY <1>1, Zenon DEF DriverInv
<1>4. \A j : Done(j)' = Done(j) /\ Rest(j)' = Rest(j)
  BY <1>2, DoneSame, Zenon
<1>5. At(i, a, b)' /\ instr' = NULL
  BY <1>1, <1>2, <1>3, <1>4, Zenon DEF At
<1>6. (TypeOK /\ free \in Seq(Nodes))'
  BY <1>1, <1>2, Zenon DEF DriverInv, TypeOK
<1> QED BY <1>1, <1>5, <1>6, Zenon DEF DriverInv

-----------------------------------------------------------------------------
\* A list is its first n nodes followed by the others.
LEMMA SplitSeq ==
  ASSUME NEW S, NEW s \in Seq(S), NEW n \in 0 .. Len(s)
  PROVE  /\ SubSeq(s, 1, n) \in Seq(S) /\ Len(SubSeq(s, 1, n)) = n
         /\ SubSeq(s, n + 1, Len(s)) \in Seq(S)
         /\ \A k \in 1 .. n : SubSeq(s, 1, n)[k] = s[k]
         /\ SubSeq(s, 1, n) \o SubSeq(s, n + 1, Len(s)) = s
<1> DEFINE m == Len(s)
           u == SubSeq(s, 1, n)
           v == SubSeq(s, n + 1, m)
<1>1. m \in Nat /\ n \in 0 .. m /\ \A k \in 1 .. m : s[k] \in S
  OBVIOUS
<1>2. u \in Seq(S) /\ Len(u) = n /\ \A k \in 1 .. n : u[k] = s[k]
  BY <1>1
<1>3. v \in Seq(S) /\ Len(v) = m - n /\ \A k \in 1 .. (m - n) : v[k] = s[n + k]
  <2> HIDE DEF m
  <2>1. n + 1 \in Int /\ m \in Int /\ \A k \in (n + 1) .. m : s[k] \in S
    BY <1>1
  <2>2. /\ v \in Seq(S) /\ Len(v) = (IF n + 1 <= m THEN m - (n + 1) + 1 ELSE 0)
        /\ \A k \in 1 .. m - (n + 1) + 1 : v[k] = s[(n + 1) + k - 1]
    BY <2>1
  <2>3. Len(v) = m - n
    BY <1>1, <2>2
  <2>4. ASSUME NEW k \in 1 .. (m - n) PROVE v[k] = s[n + k]
    <3>1. k \in 1 .. m - (n + 1) + 1 /\ (n + 1) + k - 1 = n + k
      BY <1>1
    <3> HIDE DEF v
    <3> QED BY <2>2, <3>1, Zenon
  <2> QED BY <2>2, <2>3, <2>4, Zenon
<1> HIDE DEF u, v
<1>4. /\ u \o v \in Seq(S) /\ Len(u \o v) = Len(u) + Len(v)
      /\ \A k \in 1 .. Len(u) + Len(v) : (u \o v)[k] = IF k <= Len(u) THEN u[k] ELSE v[k - Len(u)]
  BY <1>2, <1>3, JoinElements, ZenonT(60)
<1> HIDE DEF m
<1>5. Len(u) + Len(v) = m
  BY <1>1, <1>2, <1>3
<1>6. ASSUME NEW k \in 1 .. m PROVE (u \o v)[k] = s[k]
  <2>1. CASE k <= n
    <3>1. k \in 1 .. n
      BY <1>1, <2>1
    <3>2. (u \o v)[k] = u[k]
      BY <1>2, <1>4, <1>5, <2>1, Zenon
    <3> QED BY <1>2, <3>1, <3>2, Zenon
  <2>2. CASE ~(k <= n)
    <3>1. k - n \in 1 .. (m - n) /\ n + (k - n) = k
      BY <1>1, <2>2
    <3>2. (u \o v)[k] = v[k - n]
      BY <1>2, <1>4, <1>5, <2>2, Zenon
    <3> QED BY <1>3, <3>1, <3>2, Zenon
  <2> QED BY <2>1, <2>2, Zenon
<1>7. u \o v = s
  BY <1>4, <1>5, <1>6, SameElements, Zenon DEF m
<1> QED BY <1>2, <1>3, <1>7, Zenon DEF u, v, m

\* Nodes apart from a list are apart from its parts.
LEMMA ApartParts ==
  ASSUME NEW S, NEW a \in Seq(S), NEW b \in Seq(S), NEW c, Apart(a \o b, c)
  PROVE  Apart(a, c) /\ Apart(b, c)
<1> DEFINE u == a \o b
<1>1. /\ \A k \in 1 .. Len(a) : k \in 1 .. Len(u) /\ u[k] = a[k]
      /\ \A k \in 1 .. Len(b) : Len(a) + k \in 1 .. Len(u) /\ u[Len(a) + k] = b[k]
  OBVIOUS
<1>2. \A j \in 1 .. Len(u), k \in 1 .. Len(c) : u[j] # c[k]
  BY Zenon DEF Apart
<1> HIDE DEF u
<1> QED BY <1>1, <1>2 DEF Apart

\* Changing links does not change what a list carries.
LEMMA WhatsByWhat ==
  ASSUME NEW h, NEW g, NEW s \in Seq(Nodes), \A y \in Nodes : g[y].what = h[y].what
  PROVE  Whats(g, s) = Whats(h, s)
BY DEF Whats

\* From the heap h to g, only the nodes c changed.
Undisturbed(h, g, c) ==
  \A s \in Seq(Nodes) :
    Apart(s, c) => /\ Whats(g, s) = Whats(h, s)
                   /\ \A k \in 1 .. Len(s) : g[s[k]] = h[s[k]]
                   /\ LinkedUp(h, s) => LinkedUp(g, s)

\* A chain made of free nodes disturbs no other node.
LEMMA ChainMade ==
  ASSUME NEW h \in Heaps, NEW c \in Seq(Nodes), Distinct(c), Len(c) \in 1 .. ChainLen,
         NEW i \in 0 .. MaxNodes
  PROVE  LET g == Chained(h, c, ChainOf(i, Len(c)))
         IN  /\ g \in Heaps /\ LinkedUp(g, c) /\ Whats(g, c) = ChainOf(i, Len(c))
             /\ Undisturbed(h, g, c)
<1> DEFINE w == ChainOf(i, Len(c))
           g == Chained(h, c, w)
<1>1. w \in Seq(Instrs) /\ Len(w) = Len(c)
  <2>1. Len(c) \in 0 .. ChainLen
    BY DriverAssumption
  <2> QED BY <2>1, ChainType, Zenon
<1> HIDE DEF w
<1>2. /\ g \in Heaps /\ LinkedUp(g, c)
      /\ \A k \in 1 .. Len(c) : g[c[k]].what = w[k]
      /\ \A y \in Nodes : (\A k \in 1 .. Len(c) : c[k] # y) => g[y] = h[y]
  BY <1>1, ChainedLinks, Zenon
<1> HIDE DEF g
<1>3. Whats(g, c) = w
  <2>1. /\ Whats(g, c) \in Seq(Instrs) /\ Len(Whats(g, c)) = Len(c)
        /\ \A k \in 1 .. Len(c) : Whats(g, c)[k] = g[c[k]].what
    BY <1>2, WhatsType, Zenon
  <2>2. \A k \in 1 .. Len(Whats(g, c)) : Whats(g, c)[k] = w[k]
    BY <1>2, <2>1, Zenon
  <2> HIDE DEF w
  <2> QED BY <1>1, <2>1, <2>2, SameElements, Zenon
<1>4. ASSUME NEW s \in Seq(Nodes), Apart(s, c)
      PROVE  /\ Whats(g, s) = Whats(h, s)
             /\ \A k \in 1 .. Len(s) : g[s[k]] = h[s[k]]
             /\ LinkedUp(h, s) => LinkedUp(g, s)
  <2>1. \A k \in 1 .. Len(s) : s[k] \in Nodes /\ \A j \in 1 .. Len(c) : c[j] # s[k]
    BY <1>4 DEF Apart
  <2>2. \A k \in 1 .. Len(s) : g[s[k]] = h[s[k]]
    BY <1>2, <2>1, Zenon
  <2> QED BY <2>2, WhatsSame, Zenon
<1>5. Undisturbed(h, g, c)
  BY <1>4, Zenon DEF Undisturbed
<1> QED BY <1>2, <1>3, <1>5, Zenon DEF g, w

\* What a function finds when it is called for instruction n of the block.
AtCall(i, n, a, b, t) ==
  /\ n = i + 1 /\ i \in 0 .. (Len(block) - 1) /\ n \in 1 .. Len(block) /\ n \in 0 .. MaxNodes
  /\ a \in Seq(Nodes) /\ b \in Seq(Nodes) /\ b # <<>> /\ t = Tail(b) /\ t \in Seq(Nodes)
  /\ instr = b[1] /\ instr \in Nodes /\ <<instr>> \in Seq(Nodes)
  /\ heap[instr].what[1] = n /\ heap[instr].what = <<n, 0>> /\ Kind(instr) = block[n]
  /\ LinkedUp(heap, a \o b) /\ ilist = EndsOf(a \o b) /\ AllOnce((a \o b) \o free)
  /\ Whats(heap, a) = Done(n - 1) /\ Whats(heap, t) = Rest(n)
  /\ next_instr = FirstOf(t) /\ prev_avx512_instr = LastOf(a)
  /\ Len(free) >= ChainLen

\* ... and it finds that in every state in which it is called.
LEMMA AtTheCall ==
  ASSUME NoEmpty, DriverInv, pc = "call"
  PROVE  \E i, n, a, b, t : AtCall(i, n, a, b, t)
<1>1. PICK i, a, b : /\ At(i, a, b) /\ i < Len(block) /\ block[i + 1] # "native"
                     /\ next_instr = FirstOf(Tail(b)) /\ prev_avx512_instr = LastOf(a)
  BY Zenon DEF DriverInv
<1>2. block \in Blocks /\ heap \in Heaps /\ free \in Seq(Nodes)
  BY TypeFacts, Zenon
<1>3. /\ i \in 0 .. Len(block) /\ a \in Seq(Nodes) /\ b \in Seq(Nodes)
      /\ LinkedUp(heap, a \o b) /\ ilist = EndsOf(a \o b) /\ AllOnce((a \o b) \o free)
      /\ instr = FirstOf(b) /\ Whats(heap, a) = Done(i) /\ Whats(heap, b) = Rest(i)
  BY <1>1, Zenon DEF At
<1>4. instr # NULL
  <2>1. Len(Rest(i)) = Len(block) - i /\ Len(block) \in Nat
    BY <1>2, <1>3, RestType, BlockType, Zenon
  <2>2. Len(b) = Len(block) - i /\ Len(b) # 0
    <3>1. Len(Whats(heap, b)) = Len(b) /\ Whats(heap, b) = Rest(i)
      BY <1>2, <1>3, WhatsType, Zenon
    <3>2. Len(b) = Len(block) - i
      BY <2>1, <3>1, Zenon
    <3> QED BY <1>1, <1>3, <2>1, <3>2
  <2>3. b[1] \in Nodes
    BY <1>3, <2>2
  <2> QED BY <1>3, <2>2, <2>3, NullNoNode, Zenon DEF FirstOf
<1>5. /\ i \in 0 .. (Len(block) - 1) /\ i + 1 \in 1 .. Len(block)
      /\ b # <<>> /\ instr = b[1] /\ instr \in Nodes
      /\ heap[instr].what = <<i + 1, 0>>
      /\ Kind(instr) = block[i + 1]
      /\ Whats(heap, Tail(b)) = Rest(i + 1)
      /\ Len(free) >= ChainLen
  BY <1>1, <1>2, <1>4, AtCursor, Zenon
<1>6. heap[instr].what[1] = i + 1
  BY <1>5
<1>7. i + 1 \in 0 .. MaxNodes
  BY <1>2, <1>5, BlockType, DriverAssumption
<1>8. Tail(b) \in Seq(Nodes) /\ <<instr>> \in Seq(Nodes)
  BY <1>3, <1>5, HeadAndTail, Zenon
<1>9. (i + 1) - 1 = i
  BY <1>5
<1>10. AtCall(i, i + 1, a, b, Tail(b))
  BY <1>1, <1>3, <1>5, <1>6, <1>7, <1>8, <1>9, Zenon DEF AtCall
<1> QED BY <1>10, Zenon

\* What a function leaves to instrlist_postinsert.
LEMMA BetweenNext ==
  ASSUME NEW i \in 1 .. Len(block), NEW a \in Seq(Nodes), NEW c \in Seq(Nodes), Len(c) > 0,
         NEW k \in Seq(Nodes), NEW b \in Seq(Nodes), NEW l, l = k \o b,
         block' = block, rewritten' = c[1],
         prev_avx512_instr' = LastOf(a), next_instr' = FirstOf(b),
         LinkedUp(heap', a \o l), ilist' = EndsOf(a \o l), LinkedUp(heap', c),
         AllOnce(((a \o c) \o l) \o free'),
         Whats(heap', a) = Done(i - 1), Whats(heap', c \o k) = Replacement(i),
         Whats(heap', b) = Rest(i)
  PROVE  Between(i, a, c, k, b)'
<1>1. Done(i - 1)' = Done(i - 1) /\ Rest(i)' = Rest(i) /\ Replacement(i)' = Replacement(i)
  BY DoneSame, Zenon
<1> QED BY <1>1, Zenon DEF Between

\* The types after a rewrite function.
LEMMA TypeNext ==
  ASSUME DriverInv, block' = block, heap' \in Heaps, free' \in Seq(Nodes), Distinct(free'),
         NEW s \in Seq(Nodes), ilist' = EndsOf(s), rewritten' \in Nodes \cup {NULL},
         UNCHANGED <<instr, next_instr, prev_avx512_instr>>, pc' = "insert"
  PROVE  (TypeOK /\ free \in Seq(Nodes))'
<1>1. EndsOf(s) \in [first : Nodes \cup {NULL}, last : Nodes \cup {NULL}]
  BY EndsType, Zenon
<1>2. \A k \in DOMAIN free' : free'[k] \in Nodes /\ \A j \in 1 .. (k - 1) : free'[j] # free'[k]
  BY FreeType, Zenon
<1> QED BY <1>1, <1>2, TypeFacts DEF TypeOK, Heaps

-----------------------------------------------------------------------------
\* A function that destroys the original first: the chain starts with its node.
LEMMA CallEarlyStep ==
  ASSUME NoEmpty, DriverInv, CallEarly
  PROVE  DriverInv'
<1>1. block \in Blocks /\ heap \in Heaps /\ free \in Seq(Nodes)
  BY TypeFacts, Zenon
<1>2. pc = "call" /\ Kind(instr) = "early" /\ pc' = "insert"
  BY Zenon DEF CallEarly
<1>3. PICK i, n, a, b, t : AtCall(i, n, a, b, t)
  BY <1>2, AtTheCall, Zenon
<1>4. PICK s, c, f, e :
        /\ s = <<instr>> \o free /\ e = <<>>
        /\ c = SubSeq(s, 1, ChainLen) /\ f = SubSeq(s, ChainLen + 1, Len(s))
  BY Zenon
<1> DEFINE h == Removed(heap, b[1])
           g == Chained(h, c, ChainOf(n, ChainLen))
<1>5. /\ heap' = g /\ free' = f /\ rewritten' = c[1]
      /\ ilist' = EndsAfterRemove(EndsOf(a \o b), heap, b[1])
      /\ UNCHANGED <<block, instr, next_instr, prev_avx512_instr>>
  BY <1>3, <1>4, Zenon DEF CallEarly, ChainOf, AtCall
<1>6. a \in Seq(Nodes) /\ b \in Seq(Nodes) /\ b # <<>> /\ t = Tail(b) /\ t \in Seq(Nodes) /\ instr = b[1]
  BY <1>3, Zenon DEF AtCall
<1>7. s \in Seq(Nodes) /\ ChainLen \in 0 .. Len(s) /\ ChainLen \in 1 .. ChainLen
  <2>1. <<instr>> \in Seq(Nodes) /\ Len(<<instr>>) = 1 /\ Len(free) >= ChainLen
    BY <1>3, Zenon DEF AtCall
  <2> QED BY <1>1, <1>4, <2>1, DriverAssumption
<1>8. AllOnce((a \o b) \o free) /\ AllOnce((a \o t) \o s)
  <2>1. AllOnce((a \o b) \o free)
    BY <1>3, Zenon DEF AtCall
  <2> QED BY <1>1, <1>4, <1>6, <2>1, TakeOnce, Zenon
<1>9. c \in Seq(Nodes) /\ Len(c) = ChainLen /\ f \in Seq(Nodes) /\ c \o f = s
  <2>1. c = SubSeq(s, 1, ChainLen) /\ f = SubSeq(s, ChainLen + 1, Len(s))
    BY <1>4, Zenon
  <2> QED BY <1>7, <2>1, SplitSeq, Zenon
<1>10. /\ AllOnce(((a \o c) \o t) \o f)
       /\ Distinct(a \o t) /\ Distinct(c) /\ Apart(a \o t, c) /\ Distinct(f)
  BY <1>6, <1>8, <1>9, PutOnce, Zenon
<1>11. /\ h \in Heaps /\ LinkedUp(h, a \o t)
       /\ EndsAfterRemove(EndsOf(a \o b), heap, b[1]) = EndsOf(a \o t)
       /\ \A y \in Nodes : h[y].what = heap[y].what
  <2>1. Distinct(a \o b)
    BY <1>1, <1>6, <1>8, OnceFree, JoinElements, Zenon
  <2>2. LinkedUp(heap, a \o b)
    BY <1>3, Zenon DEF AtCall
  <2> QED BY <1>1, <1>6, <2>1, <2>2, TakeLinks, ZenonT(60)
<1> HIDE DEF h
<1>12. /\ g \in Heaps /\ LinkedUp(g, c) /\ Whats(g, c) = ChainOf(n, ChainLen)
       /\ Undisturbed(h, g, c)
  <2>1. n \in 0 .. MaxNodes
    BY <1>3, Zenon DEF AtCall
  <2> QED BY <1>7, <1>9, <1>10, <1>11, <2>1, ChainMade, Zenon
<1> HIDE DEF g
<1>13. Apart(a, c) /\ Apart(t, c) /\ a \o t \in Seq(Nodes)
  BY <1>6, <1>10, ApartParts, JoinElements, Zenon
<1>14. Whats(g, a) = Done(n - 1) /\ Whats(g, t) = Rest(n)
  <2>1. Whats(h, a) = Whats(heap, a) /\ Whats(h, t) = Whats(heap, t)
    BY <1>6, <1>11, WhatsByWhat, Zenon
  <2>2. Whats(g, a) = Whats(h, a) /\ Whats(g, t) = Whats(h, t)
    BY <1>6, <1>12, <1>13, Zenon DEF Undisturbed
  <2> QED BY <1>3, <2>1, <2>2, Zenon DEF AtCall
<1>15. LinkedUp(g, a \o t)
  BY <1>10, <1>11, <1>12, <1>13, Zenon DEF Undisturbed
<1>16. Whats(g, c \o e) = Replacement(n) /\ t = e \o t /\ e \in Seq(Nodes)
  <2>1. c \o e = c /\ e \o t = t
    BY <1>4, <1>6, <1>9, JoinEmpty, Zenon
  <2>2. Replacement(n) = ChainOf(n, ChainLen)
    BY <1>1, <1>2, <1>3, ReplacementType, Zenon DEF AtCall
  <2> QED BY <1>4, <1>12, <2>1, <2>2
<1>17. Between(n, a, c, e, t)'
  <2>1. /\ n \in 1 .. Len(block) /\ Len(c) > 0
        /\ next_instr' = FirstOf(t) /\ prev_avx512_instr' = LastOf(a)
    <3>1. Len(c) > 0
      BY <1>7, <1>9
    <3> QED BY <1>3, <1>5, <3>1, Zenon DEF AtCall
  <2>2. block' = block /\ rewritten' = c[1] /\ Whats(heap', c \o e) = Replacement(n)
    BY <1>5, <1>16, Zenon
  <2>3. Whats(heap', a) = Done(n - 1) /\ Whats(heap', t) = Rest(n)
    BY <1>5, <1>14, Zenon
  <2>4. /\ LinkedUp(heap', a \o t) /\ ilist' = EndsOf(a \o t) /\ LinkedUp(heap', c)
        /\ AllOnce(((a \o c) \o t) \o free')
    BY <1>5, <1>10, <1>11, <1>12, <1>15, Zenon
  <2> QED BY <1>6, <1>9, <1>16, <2>1, <2>2, <2>3, <2>4, BetweenNext, ZenonT(60)
<1>18. (TypeOK /\ free \in Seq(Nodes))'
  <2>1. c[1] \in Nodes
    BY <1>7, <1>9
  <2> QED BY <1>2, <1>5, <1>9, <1>10, <1>11, <1>12, <1>13, <2>1, TypeNext, ZenonT(60)
<1> QED BY <1>2, <1>17, <1>18, Zenon DEF DriverInv

\* A function that creates its instruction first and then destroys the original.
LEMMA CallLateStep ==
  ASSUME NoEmpty, DriverInv, CallLate
  PROVE  DriverInv'
<1>1. block \in Blocks /\ heap \in Heaps /\ free \in Seq(Nodes)
  BY TypeFacts, Zenon
<1>2. pc = "call" /\ Kind(instr) = "late" /\ pc' = "insert"
  BY Zenon DEF CallLate
<1>3. PICK i, n, a, b, t : AtCall(i, n, a, b, t)
  BY <1>2, AtTheCall, ZenonT(60)
<1>4. free # <<>>
  BY <1>1, <1>3, DriverAssumption DEF AtCall
<1>5. PICK c, f, r, e : c = <<free[1]>> /\ f = Tail(free) /\ r = <<instr>> \o f /\ e = <<>>
  BY Zenon
<1> DEFINE g == Chained(heap, c, ChainOf(n, 1))
           h == Removed(g, b[1])
<1>6. a \in Seq(Nodes) /\ b \in Seq(Nodes) /\ b # <<>> /\ t = Tail(b) /\ t \in Seq(Nodes) /\ instr = b[1]
  BY <1>3, Zenon DEF AtCall
<1>7. c \in Seq(Nodes) /\ Len(c) = 1 /\ f \in Seq(Nodes) /\ free = c \o f /\ c[1] = free[1] /\ c[1] \in Nodes
  BY <1>1, <1>4, <1>5, HeadAndTail, Zenon
<1>8. /\ heap' = h /\ free' = r /\ rewritten' = c[1]
      /\ ilist' = EndsAfterRemove(EndsOf(a \o b), heap, b[1])
      /\ UNCHANGED <<block, instr, next_instr, prev_avx512_instr>>
  <2>1. Head(free) = free[1] /\ <<Head(free)>> = c
    BY <1>5
  <2>2. << <<heap[instr].what[1], 1>> >> = ChainOf(n, 1)
    <3>1. n \in 0 .. MaxNodes /\ heap[instr].what[1] = n
      BY <1>3, Zenon DEF AtCall
    <3> QED BY <3>1, ChainOfOne, Zenon
  <2>3. heap' = Removed(Chained(heap, <<Head(free)>>, << <<heap[instr].what[1], 1>> >>), instr)
    BY Zenon DEF CallLate
  <2>4. /\ free' = r /\ rewritten' = c[1] /\ ilist' = EndsAfterRemove(ilist, heap, instr)
        /\ UNCHANGED <<block, instr, next_instr, prev_avx512_instr>>
    BY <1>5, <1>7, <2>1, Zenon DEF CallLate
  <2> QED BY <1>3, <1>6, <2>1, <2>2, <2>3, <2>4, ZenonT(60) DEF AtCall
<1>9. AllOnce((a \o b) \o free) /\ LinkedUp(heap, a \o b)
  BY <1>3, Zenon DEF AtCall
<1>10. /\ AllOnce(((a \o c) \o b) \o f)
       /\ Distinct(a \o b) /\ Distinct(c) /\ Apart(a \o b, c)
  BY <1>6, <1>7, <1>9, PutOnce, Zenon
<1>11. AllOnce(((a \o c) \o t) \o r) /\ a \o c \in Seq(Nodes) /\ a \o b \in Seq(Nodes) /\ a \o t \in Seq(Nodes)
  <2>1. a \o c \in Seq(Nodes) /\ a \o b \in Seq(Nodes) /\ a \o t \in Seq(Nodes)
    BY <1>6, <1>7, JoinElements, Zenon
  <2>2. AllOnce(((a \o c) \o Tail(b)) \o (<<b[1]>> \o f))
    <3> DEFINE u == a \o c
    <3>1. u \in Seq(Nodes)
      BY <2>1, Zenon
    <3> HIDE DEF u
    <3>2. AllOnce((u \o b) \o f)
      BY <1>10, Zenon DEF u
    <3>3. AllOnce((u \o Tail(b)) \o (<<b[1]>> \o f))
      BY <1>6, <1>7, <3>1, <3>2, TakeOnce, Zenon
    <3> QED BY <3>3, Zenon DEF u
  <2> QED BY <1>5, <1>6, <2>1, <2>2, Zenon
<1>12. r \in Seq(Nodes) /\ Distinct(r)
  <2>1. r \in Seq(Nodes)
    <3>1. <<instr>> \in Seq(Nodes)
      BY <1>3, Zenon DEF AtCall
    <3> QED BY <1>5, <1>7, <3>1, JoinElements, Zenon
  <2> DEFINE u == (a \o c) \o t
  <2>2. u \in Seq(Nodes)
    BY <1>6, <1>11, JoinElements, Zenon
  <2> HIDE DEF u
  <2>3. AllOnce(u \o r)
    BY <1>11, Zenon DEF u
  <2> QED BY <2>1, <2>2, <2>3, OnceFree, Zenon
<1>13. /\ g \in Heaps /\ LinkedUp(g, c) /\ Whats(g, c) = ChainOf(n, 1)
       /\ Undisturbed(heap, g, c)
  <2> DEFINE m == Len(c)
             v == Chained(heap, c, ChainOf(n, m))
  <2>1. n \in 0 .. MaxNodes /\ Len(c) \in 1 .. ChainLen
    BY <1>3, <1>7, DriverAssumption DEF AtCall
  <2>2. /\ v \in Heaps /\ LinkedUp(v, c) /\ Whats(v, c) = ChainOf(n, m)
        /\ Undisturbed(heap, v, c)
    BY <1>1, <1>7, <1>10, <2>1, ChainMade, Zenon
  <2>3. m = 1
    BY <1>7, Zenon
  <2> HIDE DEF m
  <2> QED BY <2>2, <2>3, ZenonT(60)
<1> HIDE DEF g
<1>14. LinkedUp(g, a \o b) /\ g[b[1]] = heap[b[1]]
  <2>1. LinkedUp(g, a \o b) /\ \A k \in 1 .. Len(a \o b) : g[(a \o b)[k]] = heap[(a \o b)[k]]
    BY <1>9, <1>10, <1>11, <1>13, Zenon DEF Undisturbed
  <2>2. Len(a) + 1 \in 1 .. Len(a \o b) /\ (a \o b)[Len(a) + 1] = b[1]
    BY <1>6, SMTT(30)
  <2> HIDE DEF g
  <2> QED BY <2>1, <2>2
<1>15. /\ h \in Heaps /\ LinkedUp(h, a \o t)
       /\ EndsAfterRemove(EndsOf(a \o b), heap, b[1]) = EndsOf(a \o t)
       /\ \A y \in Nodes : h[y].what = g[y].what
       /\ \A y \in Nodes : (\A k \in 1 .. Len(a \o b) : (a \o b)[k] # y) => h[y] = g[y]
  <2>1. EndsAfterRemove(EndsOf(a \o b), heap, b[1]) = EndsAfterRemove(EndsOf(a \o b), g, b[1])
    BY <1>14, Zenon DEF EndsAfterRemove
  <2> QED BY <1>6, <1>10, <1>13, <1>14, <2>1, TakeLinks, SMTT(30)
<1> HIDE DEF h
<1>16. LinkedUp(h, c)
  <2> DEFINE l == a \o b
             q == Len(l)
  <2>1. \A k \in 1 .. Len(c) : c[k] \in Nodes /\ \A j \in 1 .. Len(a \o b) : (a \o b)[j] # c[k]
    <3>1. \A j \in 1 .. q, k \in 1 .. Len(c) : l[j] # c[k]
      BY <1>10, Zenon DEF Apart
    <3>2. \A k \in 1 .. Len(c) : c[k] \in Nodes
      <4>1. c \in Seq(Nodes)
        BY <1>7, Zenon
      <4> QED BY <4>1
    <3> HIDE DEF l, q
    <3>3. \A k \in 1 .. Len(c) : c[k] \in Nodes /\ \A j \in 1 .. q : l[j] # c[k]
      BY <3>1, <3>2, Zenon
    <3> QED BY <3>3, Zenon DEF l, q
  <2>2. \A k \in 1 .. Len(c) : h[c[k]] = g[c[k]]
    BY <1>15, <2>1, Zenon
  <2> QED BY <1>13, <2>2, WhatsSame, Zenon
<1>17. Whats(h, a) = Done(n - 1) /\ Whats(h, t) = Rest(n) /\ Whats(h, c) = ChainOf(n, 1)
  <2>1. Apart(a, c) /\ Apart(b, c)
    BY <1>6, <1>10, ApartParts, Zenon
  <2>2. Apart(t, c)
    <3>1. <<b[1]>> \in Seq(Nodes) /\ b = <<b[1]>> \o t
      BY <1>6, HeadAndTail, Zenon
    <3> QED BY <1>6, <2>1, <3>1, ApartParts, Zenon
  <2>3. Whats(g, a) = Whats(heap, a) /\ Whats(g, t) = Whats(heap, t)
    BY <1>6, <1>13, <2>1, <2>2, Zenon DEF Undisturbed
  <2>4. Whats(h, a) = Whats(g, a) /\ Whats(h, t) = Whats(g, t) /\ Whats(h, c) = Whats(g, c)
    BY <1>6, <1>7, <1>15, WhatsByWhat, ZenonT(60)
  <2> QED BY <1>3, <1>13, <2>3, <2>4, Zenon DEF AtCall
<1>18. Whats(h, c \o e) = Replacement(n) /\ t = e \o t /\ e \in Seq(Nodes)
  <2>1. c \o e = c /\ e \o t = t
    BY <1>5, <1>6, <1>7, JoinEmpty, Zenon
  <2>2. Replacement(n) = << <<n, 1>> >>
    BY <1>1, <1>2, <1>3, ReplacementType, Zenon DEF AtCall
  <2>3. << <<n, 1>> >> = ChainOf(n, 1)
    BY <1>3, ChainOfOne, Zenon DEF AtCall
  <2> QED BY <1>5, <1>17, <2>1, <2>2, <2>3, SMTT(30)
<1>19. Between(n, a, c, e, t)'
  <2>1. /\ n \in 1 .. Len(block) /\ Len(c) > 0
        /\ next_instr' = FirstOf(t) /\ prev_avx512_instr' = LastOf(a)
    BY <1>3, <1>7, <1>8, SMTT(30) DEF AtCall
  <2>2. block' = block /\ rewritten' = c[1] /\ Whats(heap', c \o e) = Replacement(n)
    BY <1>8, <1>18, Zenon
  <2>3. Whats(heap', a) = Done(n - 1) /\ Whats(heap', t) = Rest(n)
    BY <1>8, <1>17, Zenon
  <2>4. /\ LinkedUp(heap', a \o t) /\ ilist' = EndsOf(a \o t) /\ LinkedUp(heap', c)
        /\ AllOnce(((a \o c) \o t) \o free')
    BY <1>8, <1>11, <1>15, <1>16, Zenon
  <2> QED BY <1>6, <1>7, <1>18, <2>1, <2>2, <2>3, <2>4, BetweenNext, ZenonT(60)
<1>20. (TypeOK /\ free \in Seq(Nodes))'
  BY <1>2, <1>7, <1>8, <1>11, <1>12, <1>15, TypeNext, ZenonT(60)
<1> QED BY <1>2, <1>19, <1>20, Zenon DEF DriverInv

\* A function that leaves the original in the list, behind its chain.
LEMMA CallKeptStep ==
  ASSUME NoEmpty, DriverInv, CallKept
  PROVE  DriverInv'
<1>1. block \in Blocks /\ heap \in Heaps /\ free \in Seq(Nodes)
  BY TypeFacts, Zenon
<1>2. pc = "call" /\ Kind(instr) = "kept" /\ pc' = "insert"
  BY Zenon DEF CallKept
<1>3. PICK i, n, a, b, t : AtCall(i, n, a, b, t)
  BY <1>2, AtTheCall, Zenon
<1>4. PICK c, f, k :
        c = SubSeq(free, 1, ChainLen) /\ f = SubSeq(free, ChainLen + 1, Len(free)) /\ k = <<instr>>
  BY Zenon
<1> DEFINE g == Chained(heap, c, ChainOf(n, ChainLen))
<1>5. /\ heap' = g /\ free' = f /\ rewritten' = c[1]
      /\ UNCHANGED <<block, ilist, instr, next_instr, prev_avx512_instr>>
  BY <1>3, <1>4, ZenonT(60) DEF CallKept, ChainOf, AtCall
<1>6. a \in Seq(Nodes) /\ b \in Seq(Nodes) /\ b # <<>> /\ t = Tail(b) /\ t \in Seq(Nodes) /\ instr = b[1]
  BY <1>3, Zenon DEF AtCall
<1>7. ChainLen \in 0 .. Len(free) /\ ChainLen \in 1 .. ChainLen
  BY <1>1, <1>3, DriverAssumption, SMTT(30) DEF AtCall
<1>8. c \in Seq(Nodes) /\ Len(c) = ChainLen /\ f \in Seq(Nodes) /\ c \o f = free
  <2>1. c = SubSeq(free, 1, ChainLen) /\ f = SubSeq(free, ChainLen + 1, Len(free))
    BY <1>4, Zenon
  <2> QED BY <1>1, <1>7, <2>1, SplitSeq, Zenon
<1>9. AllOnce((a \o b) \o free) /\ LinkedUp(heap, a \o b) /\ ilist = EndsOf(a \o b)
  BY <1>3, Zenon DEF AtCall
<1>10. /\ AllOnce(((a \o c) \o b) \o f)
       /\ Distinct(a \o b) /\ Distinct(c) /\ Apart(a \o b, c) /\ Distinct(f)
  BY <1>6, <1>8, <1>9, PutOnce, Zenon
<1>11. /\ g \in Heaps /\ LinkedUp(g, c) /\ Whats(g, c) = ChainOf(n, ChainLen)
       /\ Undisturbed(heap, g, c)
  <2>1. n \in 0 .. MaxNodes
    BY <1>3, Zenon DEF AtCall
  <2> QED BY <1>1, <1>7, <1>8, <1>10, <2>1, ChainMade, ZenonT(60)
<1> HIDE DEF g
<1>12. k \in Seq(Nodes) /\ b = k \o t /\ a \o b \in Seq(Nodes)
  BY <1>4, <1>6, HeadAndTail, JoinElements, Zenon
<1>13. Apart(a, c) /\ Apart(b, c) /\ Apart(k, c) /\ Apart(t, c)
  <2>1. Apart(a, c) /\ Apart(b, c)
    BY <1>6, <1>10, ApartParts, Zenon
  <2>2. Apart(k \o t, c)
    BY <1>12, <2>1, Zenon
  <2> QED BY <1>6, <1>12, <2>1, <2>2, ApartParts, Zenon
<1>14. LinkedUp(g, a \o b)
  BY <1>9, <1>10, <1>11, <1>12, Zenon DEF Undisturbed
<1>15. Whats(g, a) = Done(n - 1) /\ Whats(g, t) = Rest(n) /\ Whats(g, k) = << <<n, 0>> >>
  <2>1. Whats(g, a) = Whats(heap, a) /\ Whats(g, t) = Whats(heap, t) /\ Whats(g, k) = Whats(heap, k)
    BY <1>6, <1>11, <1>12, <1>13, Zenon DEF Undisturbed
  <2>2. Whats(heap, k) = << <<n, 0>> >>
    <3>1. instr \in Nodes /\ heap[instr].what = <<n, 0>>
      BY <1>3, Zenon DEF AtCall
    <3>2. Whats(heap, <<instr>>) = <<heap[instr].what>>
      BY <1>1, <3>1, WhatsOne, Zenon
    <3> QED BY <1>4, <3>1, <3>2, Zenon
  <2> QED BY <1>3, <2>1, <2>2, Zenon DEF AtCall
<1>16. Whats(g, c \o k) = Replacement(n)
  <2>1. Whats(g, c \o k) = Whats(g, c) \o Whats(g, k)
    BY <1>8, <1>11, <1>12, WhatsConcat, Zenon
  <2>2. Replacement(n) = ChainOf(n, ChainLen) \o << <<n, 0>> >>
    BY <1>1, <1>2, <1>3, ReplacementType, Zenon DEF AtCall
  <2> QED BY <1>11, <1>15, <2>1, <2>2, Zenon
<1>17. Between(n, a, c, k, t)'
  <2>1. /\ n \in 1 .. Len(block) /\ Len(c) > 0
        /\ next_instr' = FirstOf(t) /\ prev_avx512_instr' = LastOf(a)
    <3>1. Len(c) > 0
      BY <1>7, <1>8
    <3> QED BY <1>3, <1>5, <3>1, Zenon DEF AtCall
  <2>2. block' = block /\ rewritten' = c[1] /\ Whats(heap', c \o k) = Replacement(n)
    BY <1>5, <1>16, Zenon
  <2>3. Whats(heap', a) = Done(n - 1) /\ Whats(heap', t) = Rest(n)
    BY <1>5, <1>15, Zenon
  <2>4. /\ LinkedUp(heap', a \o b) /\ ilist' = EndsOf(a \o b) /\ LinkedUp(heap', c)
        /\ AllOnce(((a \o c) \o b) \o free')
    BY <1>5, <1>9, <1>10, <1>11, <1>14, Zenon
  <2> QED BY <1>6, <1>8, <1>12, <2>1, <2>2, <2>3, <2>4, BetweenNext, ZenonT(60)
<1>18. (TypeOK /\ free \in Seq(Nodes))'
  <2>1. c[1] \in Nodes
    BY <1>7, <1>8
  <2>2. ilist' = EndsOf(a \o b)
    BY <1>5, <1>9, Zenon
  <2> QED BY <1>2, <1>5, <1>8, <1>10, <1>11, <1>12, <2>1, <2>2, TypeNext, ZenonT(60)
<1> QED BY <1>2, <1>17, <1>18, Zenon DEF DriverInv

\* A function that destroys the original and returns NULL_INSTR.
LEMMA CallNullStep ==
  ASSUME NoEmpty, DriverInv, CallNull
  PROVE  DriverInv'
<1>1. block \in Blocks /\ heap \in Heaps /\ free \in Seq(Nodes)
  BY TypeFacts, Zenon
<1>2. pc = "call" /\ pc' = "insert" /\ rewritten' = NULL
  BY Zenon DEF CallNull
<1>3. PICK i, n, a, b, t : AtCall(i, n, a, b, t)
  BY <1>2, AtTheCall, Zenon
<1>4. PICK r : r = <<instr>> \o free
  BY Zenon
<1> DEFINE h == Removed(heap, b[1])
<1>5. /\ heap' = h /\ free' = r
      /\ ilist' = EndsAfterRemove(EndsOf(a \o b), heap, b[1])
      /\ UNCHANGED <<block, instr, next_instr, prev_avx512_instr>>
  BY <1>3, <1>4, Zenon DEF CallNull, AtCall
<1>6. a \in Seq(Nodes) /\ b \in Seq(Nodes) /\ b # <<>> /\ t = Tail(b) /\ t \in Seq(Nodes) /\ instr = b[1]
  BY <1>3, Zenon DEF AtCall
<1>7. r \in Seq(Nodes) /\ a \o t \in Seq(Nodes) /\ a \o b \in Seq(Nodes)
  <2>1. <<instr>> \in Seq(Nodes)
    BY <1>3, Zenon DEF AtCall
  <2> QED BY <1>1, <1>4, <1>6, <2>1, JoinElements, ZenonT(60)
<1>8. AllOnce((a \o b) \o free) /\ AllOnce((a \o t) \o r)
  <2>1. AllOnce((a \o b) \o free)
    BY <1>3, Zenon DEF AtCall
  <2> QED BY <1>1, <1>4, <1>6, <2>1, TakeOnce, ZenonT(60)
<1>9. h \in Heaps /\ EndsAfterRemove(EndsOf(a \o b), heap, b[1]) = EndsOf(a \o t)
  <2>1. Distinct(a \o b)
    BY <1>1, <1>7, <1>8, OnceFree, Zenon
  <2>2. LinkedUp(heap, a \o b)
    BY <1>3, Zenon DEF AtCall
  <2> QED BY <1>1, <1>6, <2>1, <2>2, TakeLinks, Zenon
<1> HIDE DEF h
<1>10. Distinct(r)
  BY <1>7, <1>8, OnceFree, Zenon
<1>11. (TypeOK /\ free \in Seq(Nodes))'
  BY <1>2, <1>5, <1>7, <1>9, <1>10, TypeNext, Zenon
<1> QED BY <1>2, <1>11, Zenon DEF DriverInv

\* Without its instructions rw_func_empty is not called.
LEMMA CallEmptyStep ==
  ASSUME NoEmpty, DriverInv, CallEmpty
  PROVE  FALSE
<1>1. pc = "call" /\ Kind(instr) = "empty"
  BY Zenon DEF CallEmpty
<1>2. PICK i, n, a, b, t : AtCall(i, n, a, b, t)
  BY <1>1, AtTheCall, Zenon
<1>3. n \in 1 .. Len(block) /\ Kind(instr) = block[n]
  BY <1>2, Zenon DEF AtCall, Kind
<1> QED BY <1>1, <1>3 DEF NoEmpty

-----------------------------------------------------------------------------
\* Two lists without repetition and without a common node.
LEMMA DistinctJoin ==
  ASSUME NEW a \in Seq(Nodes), NEW b \in Seq(Nodes), Distinct(a), Distinct(b), Apart(a, b)
  PROVE  Distinct(a \o b)
<1> DEFINE u == a \o b
           m == Len(a)
           n == Len(b)
<1>1. /\ m \in Nat /\ n \in Nat /\ Len(u) = m + n
      /\ \A j \in 1 .. m : u[j] = a[j]
      /\ \A j \in 1 .. (m + n) : j > m => u[j] = b[j - m]
  BY JoinElements
<1>2. /\ \A j, k \in 1 .. m : a[j] = a[k] => j = k
      /\ \A j, k \in 1 .. n : b[j] = b[k] => j = k
      /\ \A j \in 1 .. m, k \in 1 .. n : a[j] # b[k]
  BY Zenon DEF Distinct, Apart
<1> HIDE DEF u, m, n
<1> SUFFICES ASSUME NEW j \in 1 .. (m + n), NEW k \in 1 .. (m + n), u[j] = u[k]
             PROVE  j = k
  BY <1>1, Zenon DEF Distinct, u
<1>3. CASE j <= m /\ k <= m
  <2>1. j \in 1 .. m /\ k \in 1 .. m
    BY <1>1, <1>3
  <2> QED BY <1>1, <1>2, <2>1, Zenon
<1>4. CASE ~(j <= m) /\ ~(k <= m)
  <2>1. j - m \in 1 .. n /\ k - m \in 1 .. n /\ j > m /\ k > m
    BY <1>1, <1>4
  <2>2. b[j - m] = b[k - m]
    BY <1>1, <2>1, Zenon
  <2>3. j - m = k - m
    BY <1>2, <2>1, <2>2, Zenon
  <2> QED BY <1>1, <2>3
<1>5. CASE j <= m /\ ~(k <= m)
  <2>1. j \in 1 .. m /\ k - m \in 1 .. n /\ k > m
    BY <1>1, <1>5
  <2> QED BY <1>1, <1>2, <2>1
<1>6. CASE ~(j <= m) /\ k <= m
  <2>1. k \in 1 .. m /\ j - m \in 1 .. n /\ j > m
    BY <1>1, <1>6
  <2> QED BY <1>1, <1>2, <2>1
<1> QED BY <1>3, <1>4, <1>5, <1>6, Zenon

\* Two lists apart from a third.
LEMMA ApartJoin ==
  ASSUME NEW a \in Seq(Nodes), NEW b \in Seq(Nodes), NEW c \in Seq(Nodes), Apart(a, c), Apart(b, c)
  PROVE  Apart(a \o b, c)
<1> DEFINE u == a \o b
           m == Len(a)
           n == Len(b)
<1>1. /\ m \in Nat /\ n \in Nat /\ Len(u) = m + n
      /\ \A j \in 1 .. m : u[j] = a[j]
      /\ \A j \in 1 .. (m + n) : j > m => u[j] = b[j - m]
  BY JoinElements
<1>2. /\ \A j \in 1 .. m, k \in 1 .. Len(c) : a[j] # c[k]
      /\ \A j \in 1 .. n, k \in 1 .. Len(c) : b[j] # c[k]
  BY Zenon DEF Apart
<1> HIDE DEF u, m, n
<1> SUFFICES ASSUME NEW j \in 1 .. (m + n), NEW k \in 1 .. Len(c)
             PROVE  u[j] # c[k]
  BY <1>1, Zenon DEF Apart, u
<1>3. CASE j <= m
  <2>1. j \in 1 .. m
    BY <1>1, <1>3
  <2> QED BY <1>1, <1>2, <2>1, ZenonT(60)
<1>4. CASE ~(j <= m)
  <2>1. j - m \in 1 .. n /\ j > m
    BY <1>1, <1>4
  <2> QED BY <1>1, <1>2, <2>1, ZenonT(60)
<1> QED BY <1>3, <1>4, Zenon

\* What is around a chain that stands between two parts of a list.
LEMMA MiddleOut ==
  ASSUME NEW a \in Seq(Nodes), NEW c \in Seq(Nodes), NEW l \in Seq(Nodes), Distinct((a \o c) \o l)
  PROVE  Distinct(a \o l) /\ Distinct(c) /\ Apart(a \o l, c)
<1>1. a \o c \in Seq(Nodes)
  BY JoinElements, Zenon
<1>2. Distinct(a \o c) /\ Distinct(l) /\ Apart(a \o c, l)
  BY <1>1, DistinctParts, Zenon
<1>3. Distinct(a) /\ Distinct(c) /\ Apart(a, c) /\ Apart(a, l) /\ Apart(c, l)
  BY <1>2, DistinctParts, ApartParts, Zenon
<1>4. Apart(l, c)
  BY <1>3, Zenon DEF Apart
<1> QED BY <1>2, <1>3, <1>4, DistinctJoin, ApartJoin, Zenon

\* What instrlist_postinsert and instrlist_prepend find after the place.
LEMMA WhereNext ==
  ASSUME NEW a \in Seq(Nodes), NEW l \in Seq(Nodes), LinkedUp(heap, a \o l), ilist = EndsOf(a \o l)
  PROVE  (IF LastOf(a) = NULL THEN ilist.first ELSE heap[LastOf(a)].next) = FirstOf(l)
<1> DEFINE s == a \o l
           m == Len(a)
           n == Len(l)
<1>1. /\ m \in Nat /\ n \in Nat /\ Len(s) = m + n
      /\ \A j \in 1 .. m : s[j] = a[j]
      /\ \A j \in 1 .. (m + n) : j > m => s[j] = l[j - m]
  BY JoinElements
<1>2. ilist.first = IF Len(s) = 0 THEN NULL ELSE s[1]
  BY Zenon DEF EndsOf
<1>3. \A k \in 1 .. Len(s) : heap[s[k]].next = IF k = Len(s) THEN NULL ELSE s[k + 1]
  BY Zenon DEF LinkedUp
<1>4. LastOf(a) = (IF m = 0 THEN NULL ELSE a[m]) /\ FirstOf(l) = IF n = 0 THEN NULL ELSE l[1]
  BY Zenon DEF LastOf, FirstOf
<1>5. m > 0 => a[m] \in Nodes
  OBVIOUS
<1> HIDE DEF s, m, n
<1>6. n > 0 => s[m + 1] = l[1]
  <2> SUFFICES ASSUME n > 0 PROVE s[m + 1] = l[1]
    BY Zenon
  <2>1. m + 1 \in 1 .. (m + n) /\ m + 1 > m /\ (m + 1) - m = 1
    BY <1>1
  <2> QED BY <1>1, <2>1, Zenon
<1>7. CASE m = 0
  BY <1>1, <1>2, <1>4, <1>6, <1>7, SMTT(30)
<1>8. CASE m > 0
  <2>1. m \in 1 .. Len(s) /\ m \in 1 .. m
    BY <1>1, <1>8
  <2>2. s[m] = a[m] /\ heap[a[m]].next = IF m = Len(s) THEN NULL ELSE s[m + 1]
    BY <1>1, <1>3, <2>1, Zenon
  <2>3. LastOf(a) = a[m] /\ LastOf(a) # NULL
    BY <1>1, <1>4, <1>5, <1>8, NullNoNode
  <2> QED BY <1>1, <1>4, <1>6, <2>2, <2>3, SMTT(30)
<1> QED BY <1>1, <1>7, <1>8, SMTT(30)

\* instrlist_postinsert: the chain stands where its original was.
LEMMA InsertStep ==
  ASSUME NoEmpty, DriverInv, Insert
  PROVE  DriverInv'
<1>1. block \in Blocks /\ heap \in Heaps /\ free \in Seq(Nodes)
  BY TypeFacts, Zenon
<1>2. pc = "insert" /\ UNCHANGED <<block, free, next_instr, prev_avx512_instr, rewritten>>
  BY Zenon DEF Insert
<1>3. CASE rewritten = NULL
  <2>1. pc' = "crash" /\ UNCHANGED <<heap, ilist, instr>>
    BY <1>3, Zenon DEF Insert
  <2>2. (TypeOK /\ free \in Seq(Nodes))'
    BY <1>2, <2>1, Zenon DEF DriverInv, TypeOK
  <2> QED BY <2>1, <2>2, Zenon DEF DriverInv
<1>4. CASE rewritten # NULL
  <2>1. PICK i, a, c, k, b : Between(i, a, c, k, b)
    BY <1>2, <1>4, Zenon DEF DriverInv
  <2>2. PICK l : l = k \o b
    BY Zenon
  <2>3. /\ i \in 1 .. Len(block)
        /\ a \in Seq(Nodes) /\ c \in Seq(Nodes) /\ k \in Seq(Nodes) /\ b \in Seq(Nodes)
        /\ Len(c) > 0 /\ rewritten = c[1]
    BY <2>1, Zenon DEF Between
  <2>4. /\ LinkedUp(heap, a \o l) /\ ilist = EndsOf(a \o l) /\ LinkedUp(heap, c)
        /\ AllOnce(((a \o c) \o l) \o free)
        /\ prev_avx512_instr = LastOf(a) /\ next_instr = FirstOf(b)
        /\ Whats(heap, a) = Done(i - 1) /\ Whats(heap, c \o k) = Replacement(i)
        /\ Whats(heap, b) = Rest(i)
    BY <2>1, <2>2, Zenon DEF Between
  <2>5. l \in Seq(Nodes) /\ a \o c \in Seq(Nodes) /\ (a \o c) \o l \in Seq(Nodes)
    BY <2>2, <2>3, JoinElements, Zenon
  <2>6. Distinct((a \o c) \o l) /\ Len((a \o c) \o l) <= MaxNodes
    BY <1>1, <2>4, <2>5, OnceFree, Zenon
  <2>7. Distinct(a \o l) /\ Distinct(c) /\ Apart(a \o l, c)
    BY <2>3, <2>5, <2>6, MiddleOut, Zenon
  <2>8. Len(c) \in 1 .. MaxNodes
    <3>1. Len((a \o c) \o l) = Len(a) + Len(c) + Len(l)
      BY <2>3, <2>5
    <3>2. Len(a) \in Nat /\ Len(c) \in Nat /\ Len(l) \in Nat
      BY <2>3, <2>5
    <3> QED BY <2>3, <2>6, <3>1, <3>2, DriverAssumption, SMTT(30)
  <2>9. Bottom(heap, rewritten) = c[Len(c)]
    BY <2>3, <2>4, <2>8, BottomIs, Zenon
  <2>10. (IF LastOf(a) = NULL THEN ilist.first ELSE heap[LastOf(a)].next) = FirstOf(l)
    BY <2>3, <2>4, <2>5, WhereNext, Zenon
  <2> DEFINE g == Linked(Linked(heap, LastOf(a), c[1]), c[Len(c)], FirstOf(l))
             ends == [first |-> IF LastOf(a) = NULL THEN c[1] ELSE EndsOf(a \o l).first,
                      last  |-> IF FirstOf(l) = NULL THEN c[Len(c)] ELSE EndsOf(a \o l).last]
  <2>11. heap' = g /\ ilist' = ends /\ instr' = next_instr /\ pc' = "loop"
    BY <1>4, <2>3, <2>4, <2>9, <2>10, ZenonT(60) DEF Insert
  <2>12. /\ g \in Heaps /\ LinkedUp(g, (a \o c) \o l) /\ ends = EndsOf((a \o c) \o l)
         /\ \A y \in Nodes : g[y].what = heap[y].what
    BY <1>1, <2>3, <2>4, <2>5, <2>7, PutLinks, SMTT(30)
  <2> HIDE DEF g, ends
  <2>13. PICK u, v : u = (a \o c) \o k /\ v = c \o k
    BY Zenon
  <2>14. /\ u \in Seq(Nodes) /\ v \in Seq(Nodes) /\ u = a \o v /\ (a \o c) \o l = u \o b
    <3>1. u \in Seq(Nodes) /\ v \in Seq(Nodes)
      BY <2>3, <2>5, <2>13, JoinElements, Zenon
    <3>2. (a \o c) \o k = a \o (c \o k)
      <4>1. Regroups(a, c, k)
        BY <2>3, NodesRegroup, Zenon
      <4> QED BY <4>1, Zenon DEF Regroups
    <3>3. ((a \o c) \o k) \o b = (a \o c) \o (k \o b)
      <4> DEFINE w == a \o c
      <4>1. w \in Seq(Nodes) /\ k \in Seq(Nodes) /\ b \in Seq(Nodes)
        BY <2>3, <2>5, Zenon
      <4> HIDE DEF w
      <4>2. (w \o k) \o b = w \o (k \o b)
        BY <4>1, NodesAssoc, Zenon
      <4> QED BY <4>2, Zenon DEF w
    <3> QED BY <2>2, <2>13, <3>1, <3>2, <3>3, Zenon
  <2>15. Whats(g, u) = Done(i) /\ Whats(g, b) = Rest(i)
    <3>1. Whats(g, a) = Whats(heap, a) /\ Whats(g, v) = Whats(heap, v) /\ Whats(g, b) = Whats(heap, b)
      BY <2>3, <2>12, <2>14, WhatsByWhat, ZenonT(60)
    <3>2. Whats(g, a \o v) = Whats(g, a) \o Whats(g, v)
      BY <2>3, <2>12, <2>14, WhatsConcat, Zenon
    <3>3. Done(i) = Done(i - 1) \o Replacement(i)
      <4> DEFINE j == i - 1
      <4>1. j \in 0 .. (Len(block) - 1) /\ j + 1 = i
        BY <1>1, <2>3, BlockType
      <4> HIDE DEF j
      <4>2. Done(j + 1) = Done(j) \o Replacement(j + 1)
        BY <1>1, <4>1, DoneNext, Zenon
      <4> QED BY <4>1, <4>2, Zenon DEF j
    <3> QED BY <2>4, <2>13, <2>14, <3>1, <3>2, <3>3, Zenon
  <2>16. At(i, u, b)'
    <3>1. Done(i)' = Done(i) /\ Rest(i)' = Rest(i) /\ block' = block
      BY <1>2, DoneSame, Zenon
    <3>2. i \in 0 .. Len(block)
      BY <2>3
    <3>3. heap' = g /\ ilist' = EndsOf(u \o b) /\ free' = free /\ instr' = FirstOf(b)
      BY <1>2, <2>4, <2>11, <2>12, <2>14, Zenon
    <3>4. LinkedUp(g, u \o b) /\ AllOnce((u \o b) \o free)
      BY <2>4, <2>12, <2>14, Zenon
    <3> QED BY <2>3, <2>14, <2>15, <3>1, <3>2, <3>3, <3>4, ZenonT(60) DEF At
  <2>17. (TypeOK /\ free \in Seq(Nodes))'
    <3>1. u \o b \in Seq(Nodes) /\ ilist' = EndsOf(u \o b) /\ heap' \in Heaps
      BY <2>3, <2>11, <2>12, <2>14, JoinElements, Zenon
    <3>2. EndsOf(u \o b) \in [first : Nodes \cup {NULL}, last : Nodes \cup {NULL}]
      BY <3>1, EndsType, Zenon
    <3>3. instr' \in Nodes \cup {NULL}
      BY <2>11, TypeFacts, Zenon
    <3> QED BY <1>2, <2>11, <3>1, <3>2, <3>3, TypeFacts, ZenonT(60) DEF TypeOK, Heaps
  <2> QED BY <2>11, <2>16, <2>17, Zenon DEF DriverInv
<1> QED BY <1>3, <1>4, Zenon

-----------------------------------------------------------------------------
\* The block as the builder hands it over.
LEMMA DriverInit ==
  ASSUME Init, NoEmpty
  PROVE  DriverInv
<1> DEFINE m == Len(block)
           b == [i \in 1 .. m |-> i]
           w == [i \in 1 .. m |-> <<i, 0>>]
           h == [x \in Nodes |-> [next |-> NULL, prev |-> NULL, what |-> NOP]]
           n == MaxNodes - m
           f == [k \in 1 .. n |-> m + k]
<1>1. block \in Blocks
  BY Zenon DEF Init
<1>2. m \in Nat /\ m > 0 /\ m <= MaxNodes /\ MaxNodes \in Nat /\ n \in Nat
  BY <1>1, BlockType, DriverAssumption
<1>3. heap = Chained(h, b, w) /\ free = f /\ pc = "loop" /\ instr = 1
      /\ ilist = [first |-> 1, last |-> m] /\ next_instr = NULL /\ prev_avx512_instr = NULL /\ rewritten = NULL
  BY Zenon DEF Init
<1> HIDE DEF m, n
<1>4. /\ b \in Seq(Nodes) /\ Len(b) = m /\ \A k \in 1 .. m : b[k] = k
  <2>1. b \in [1 .. m -> Nodes] /\ \A k \in 1 .. m : b[k] = k
    BY <1>2 DEF Nodes
  <2> HIDE DEF b
  <2> QED BY <1>2, <2>1
<1>5. f \in Seq(Nodes) /\ Len(f) = n /\ \A k \in 1 .. n : f[k] = m + k
  <2>1. f \in [1 .. n -> Nodes] /\ \A k \in 1 .. n : f[k] = m + k
    BY <1>2 DEF Nodes, n
  <2> HIDE DEF f
  <2> QED BY <1>2, <2>1
<1>6. w = Rest(0)
  <2>1. Rest(0) = [j \in 1 .. (m - 0) |-> <<0 + j, 0>>]
    BY Zenon DEF Rest, m
  <2>2. m - 0 = m /\ \A j \in 1 .. m : 0 + j = j
    BY <1>2
  <2> QED BY <2>1, <2>2, Zenon
<1>7. w \in Seq(Instrs) /\ Len(w) = m
  <2>1. 0 \in 0 .. Len(block) /\ Len(block) - 0 = m
    BY <1>2 DEF m
  <2> QED BY <1>1, <1>6, <2>1, RestType, Zenon
<1>8. h \in Heaps
  <2>1. NOP \in Instrs
    BY <1>2, DriverAssumption DEF NOP, Instrs
  <2> QED BY <2>1, Zenon DEF Heaps
<1>9. Distinct(b)
  BY <1>4, Zenon DEF Distinct
<1> HIDE DEF b, w, h, f
<1>10. /\ heap \in Heaps /\ LinkedUp(heap, b)
       /\ \A k \in 1 .. m : heap[b[k]].what = w[k]
  BY <1>3, <1>4, <1>7, <1>8, <1>9, ChainedLinks, SMTT(30)
<1>11. Whats(heap, b) = Rest(0)
  <2> DEFINE u == Whats(heap, b)
  <2>1. u \in Seq(Instrs) /\ Len(u) = m /\ \A k \in 1 .. m : u[k] = heap[b[k]].what
    BY <1>4, <1>10, WhatsType, Zenon
  <2> HIDE DEF u
  <2>2. \A k \in 1 .. Len(u) : u[k] = w[k]
    BY <1>10, <2>1, Zenon
  <2>3. u = w
    BY <1>7, <2>1, <2>2, SameElements, Zenon
  <2> QED BY <1>6, <2>3, Zenon DEF u
<1>12. Whats(heap, <<>>) = Done(0)
  <2>1. Done(0) = <<>>
    BY <1>1, DoneStep, Zenon
  <2>2. Whats(heap, <<>>) = <<>>
    BY DEF Whats
  <2> QED BY <2>1, <2>2, Zenon
<1>13. <<>> \o b = b /\ <<>> \in Seq(Nodes)
  BY <1>4, JoinEmpty
<1>14. AllOnce(b \o f)
  <2> DEFINE s == b \o f
  <2>1. /\ Len(s) = m + n
        /\ \A j \in 1 .. m : s[j] = b[j]
        /\ \A j \in 1 .. (m + n) : j > m => s[j] = f[j - m]
    <3>1. b \in Seq(Nodes) /\ f \in Seq(Nodes)
      BY <1>4, <1>5, Zenon
    <3>2. Len(b) \in Nat /\ Len(b) = m /\ Len(f) \in Nat /\ Len(f) = n
      BY <1>2, <1>4, <1>5, Zenon
    <3>3. /\ Len(s) = Len(b) + Len(f)
          /\ \A j \in 1 .. (Len(b) + Len(f)) : s[j] = IF j <= Len(b) THEN b[j] ELSE f[j - Len(b)]
      BY <3>1, JoinElements, Zenon
    <3> HIDE DEF s
    <3> QED BY <1>2, <3>2, <3>3
  <2>2. m + n = MaxNodes
    BY <1>2 DEF n
  <2> HIDE DEF s
  <2>3. \A j \in 1 .. MaxNodes : s[j] = j
    <3> SUFFICES ASSUME NEW j \in 1 .. MaxNodes PROVE s[j] = j
      BY Zenon
    <3>1. CASE j <= m
      <4>1. j \in 1 .. m
        BY <1>2, <3>1
      <4> QED BY <1>4, <2>1, <4>1, Zenon
    <3>2. CASE ~(j <= m)
      <4>1. j > m /\ j \in 1 .. (m + n) /\ j - m \in 1 .. n /\ m + (j - m) = j
        BY <1>2, <2>2, <3>2
      <4>2. s[j] = f[j - m] /\ f[j - m] = m + (j - m)
        BY <1>5, <2>1, <4>1, Zenon
      <4> QED BY <4>1, <4>2, Zenon
    <3> QED BY <3>1, <3>2, Zenon
  <2>4. Len(s) = MaxNodes
    BY <2>1, <2>2, Zenon
  <2>5. Distinct(s)
    BY <2>3, <2>4, Zenon DEF Distinct
  <2>6. {s[k] : k \in 1 .. Len(s)} = Nodes
    BY <2>3, <2>4, Zenon DEF Nodes
  <2> QED BY <2>4, <2>5, <2>6, Zenon DEF AllOnce, s
<1>15. EndsOf(b) = [first |-> 1, last |-> m] /\ FirstOf(b) = 1
  <2>1. 1 \in 1 .. m /\ m \in 1 .. m
    BY <1>2
  <2> QED BY <1>2, <1>4, <2>1 DEF EndsOf, FirstOf
<1>16. At(0, <<>>, b)
  <2>1. 0 \in 0 .. Len(block)
    BY <1>2 DEF m
  <2> QED BY <1>3, <1>4, <1>10, <1>11, <1>12, <1>13, <1>14, <1>15, <2>1, ZenonT(60) DEF At
<1>17. TypeOK /\ free \in Seq(Nodes)
  <2>1. \A k \in DOMAIN f : f[k] \in Nodes /\ \A j \in 1 .. (k - 1) : f[j] # f[k]
    BY <1>4, <1>5, <1>14, OnceFree, FreeType, ZenonT(60)
  <2>2. ilist \in [first : Nodes \cup {NULL}, last : Nodes \cup {NULL}] /\ instr \in Nodes
    BY <1>2, <1>3 DEF Nodes
  <2> QED BY <1>1, <1>3, <1>5, <1>10, <2>1, <2>2, ZenonT(60) DEF TypeOK, Heaps
<1> QED BY <1>3, <1>16, <1>17, Zenon DEF DriverInv

\* The invariant is about the variables alone.
LEMMA DriverStutter ==
  ASSUME DriverInv, UNCHANGED vars
  PROVE  DriverInv'
<1>1. /\ block' = block /\ heap' = heap /\ free' = free /\ ilist' = ilist /\ instr' = instr
      /\ next_instr' = next_instr /\ prev_avx512_instr' = prev_avx512_instr
      /\ rewritten' = rewritten /\ pc' = pc
  BY Zenon DEF vars
<1>2. \A i : Done(i)' = Done(i) /\ Rest(i)' = Rest(i) /\ Replacement(i)' = Replacement(i)
  BY <1>1, DoneSame, Zenon
<1>3. \A i, a, b : At(i, a, b)' <=> At(i, a, b)
  BY <1>1, <1>2, ZenonT(60) DEF At
<1>4. \A i, a, c, k, b : Between(i, a, c, k, b)' <=> Between(i, a, c, k, b)
  BY <1>1, <1>2 DEF Between
<1>5. (TypeOK /\ free \in Seq(Nodes))'
  BY <1>1, Zenon DEF DriverInv, TypeOK
<1> QED BY <1>1, <1>3, <1>4, <1>5, Zenon DEF DriverInv

\* The block is given once.
LEMMA SameBlock ==
  ASSUME [Next]_vars
  PROVE  block' = block
BY Zenon DEF Next, vars, Loop, Finish, CallEarly, CallLate, CallKept, CallNull, CallEmpty, Insert, Stopped

\* The inductive invariant of exec_rewrite_avx512_bb, on every block without an
\* instruction of rw_func_empty: between iterations the list is the
\* replacements of the instructions before the cursor and then the instructions
\* from the cursor on; between the call of a rewrite function and the insertion
\* its chain, its place and the rest of the list are still told apart.
THEOREM DriverInvariance == Spec => [](NoEmpty => DriverInv)
<1>1. Init => (NoEmpty => DriverInv)
  BY DriverInit, Zenon
<1>2. (NoEmpty => DriverInv) /\ [Next]_vars => (NoEmpty => DriverInv)'
  <2> SUFFICES ASSUME NoEmpty => DriverInv, [Next]_vars, NoEmpty'
               PROVE  DriverInv'
    BY Zenon
  <2>1. NoEmpty /\ DriverInv
    BY SameBlock, Zenon DEF NoEmpty
  <2>2. CASE Loop
    BY <2>1, <2>2, LoopStep, Zenon
  <2>3. CASE Finish
    BY <2>1, <2>3, FinishStep, ZenonT(60)
  <2>4. CASE CallEarly
    BY <2>1, <2>4, CallEarlyStep, Zenon
  <2>5. CASE CallLate
    BY <2>1, <2>5, CallLateStep, Zenon
  <2>6. CASE CallKept
    BY <2>1, <2>6, CallKeptStep, Zenon
  <2>7. CASE CallNull
    BY <2>1, <2>7, CallNullStep, Zenon
  <2>8. CASE CallEmpty
    BY <2>1, <2>8, CallEmptyStep, Zenon
  <2>9. CASE Insert
    BY <2>1, <2>9, InsertStep, Zenon
  <2>10. CASE Stopped
    BY <2>1, <2>10, DriverStutter, Zenon DEF Stopped
  <2>11. CASE UNCHANGED vars
    BY <2>1, <2>11, DriverStutter, Zenon
  <2> QED
    BY <2>2, <2>3, <2>4, <2>5, <2>6, <2>7, <2>8, <2>9, <2>10, <2>11, ZenonT(60) DEF Next
<1> QED
  BY <1>1, <1>2, PTL DEF Spec

-----------------------------------------------------------------------------
\* A walk from ilist->first meets both parts, in order.
LEMMA ListedAt ==
  ASSUME NoEmpty, DriverInv, AtRest
  PROVE  \E i, a, b, s : At(i, a, b) /\ s = a \o b /\ s \in Seq(Nodes) /\ Listed = s
<1>1. PICK i, a, b : At(i, a, b)
  BY Zenon DEF DriverInv, AtRest
<1>2. PICK s : s = a \o b
  BY Zenon
<1>3. s \in Seq(Nodes) /\ free \in Seq(Nodes)
  BY <1>1, <1>2, TypeFacts, JoinElements, Zenon DEF At
<1>4. LinkedUp(heap, s) /\ ilist = EndsOf(s) /\ AllOnce(s \o free)
  BY <1>1, <1>2, Zenon DEF At
<1>5. Len(s) <= MaxNodes
  BY <1>3, <1>4, OnceFree, Zenon
<1>6. Listed = s
  BY <1>3, <1>4, <1>5, ListedIs, Zenon
<1> QED BY <1>1, <1>2, <1>3, <1>6, Zenon

\* Between iterations of exec_rewrite_avx512_bb every node of the heap is in the
\* instruction list once or on the free list once, whatever the block: a
\* function that destroys its original first gets that node back for its chain,
\* and no instr_destroy frees a listed node or a free one.
THEOREM DriverNothingLost == Spec => []NothingLost
<1>1. (NoEmpty => DriverInv) => NothingLost
  <2> SUFFICES ASSUME NoEmpty, DriverInv, AtRest
               PROVE  Len(Listed \o free) = MaxNodes
                      /\ {(Listed \o free)[k] : k \in DOMAIN (Listed \o free)} = Nodes
    BY Zenon DEF NothingLost, HeapPartition, NoEmpty
  <2>1. PICK i, a, b, s : At(i, a, b) /\ s = a \o b /\ s \in Seq(Nodes) /\ Listed = s
    BY ListedAt, Zenon
  <2> DEFINE u == s \o free
  <2>2. AllOnce(u)
    BY <2>1, Zenon DEF At
  <2>3. u \in Seq(Nodes)
    BY <2>1, TypeFacts, JoinElements, Zenon
  <2> HIDE DEF u
  <2>4. DOMAIN u = 1 .. Len(u)
    BY <2>3
  <2>5. Len(u) = MaxNodes /\ {u[k] : k \in DOMAIN u} = Nodes
    BY <2>2, <2>4, Zenon DEF AllOnce
  <2> QED BY <2>1, <2>5, Zenon DEF u
<1> QED BY <1>1, DriverInvariance, PTL

\* Between iterations instrlist_remove and instrlist_postinsert find prev links
\* that mirror the next links, and the list's ends, on every block without an
\* instruction of rw_func_empty.
THEOREM DriverLinks == Spec => [](NoEmpty => LinksConsistent)
<1>1. (NoEmpty => DriverInv) => (NoEmpty => LinksConsistent)
  <2> SUFFICES ASSUME NoEmpty, DriverInv, AtRest
               PROVE  /\ ilist.last = IF Len(Listed) = 0 THEN NULL ELSE Listed[Len(Listed)]
                      /\ \A k \in 1 .. Len(Listed) :
                           heap[Listed[k]].prev = IF k = 1 THEN NULL ELSE Listed[k - 1]
    BY Zenon DEF LinksConsistent
  <2>1. PICK i, a, b, s : At(i, a, b) /\ s = a \o b /\ s \in Seq(Nodes) /\ Listed = s
    BY ListedAt, Zenon
  <2>2. LinkedUp(heap, s) /\ ilist = EndsOf(s)
    BY <2>1, Zenon DEF At
  <2>3. /\ ilist.last = IF Len(s) = 0 THEN NULL ELSE s[Len(s)]
        /\ \A k \in 1 .. Len(s) : heap[s[k]].prev = IF k = 1 THEN NULL ELSE s[k - 1]
    BY <2>2, Zenon DEF LinkedUp, EndsOf
  <2> QED BY <2>1, <2>3, Zenon
<1> QED BY <1>1, DriverInvariance, PTL

\* Between iterations the list is the block in program order, each instruction
\* before the cursor replaced by what its rewrite function returned and each
\* one from the cursor on untouched, on every block without an instruction of
\* rw_func_empty.
THEOREM DriverInOrder == Spec => [](NoEmpty => InProgramOrder)
<1>1. (NoEmpty => DriverInv) => (NoEmpty => InProgramOrder)
  <2> DEFINE n == IF instr = NULL THEN Len(block) ELSE heap[instr].what[1] - 1
  <2> SUFFICES ASSUME NoEmpty, DriverInv, AtRest
               PROVE  [k \in DOMAIN Listed |-> heap[Listed[k]].what] = Rewritten(n)
    BY Zenon DEF InProgramOrder
  <2>1. PICK i, a, b, s : At(i, a, b) /\ s = a \o b /\ s \in Seq(Nodes) /\ Listed = s
    BY ListedAt, Zenon
  <2>2. block \in Blocks /\ heap \in Heaps /\ free \in Seq(Nodes)
    BY TypeFacts, Zenon
  <2>3. /\ i \in 0 .. Len(block) /\ a \in Seq(Nodes) /\ b \in Seq(Nodes)
        /\ instr = FirstOf(b) /\ Whats(heap, a) = Done(i) /\ Whats(heap, b) = Rest(i)
    BY <2>1, Zenon DEF At
  <2>4. [k \in DOMAIN s |-> heap[s[k]].what] = Whats(heap, s)
    BY <2>1 DEF Whats
  <2>5. Whats(heap, s) = Done(i) \o Rest(i)
    BY <2>1, <2>2, <2>3, WhatsConcat, SMTT(30)
  <2>6. Rewritten(i) = Done(i) \o Rest(i)
    BY <2>2, <2>3, RewrittenIs, Zenon
  <2>7. n = i
    <3>1. CASE instr = NULL
      <4>1. Len(Rest(i)) = Len(block) - i /\ Len(block) \in Nat
        BY <2>2, <2>3, RestType, BlockType, Zenon
      <4>2. Len(b) = Len(block) - i
        BY <2>2, <2>3, <4>1, WhatsType, Zenon
      <4>3. Len(b) # 0 => b[1] \in Nodes
        BY <2>3
      <4>4. Len(b) = 0
        BY <2>3, <3>1, <4>3, NullNoNode, Zenon DEF FirstOf
      <4> QED BY <2>3, <3>1, <4>1, <4>2, <4>4
    <3>2. CASE instr # NULL
      <4>1. heap[instr].what = <<i + 1, 0>>
        BY <2>1, <2>2, <3>2, AtCursor, Zenon
      <4>2. heap[instr].what[1] = i + 1
        BY <4>1
      <4> QED BY <2>3, <3>2, <4>2
    <3> QED BY <3>1, <3>2, Zenon
  <2> HIDE DEF n
  <2> QED BY <2>1, <2>4, <2>5, <2>6, <2>7, Zenon
<1> QED BY <1>1, DriverInvariance, PTL
=============================================================================
