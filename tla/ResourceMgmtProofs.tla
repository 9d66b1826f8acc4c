------------------------- MODULE ResourceMgmtProofs -------------------------
(***************************************************************************)
(* The queue resource manager implements QueueRanges, a failed update      *)
(* leaves a function what it had, and the active queues are counted, for   *)
(* any functions and any number of queues.                                 *)
(*                                                                         *)
(* The first part is about the free list alone.  What keeps its calls      *)
(* right is that its nodes are in order and do not overlap (InOrder): then *)
(* giving a chunk back adds its queues and leaves it inside one node, and  *)
(* cutting queues out of a node takes exactly them.  What a chunk and a    *)
(* list stand for are sets of queues (Queues, FreeOf); the second part     *)
(* says what each call does to the sets, the third takes the steps of the  *)
(* drivers one by one to the steps of QueueRanges, and the last one counts *)
(* the queues that they add and remove.                                    *)
(***************************************************************************)
EXTENDS ResourceMgmtProps, SequenceTheorems, FiniteSetTheorems, WellFoundedInduction,
        TLAPS

-----------------------------------------------------------------------------
(* Induction, from the order of the natural numbers. *)

\* A set of natural numbers that is not empty has a least element.
LEMMA LeastOf ==
  ASSUME NEW T, T \subseteq Nat, T # {}
  PROVE  \E m \in T : \A k \in T : m <= k
<1>1. \E x \in T : \A y \in T : ~ (<<y, x>> \in OpToRel(<, Nat))
  BY WFMin, NatLessThanWellFounded
<1>2. PICK x \in T : \A y \in T : ~ (<<y, x>> \in OpToRel(<, Nat))
  BY <1>1
<1>3. \A y \in T : ~(y < x)
  BY <1>2 DEF OpToRel
<1>. QED BY <1>3

\* What holds of 0, and of k if of k - 1, holds up to n.
LEMMA UpTo ==
  ASSUME NEW n \in Nat, NEW T, T \subseteq 0 .. n, 0 \in T,
         \A k \in 1 .. n : k - 1 \in T => k \in T
  PROVE  T = 0 .. n
<1>1. ASSUME (0 .. n) \ T # {} PROVE FALSE
  <2>1. \E m \in (0 .. n) \ T : \A k \in (0 .. n) \ T : m <= k
    <3>. DEFINE U == (0 .. n) \ T
    <3>1. U \subseteq Nat /\ U # {}
      BY <1>1
    <3>. HIDE DEF U
    <3>2. \E m \in U : \A k \in U : m <= k
      BY <3>1, LeastOf
    <3>. QED BY <3>2 DEF U
  <2>. PICK m \in (0 .. n) \ T : \A k \in (0 .. n) \ T : m <= k
    BY <2>1
  <2>2. m \in 1 .. n /\ m - 1 \in 0 .. n /\ ~(m <= m - 1)
    OBVIOUS
  <2>. QED BY <2>2
<1>2. \A k \in 0 .. n : k \in T
  BY <1>1
<1>3. \A k \in T : k \in 0 .. n
  OBVIOUS
<1>. QED BY <1>2, <1>3

\* g joins the nodes of the list one by one, as qdma_submit_to_free_list does.
Chain(list, n, g) ==
    g = [k \in 0 .. n |-> IF k = 0 THEN <<>> ELSE Join(g[k - 1], list[k])]

\* The recursive function that Merge defines exists.
LEMMA ChainExists ==
  ASSUME NEW list, NEW n \in Nat
  PROVE  \E g : Chain(list, n, g)
<1>. DEFINE T == {k \in 0 .. n : \E g : Chain(list, k, g)}
<1>1. 0 \in T
  <2>. DEFINE g == [k \in 0 .. 0 |-> <<>>]
  <2>1. Chain(list, 0, g)
    BY DEF Chain
  <2>. QED BY <2>1
<1>2. ASSUME NEW k \in 1 .. n, k - 1 \in T
      PROVE  k \in T
  <2>1. PICK g : Chain(list, k - 1, g)
    BY <1>2
  <2>. DEFINE h == [i \in 0 .. k |-> IF i = k THEN Join(g[k - 1], list[k]) ELSE g[i]]
  <2>2. ASSUME NEW i \in 0 .. k
        PROVE  h[i] = IF i = 0 THEN <<>> ELSE Join(h[i - 1], list[i])
    <3>1. CASE i = k
      <4>1. h[i] = Join(g[k - 1], list[k]) /\ h[i - 1] = g[k - 1] /\ i # 0
        BY <3>1
      <4>. QED BY <3>1, <4>1
    <3>2. CASE i # k
      <4>1. i \in 0 .. k - 1 /\ h[i] = g[i] /\ (i # 0 => h[i - 1] = g[i - 1])
        BY <3>2
      <4>2. g[i] = IF i = 0 THEN <<>> ELSE Join(g[i - 1], list[i])
        BY <2>1, <4>1 DEF Chain
      <4>. QED BY <4>1, <4>2
    <3>. QED BY <3>1, <3>2
  <2>3. h = [i \in 0 .. k |-> IF i = 0 THEN <<>> ELSE Join(h[i - 1], list[i])]
    <3>. DEFINE e == [i \in 0 .. k |-> IF i = 0 THEN <<>> ELSE Join(h[i - 1], list[i])]
    <3>1. DOMAIN h = 0 .. k /\ DOMAIN e = 0 .. k /\ h = [i \in 0 .. k |-> h[i]] /\ e = [i \in 0 .. k |-> e[i]]
      OBVIOUS
    <3>2. \A i \in 0 .. k : h[i] = e[i]
      BY <2>2
    <3>. HIDE DEF h, e
    <3>3. h = e
      BY <3>1, <3>2
    <3>. QED BY <3>3 DEF e
  <2>4. Chain(list, k, h)
    BY <2>3 DEF Chain
  <2>. QED BY <2>4
<1>3. T = 0 .. n
  <2>. HIDE DEF T
  <2>1. T \subseteq 0 .. n
    BY DEF T
  <2>. QED BY <1>1, <1>2, <2>1, UpTo
<1>. QED BY <1>3

LEMMA MergeChain ==
  ASSUME NEW list, Len(list) \in Nat
  PROVE  \E g : Chain(list, Len(list), g) /\ Merge(list) = g[Len(list)]
<1>. DEFINE g == CHOOSE g : Chain(list, Len(list), g)
<1>1. Chain(list, Len(list), g)
  BY ChainExists
<1>2. Merge(list) = g[Len(list)]
  BY DEF Merge, Chain
<1>. QED BY <1>1, <1>2

-----------------------------------------------------------------------------
(* The free list: nodes in order that do not overlap, the queues they cover, *)
(* and the chunks that lie inside one of them.                               *)

InOrder(list) ==
    /\ list \in Seq(Node)
    /\ \A i, j \in 1 .. Len(list) : i < j => End(list[i]) <= list[j].qbase
Covers(list, q) == \E i \in 1 .. Len(list) : list[i].qbase <= q /\ q < End(list[i])
Within(list, c) ==
    \E i \in 1 .. Len(list) : list[i].qbase <= c.qbase /\ End(c) <= End(list[i])

LEMMA NodeFacts ==
  ASSUME NEW c \in Node
  PROVE  /\ c.qbase \in Nat /\ c.total \in Nat /\ c.total > 0 /\ End(c) \in Nat
         /\ c.qbase < End(c) /\ c = [qbase |-> c.qbase, total |-> c.total]
BY DEF Node, End

\* A list by the bounds of its nodes.
Bounds(list, n, lo, hi) ==
    /\ n \in Nat /\ n = Len(list) /\ lo \in [1 .. n -> Nat] /\ hi \in [1 .. n -> Nat]
    /\ \A i \in 1 .. n : lo[i] = list[i].qbase /\ hi[i] = End(list[i]) /\ lo[i] < hi[i]

LEMMA BoundsExist ==
  ASSUME NEW list \in Seq(Node)
  PROVE  \E n, lo, hi : Bounds(list, n, lo, hi)
<1>. DEFINE lo == [i \in 1 .. Len(list) |-> list[i].qbase]
            hi == [i \in 1 .. Len(list) |-> End(list[i])]
<1>1. Len(list) \in Nat /\ \A i \in 1 .. Len(list) : list[i] \in Node
  OBVIOUS
<1>2. /\ \A i \in 1 .. Len(list) : lo[i] = list[i].qbase /\ hi[i] = End(list[i])
      /\ \A i \in 1 .. Len(list) : lo[i] \in Nat /\ hi[i] \in Nat /\ lo[i] < hi[i]
  BY <1>1, NodeFacts
<1>3. lo \in [1 .. Len(list) -> Nat] /\ hi \in [1 .. Len(list) -> Nat]
  BY <1>2
<1>. HIDE DEF lo, hi
<1>. QED BY <1>1, <1>2, <1>3 DEF Bounds

\* What the three predicates say of the bounds.
LEMMA InBounds ==
  ASSUME NEW list, NEW n, NEW lo, NEW hi, Bounds(list, n, lo, hi)
  PROVE  /\ InOrder(list) <=> /\ list \in Seq(Node)
                              /\ \A i, j \in 1 .. n : i < j => hi[i] <= lo[j]
         /\ \A q : Covers(list, q) <=> \E i \in 1 .. n : lo[i] <= q /\ q < hi[i]
         /\ \A c : Within(list, c) <=> \E i \in 1 .. n : lo[i] <= c.qbase /\ End(c) <= hi[i]
BY DEF Bounds, InOrder, Covers, Within

\* The last node of an ordered list ends behind all the others.
LEMMA LastEnds ==
  ASSUME NEW n \in Nat, NEW lo \in [1 .. n -> Nat], NEW hi \in [1 .. n -> Nat],
         \A i \in 1 .. n : lo[i] < hi[i],
         \A i, j \in 1 .. n : i < j => hi[i] <= lo[j]
  PROVE  \A i \in 1 .. n : hi[i] <= hi[n]
<1>. TAKE i \in 1 .. n
<1>1. CASE i = n
  BY <1>1
<1>2. CASE i # n
  <2>1. n \in 1 .. n /\ hi[i] <= lo[n] /\ lo[n] < hi[n]
    BY <1>2
  <2>. QED BY <2>1
<1>. QED BY <1>1, <1>2

\* A node behind all those of the list is appended to it, or makes its last one longer.
LEMMA JoinKeeps ==
  ASSUME NEW list, InOrder(list), NEW c \in Node,
         list # <<>> => End(list[Len(list)]) <= c.qbase
  PROVE  /\ InOrder(Join(list, c)) /\ Join(list, c) # <<>>
         /\ End(Join(list, c)[Len(Join(list, c))]) = End(c)
         /\ \A q \in Int : Covers(Join(list, c), q)
                              <=> Covers(list, q) \/ (c.qbase <= q /\ q < End(c))
         /\ Within(Join(list, c), c)
         /\ \A d \in Node : Within(list, d) => Within(Join(list, c), d)
<1>. DEFINE j == Join(list, c)
<1>0. list \in Seq(Node)
  BY DEF InOrder
<1>1. PICK n, lo, hi : Bounds(list, n, lo, hi)
  BY <1>0, BoundsExist
<1>2. /\ n \in Nat /\ n = Len(list) /\ lo \in [1 .. n -> Nat] /\ hi \in [1 .. n -> Nat]
      /\ \A i \in 1 .. n : lo[i] < hi[i]
      /\ \A i, k \in 1 .. n : i < k => hi[i] <= lo[k]
      /\ list # <<>> => n \in 1 .. n
  <2>1. \A i, k \in 1 .. n : i < k => hi[i] <= lo[k]
    BY <1>1, InBounds
  <2>2. list # <<>> => Len(list) \in 1 .. Len(list)
    BY <1>0
  <2>. QED BY <1>1, <2>1, <2>2 DEF Bounds
<1>3. PICK b \in Nat, t \in Nat : b = c.qbase /\ t = End(c) /\ b < t
  <2>1. c.qbase \in Nat /\ End(c) \in Nat /\ c.qbase < End(c)
    BY NodeFacts
  <2>. QED BY <2>1
<1>4. \A i \in 1 .. n : hi[i] <= b
  <2>. TAKE i \in 1 .. n
  <2>1. hi[i] <= hi[n] /\ n \in 1 .. n /\ hi[n] \in Nat
    BY <1>2, LastEnds
  <2>2. hi[n] = End(list[n]) /\ list # <<>>
    BY <1>1, <1>2, <2>1 DEF Bounds
  <2>3. hi[n] <= b
    BY <1>2, <1>3, <2>2
  <2>. QED BY <1>2, <2>1, <2>3
<1>5. CASE list # <<>> /\ End(list[n]) = c.qbase
  <2>. DEFINE e == [qbase |-> list[n].qbase, total |-> list[n].total + c.total]
  <2>0. n \in 1 .. n /\ list[n] \in Node /\ hi[n] = b /\ lo[n] = list[n].qbase
    BY <1>0, <1>1, <1>2, <1>3, <1>5 DEF Bounds
  <2>1. j = [list EXCEPT ![n] = e]
    <3>1. list[n] = [qbase |-> list[n].qbase, total |-> list[n].total]
      BY <2>0, NodeFacts
    <3>2. [list[n] EXCEPT !.total = @ + c.total] = e
      BY <3>1
    <3>3. j = [list EXCEPT ![n] = [list[n] EXCEPT !.total = @ + c.total]]
      BY <1>2, <1>5 DEF Join, Last
    <3>. QED BY <3>2, <3>3
  <2>2. e \in Node /\ e.qbase = lo[n] /\ End(e) = t
    <3>1. End(list[n]) = list[n].qbase + list[n].total /\ End(c) = c.qbase + c.total
      BY DEF End
    <3>2. /\ list[n].qbase \in Nat /\ list[n].total \in Nat /\ list[n].total > 0
          /\ c.qbase \in Nat /\ c.total \in Nat /\ c.total > 0
      BY <2>0, NodeFacts
    <3>3. e.qbase = list[n].qbase /\ e.total = list[n].total + c.total
      OBVIOUS
    <3>4. End(e) = list[n].qbase + (list[n].total + c.total)
      BY <3>3 DEF End
    <3>5. End(e) = End(c)
      <4>1. list[n].qbase + (list[n].total + c.total)
              = (list[n].qbase + list[n].total) + c.total
        BY <3>2
      <4>. QED BY <1>5, <3>1, <3>4, <4>1
    <3>6. e \in Node
      BY <3>2 DEF Node
    <3>. QED BY <1>3, <2>0, <3>3, <3>5, <3>6
  <2>3. /\ j \in Seq(Node) /\ Len(j) = n /\ j[n] = e
        /\ \A i \in 1 .. n : i # n => j[i] = list[i]
    BY <1>0, <1>2, <2>0, <2>1, <2>2
  <2>. HIDE DEF j, e
  <2>. DEFINE g == [hi EXCEPT ![n] = t]
  <2>4. g \in [1 .. n -> Nat] /\ g[n] = t /\ \A i \in 1 .. n : i # n => g[i] = hi[i]
    BY <1>2, <1>3, <2>0
  <2>. HIDE DEF g
  <2>5. Bounds(j, n, lo, g)
    BY <1>1, <1>2, <1>3, <2>0, <2>2, <2>3, <2>4 DEF Bounds
  <2>6. \A i, k \in 1 .. n : i < k => g[i] <= lo[k]
    BY <1>2, <2>4
  <2>7. InOrder(j) /\ j # <<>> /\ End(j[Len(j)]) = End(c)
    BY <1>2, <1>3, <2>0, <2>2, <2>3, <2>5, <2>6, InBounds
  <2>8. ASSUME NEW q \in Int
        PROVE  Covers(j, q) <=> Covers(list, q) \/ (b <= q /\ q < t)
    <3>1. (\E i \in 1 .. n : lo[i] <= q /\ q < g[i])
            <=> (\E i \in 1 .. n : lo[i] <= q /\ q < hi[i]) \/ (b <= q /\ q < t)
      BY <1>2, <1>3, <2>0, <2>4
    <3>. QED BY <1>1, <2>5, <3>1, InBounds
  <2>9. Within(j, c)
    <3>1. lo[n] <= b /\ t <= g[n] /\ n \in 1 .. n
      BY <1>2, <1>3, <2>0, <2>4
    <3>. QED BY <1>3, <2>5, <3>1, InBounds
  <2>10. ASSUME NEW d \in Node, Within(list, d)
         PROVE  Within(j, d)
    <3>1. PICK i \in 1 .. n : lo[i] <= d.qbase /\ End(d) <= hi[i]
      BY <1>1, <2>10, InBounds
    <3>2. End(d) <= g[i]
      BY <1>2, <1>3, <2>0, <2>4, <3>1, NodeFacts
    <3>. QED BY <2>5, <3>1, <3>2, InBounds
  <2>11. \A q \in Int : Covers(j, q) <=> Covers(list, q) \/ (c.qbase <= q /\ q < End(c))
    BY <1>3, <2>8
  <2>. QED BY <2>7, <2>9, <2>10, <2>11 DEF j
<1>6. CASE ~(list # <<>> /\ End(list[n]) = c.qbase)
  <2>1. j = Append(list, c)
    BY <1>2, <1>6 DEF Join, Last
  <2>2. /\ j \in Seq(Node) /\ Len(j) = n + 1 /\ j[n + 1] = c /\ j # <<>>
        /\ \A i \in 1 .. n : j[i] = list[i]
    BY <1>0, <1>2, <2>1
  <2>. HIDE DEF j
  <2>. DEFINE l == [i \in 1 .. n + 1 |-> IF i = n + 1 THEN b ELSE lo[i]]
              g == [i \in 1 .. n + 1 |-> IF i = n + 1 THEN t ELSE hi[i]]
  <2>3. n + 1 \in 1 .. n + 1 /\ \A i \in 1 .. n + 1 : i \in 1 .. n \/ i = n + 1
    BY <1>2
  <2>4. /\ l \in [1 .. n + 1 -> Nat] /\ g \in [1 .. n + 1 -> Nat]
        /\ l[n + 1] = b /\ g[n + 1] = t
        /\ \A i \in 1 .. n : i \in 1 .. n + 1 /\ l[i] = lo[i] /\ g[i] = hi[i]
    BY <1>2, <1>3, <2>3
  <2>. HIDE DEF g, l
  <2>5. Bounds(j, n + 1, l, g)
    <3>1. \A i \in 1 .. n + 1 : l[i] = j[i].qbase /\ g[i] = End(j[i]) /\ l[i] < g[i]
      BY <1>1, <1>3, <2>2, <2>3, <2>4 DEF Bounds
    <3>. QED BY <1>2, <2>2, <2>4, <3>1 DEF Bounds
  <2>6. \A i, k \in 1 .. n + 1 : i < k => g[i] <= l[k]
    <3>. TAKE i, k \in 1 .. n + 1
    <3>. SUFFICES ASSUME i < k PROVE g[i] <= l[k]
      OBVIOUS
    <3>1. i \in 1 .. n
      BY <1>2
    <3>. QED BY <1>2, <1>4, <2>3, <2>4, <3>1
  <2>7. InOrder(j) /\ j # <<>> /\ End(j[Len(j)]) = End(c)
    BY <2>2, <2>5, <2>6, InBounds
  <2>8. ASSUME NEW q \in Int
        PROVE  Covers(j, q) <=> Covers(list, q) \/ (b <= q /\ q < t)
    <3>1. (\E i \in 1 .. n + 1 : l[i] <= q /\ q < g[i])
            <=> (\E i \in 1 .. n : lo[i] <= q /\ q < hi[i]) \/ (b <= q /\ q < t)
      BY <2>3, <2>4
    <3>. QED BY <1>1, <2>5, <3>1, InBounds
  <2>9. Within(j, c)
    <3>1. l[n + 1] <= b /\ t <= g[n + 1]
      BY <1>3, <2>4
    <3>. QED BY <1>3, <2>3, <2>5, <3>1, InBounds
  <2>10. ASSUME NEW d \in Node, Within(list, d)
         PROVE  Within(j, d)
    <3>1. PICK i \in 1 .. n : lo[i] <= d.qbase /\ End(d) <= hi[i]
      BY <1>1, <2>10, InBounds
    <3>2. i \in 1 .. n + 1 /\ l[i] <= d.qbase /\ End(d) <= g[i]
      BY <2>4, <3>1
    <3>. QED BY <2>5, <3>2, InBounds
  <2>11. \A q \in Int : Covers(j, q) <=> Covers(list, q) \/ (c.qbase <= q /\ q < End(c))
    BY <1>3, <2>8
  <2>. QED BY <2>7, <2>9, <2>10, <2>11 DEF j
<1>. QED BY <1>5, <1>6

\* De-fragmentation keeps the order and the queues, and no chunk is torn.
LEMMA MergeKeeps ==
  ASSUME NEW list, InOrder(list)
  PROVE  /\ InOrder(Merge(list))
         /\ \A q \in Int : Covers(Merge(list), q) <=> Covers(list, q)
         /\ \A i \in 1 .. Len(list) : Within(Merge(list), list[i])
<1>1. PICK n \in Nat : n = Len(list) /\ \A i \in 1 .. n : list[i] \in Node
  BY DEF InOrder
<1>2. PICK g : Chain(list, n, g) /\ Merge(list) = g[n]
  BY <1>1, MergeChain
<1>3. /\ g[0] = <<>>
      /\ \A k \in 1 .. n : g[k] = Join(g[k - 1], list[k])
  BY <1>1, <1>2 DEF Chain
<1>. DEFINE Upto(k) ==
       /\ InOrder(g[k])
       /\ k > 0 => g[k] # <<>> /\ End(g[k][Len(g[k])]) = End(list[k])
       /\ k = 0 => g[k] = <<>>
       /\ \A q \in Int : Covers(g[k], q)
                           <=> \E i \in 1 .. k : list[i].qbase <= q /\ q < End(list[i])
       /\ \A i \in 1 .. k : Within(g[k], list[i])
<1>4. Upto(0)
  <2>1. InOrder(<<>>) /\ \A q : ~Covers(<<>>, q)
    BY DEF InOrder, Covers
  <2>. QED BY <1>3, <2>1
<1>5. ASSUME NEW k \in 1 .. n, Upto(k - 1)
      PROVE  Upto(k)
  <2>1. /\ list[k] \in Node /\ g[k] = Join(g[k - 1], list[k]) /\ InOrder(g[k - 1])
        /\ k - 1 \in 0 .. n /\ k - 1 < k /\ k > 0
        /\ \A i \in 1 .. k : i \in 1 .. k - 1 \/ i = k
        /\ \A i \in 1 .. k - 1 : i \in 1 .. k /\ list[i] \in Node
        /\ k \in 1 .. k
    BY <1>1, <1>3, <1>5
  <2>2. g[k - 1] # <<>> => End(g[k - 1][Len(g[k - 1])]) <= list[k].qbase
    <3>. SUFFICES ASSUME g[k - 1] # <<>> PROVE End(g[k - 1][Len(g[k - 1])]) <= list[k].qbase
      OBVIOUS
    <3>1. k - 1 > 0 /\ End(g[k - 1][Len(g[k - 1])]) = End(list[k - 1])
      BY <1>5, <2>1
    <3>2. k - 1 \in 1 .. n /\ k - 1 < k
      BY <2>1, <3>1
    <3>. QED BY <1>1, <3>1, <3>2 DEF InOrder
  <2>3. /\ InOrder(g[k]) /\ g[k] # <<>> /\ End(g[k][Len(g[k])]) = End(list[k])
        /\ \A q \in Int : Covers(g[k], q) <=> Covers(g[k - 1], q)
                                        \/ (list[k].qbase <= q /\ q < End(list[k]))
        /\ Within(g[k], list[k])
        /\ \A d \in Node : Within(g[k - 1], d) => Within(g[k], d)
    BY <2>1, <2>2, JoinKeeps
  <2>4. ASSUME NEW q \in Int
        PROVE  Covers(g[k], q) <=> \E i \in 1 .. k : list[i].qbase <= q /\ q < End(list[i])
    BY <1>5, <2>1, <2>3
  <2>5. \A i \in 1 .. k : Within(g[k], list[i])
    BY <1>5, <2>1, <2>3
  <2>. QED BY <2>1, <2>3, <2>4, <2>5
<1>6. Upto(n)
  <2>. DEFINE T == {k \in 0 .. n : Upto(k)}
  <2>. HIDE DEF Upto
  <2>1. T \subseteq 0 .. n /\ 0 \in T /\ \A k \in 1 .. n : k - 1 \in T => k \in T
    BY <1>1, <1>4, <1>5
  <2>. HIDE DEF T
  <2>2. T = 0 .. n
    BY <1>1, <2>1, UpTo
  <2>3. n \in T
    BY <1>1, <2>2
  <2>. QED BY <2>3 DEF T
<1>. QED BY <1>1, <1>2, <1>6 DEF Covers

\* j is list with c at p.
Inserted(list, n, p, c, j) ==
    /\ j \in Seq(Node) /\ Len(j) = n + 1 /\ j[p] = c
    /\ \A i \in 1 .. p - 1 : j[i] = list[i]
    /\ \A i \in p .. n : j[i + 1] = list[i]

LEMMA InsertAtIs ==
  ASSUME NEW list \in Seq(Node), NEW n \in Nat, n = Len(list), NEW p \in 1 .. n, NEW c \in Node
  PROVE  Inserted(list, n, p, c, InsertAt(list, p, c))
<1>. DEFINE front == SubSeq(list, 1, p - 1)
            back  == SubSeq(list, p, n)
            mid   == front \o <<c>>
<1>1. \A i \in 1 .. n : list[i] \in Node
  OBVIOUS
<1>2. /\ front \in Seq(Node) /\ Len(front) = p - 1
      /\ \A i \in 1 .. p - 1 : front[i] = list[i]
  <2>1. 1 \in Int /\ p - 1 \in Int /\ \A i \in 1 .. p - 1 : list[i] \in Node
    BY <1>1
  <2>2. /\ front \in Seq(Node) /\ Len(front) = IF 1 <= p - 1 THEN p - 1 - 1 + 1 ELSE 0
        /\ \A i \in 1 .. (p - 1) - 1 + 1 : front[i] = list[1 + i - 1]
    BY <2>1, SubSeqProperties
  <2>. HIDE DEF front
  <2>3. Len(front) = p - 1 /\ \A i \in 1 .. p - 1 : i \in 1 .. (p - 1) - 1 + 1 /\ 1 + i - 1 = i
    BY <2>2
  <2>. QED BY <2>2, <2>3
<1>3. /\ back \in Seq(Node) /\ Len(back) = n - p + 1
      /\ \A i \in 1 .. n - p + 1 : back[i] = list[p + i - 1]
  <2>1. p \in Int /\ n \in Int /\ p <= n /\ \A i \in p .. n : list[i] \in Node
    BY <1>1
  <2>. QED BY <2>1, SubSeqProperties
<1>. HIDE DEF front, back
<1>4. /\ mid \in Seq(Node) /\ Len(mid) = p /\ mid[p] = c
      /\ \A i \in 1 .. p - 1 : mid[i] = list[i]
  <2>1. <<c>> \in Seq(Node) /\ Len(<<c>>) = 1 /\ <<c>>[1] = c
    OBVIOUS
  <2>2. /\ mid \in Seq(Node) /\ Len(mid) = Len(front) + Len(<<c>>)
        /\ \A i \in 1 .. Len(front) + Len(<<c>>) :
             mid[i] = IF i <= Len(front) THEN front[i] ELSE <<c>>[i - Len(front)]
    BY <1>2, <2>1, ConcatProperties
  <2>. HIDE DEF mid
  <2>3. p \in 1 .. Len(front) + Len(<<c>>) /\ ~(p <= Len(front)) /\ p - Len(front) = 1
    BY <1>2, <2>1
  <2>4. \A i \in 1 .. p - 1 : i \in 1 .. Len(front) + Len(<<c>>) /\ i <= Len(front)
    BY <1>2, <2>1
  <2>. QED BY <1>2, <2>1, <2>2, <2>3, <2>4
<1>. HIDE DEF mid
<1>. DEFINE j == mid \o back
<1>5. InsertAt(list, p, c) = j
  BY DEF InsertAt, mid, front, back
<1>6. /\ j \in Seq(Node) /\ Len(j) = Len(mid) + Len(back)
      /\ \A i \in 1 .. Len(mid) + Len(back) :
           j[i] = IF i <= Len(mid) THEN mid[i] ELSE back[i - Len(mid)]
  BY <1>3, <1>4, ConcatProperties
<1>. HIDE DEF j
<1>7. \A i \in 1 .. p : j[i] = mid[i]
  <2>1. \A i \in 1 .. p : i \in 1 .. Len(mid) + Len(back) /\ i <= Len(mid)
    BY <1>3, <1>4
  <2>. QED BY <1>6, <2>1
<1>8. \A i \in p .. n : j[i + 1] = list[i]
  <2>. TAKE i \in p .. n
  <2>1. /\ i + 1 \in 1 .. Len(mid) + Len(back) /\ ~(i + 1 <= Len(mid))
        /\ (i + 1) - Len(mid) \in 1 .. n - p + 1 /\ p + ((i + 1) - Len(mid)) - 1 = i
    BY <1>3, <1>4
  <2>. QED BY <1>3, <1>6, <2>1
<1>9. Len(j) = n + 1 /\ p \in 1 .. p /\ \A i \in 1 .. p - 1 : i \in 1 .. p
  BY <1>3, <1>4, <1>6
<1>. QED BY <1>4, <1>5, <1>6, <1>7, <1>8, <1>9 DEF Inserted

LEMMA AppendIs ==
  ASSUME NEW list \in Seq(Node), NEW n \in Nat, n = Len(list), NEW c \in Node
  PROVE  Inserted(list, n, n + 1, c, Append(list, c))
<1>. DEFINE j == Append(list, c)
<1>1. /\ j \in Seq(Node) /\ Len(j) = n + 1 /\ j[n + 1] = c
      /\ \A i \in 1 .. n : j[i] = list[i]
  OBVIOUS
<1>. HIDE DEF j
<1>2. /\ \A i \in 1 .. (n + 1) - 1 : i \in 1 .. n
      /\ \A i \in n + 1 .. n : FALSE
  OBVIOUS
<1>3. Inserted(list, n, n + 1, c, j)
  BY <1>1, <1>2 DEF Inserted
<1>. QED BY <1>3 DEF j

\* A chunk whose queues no node covers can be put in front of the first node
\* that lies behind it.
LEMMA InsertedKeeps ==
  ASSUME NEW list, InOrder(list), NEW n \in Nat, n = Len(list), NEW c \in Node,
         \A q \in Int : c.qbase <= q /\ q < End(c) => ~Covers(list, q),
         NEW p \in 1 .. n + 1, NEW j, Inserted(list, n, p, c, j),
         \A i \in 1 .. p - 1 : list[i].qbase <= c.qbase,
         p \in 1 .. n => list[p].qbase > c.qbase
  PROVE  /\ InOrder(j) /\ j[p] = c /\ p \in 1 .. Len(j)
         /\ \A q \in Int : Covers(j, q) <=> Covers(list, q) \/ (c.qbase <= q /\ q < End(c))
<1>1. PICK lo, hi : Bounds(list, n, lo, hi)
  <2>1. list \in Seq(Node)
    BY DEF InOrder
  <2>2. PICK m, lo, hi : Bounds(list, m, lo, hi)
    BY <2>1, BoundsExist
  <2>3. m = n
    BY <2>2 DEF Bounds
  <2>. QED BY <2>2, <2>3
<1>2. /\ lo \in [1 .. n -> Nat] /\ hi \in [1 .. n -> Nat]
      /\ \A i \in 1 .. n : lo[i] < hi[i]
      /\ \A i, k \in 1 .. n : i < k => hi[i] <= lo[k]
  <2>1. \A i, k \in 1 .. n : i < k => hi[i] <= lo[k]
    BY <1>1, InBounds
  <2>. QED BY <1>1, <2>1 DEF Bounds
<1>3. PICK b \in Nat, t \in Nat : b = c.qbase /\ t = End(c) /\ b < t
  <2>1. c.qbase \in Nat /\ End(c) \in Nat /\ c.qbase < End(c)
    BY NodeFacts
  <2>. QED BY <2>1
<1>4. \A i \in 1 .. p - 1 : i \in 1 .. n /\ hi[i] <= b
  <2>. TAKE i \in 1 .. p - 1
  <2>1. i \in 1 .. n /\ lo[i] <= b
    BY <1>1, <1>3 DEF Bounds
  <2>2. CASE b < hi[i]
    <3>1. Covers(list, b)
      BY <1>1, <1>2, <2>1, <2>2, InBounds
    <3>. QED BY <1>3, <3>1
  <2>. QED BY <1>2, <1>3, <2>1, <2>2
<1>5. \A i \in p .. n : i \in 1 .. n /\ t <= lo[i]
  <2>. TAKE i \in p .. n
  <2>1. i \in 1 .. n /\ p \in 1 .. n /\ lo[p] > b
    BY <1>1, <1>3 DEF Bounds
  <2>2. b < lo[i]
    <3>1. CASE i = p
      BY <2>1, <3>1
    <3>2. CASE i # p
      <4>1. hi[p] <= lo[i] /\ lo[p] < hi[p]
        BY <1>2, <2>1, <3>2
      <4>. QED BY <1>2, <1>3, <2>1, <4>1
    <3>. QED BY <3>1, <3>2
  <2>3. CASE lo[i] < t
    <3>1. Covers(list, lo[i])
      BY <1>1, <1>2, <2>1, InBounds
    <3>. QED BY <1>2, <1>3, <2>1, <2>2, <2>3, <3>1
  <2>. QED BY <1>2, <1>3, <2>1, <2>3
<1>. DEFINE l == [i \in 1 .. n + 1 |-> IF i < p THEN lo[i] ELSE IF i = p THEN b ELSE lo[i - 1]]
            g == [i \in 1 .. n + 1 |-> IF i < p THEN hi[i] ELSE IF i = p THEN t ELSE hi[i - 1]]
<1>6. /\ l \in [1 .. n + 1 -> Nat] /\ g \in [1 .. n + 1 -> Nat]
      /\ l[p] = b /\ g[p] = t
      /\ \A i \in 1 .. p - 1 : i \in 1 .. n + 1 /\ l[i] = lo[i] /\ g[i] = hi[i]
      /\ \A i \in p .. n : i + 1 \in 1 .. n + 1 /\ l[i + 1] = lo[i] /\ g[i + 1] = hi[i]
  <2>1. \A i \in 1 .. n + 1 : \/ i < p /\ i \in 1 .. n
                              \/ i = p
                              \/ i > p /\ i - 1 \in 1 .. n
    OBVIOUS
  <2>2. \A i \in 1 .. n + 1 : l[i] \in Nat /\ g[i] \in Nat
    <3>. TAKE i \in 1 .. n + 1
    <3>1. CASE i < p /\ i \in 1 .. n
      <4>1. l[i] = lo[i] /\ g[i] = hi[i]
        BY <3>1
      <4>. QED BY <1>2, <3>1, <4>1
    <3>2. CASE i = p
      <4>1. l[i] = b /\ g[i] = t
        BY <3>2
      <4>. QED BY <1>3, <4>1
    <3>3. CASE i > p /\ i - 1 \in 1 .. n
      <4>1. l[i] = lo[i - 1] /\ g[i] = hi[i - 1]
        BY <3>3
      <4>. QED BY <1>2, <3>3, <4>1
    <3>. QED BY <2>1, <3>1, <3>2, <3>3
  <2>3. \A i \in 1 .. p - 1 : i \in 1 .. n + 1 /\ i < p
    OBVIOUS
  <2>4. \A i \in p .. n : i + 1 \in 1 .. n + 1 /\ ~(i + 1 < p) /\ i + 1 # p /\ (i + 1) - 1 = i
    OBVIOUS
  <2>. QED BY <2>2, <2>3, <2>4
<1>. HIDE DEF l, g
<1>7. \A i \in 1 .. n + 1 : \/ i \in 1 .. p - 1
                            \/ i = p
                            \/ \E k \in p .. n : i = k + 1
  <2>. TAKE i \in 1 .. n + 1
  <2>1. i > p => i - 1 \in p .. n /\ i = (i - 1) + 1
    OBVIOUS
  <2>. QED BY <2>1
<1>8. Bounds(j, n + 1, l, g)
  <2>1. \A i \in 1 .. p - 1 : l[i] = j[i].qbase /\ g[i] = End(j[i]) /\ l[i] < g[i]
    <3>. TAKE i \in 1 .. p - 1
    <3>1. j[i] = list[i] /\ i \in 1 .. n /\ l[i] = lo[i] /\ g[i] = hi[i]
      BY <1>4, <1>6 DEF Inserted
    <3>. QED BY <1>1, <3>1 DEF Bounds
  <2>2. l[p] = j[p].qbase /\ g[p] = End(j[p]) /\ l[p] < g[p]
    BY <1>3, <1>6 DEF Inserted
  <2>3. \A k \in p .. n : l[k + 1] = j[k + 1].qbase /\ g[k + 1] = End(j[k + 1]) /\ l[k + 1] < g[k + 1]
    <3>. TAKE k \in p .. n
    <3>1. j[k + 1] = list[k] /\ k \in 1 .. n /\ l[k + 1] = lo[k] /\ g[k + 1] = hi[k]
      BY <1>5, <1>6 DEF Inserted
    <3>. QED BY <1>1, <3>1 DEF Bounds
  <2>4. \A i \in 1 .. n + 1 : l[i] = j[i].qbase /\ g[i] = End(j[i]) /\ l[i] < g[i]
    BY <1>7, <2>1, <2>2, <2>3
  <2>. QED BY <1>6, <2>4 DEF Bounds, Inserted
<1>9. \A i, k \in 1 .. n + 1 : i < k => g[i] <= l[k]
  <2>. TAKE i, k \in 1 .. n + 1
  <2>. SUFFICES ASSUME i < k PROVE g[i] <= l[k]
    OBVIOUS
  <2>1. CASE k \in 1 .. p - 1
    <3>1. i \in 1 .. p - 1
      BY <2>1
    <3>. QED BY <1>2, <1>4, <1>6, <2>1, <3>1
  <2>2. CASE k = p
    <3>1. i \in 1 .. p - 1
      BY <2>2
    <3>. QED BY <1>4, <1>6, <2>2, <3>1
  <2>3. ASSUME NEW m \in p .. n, k = m + 1
        PROVE  g[i] <= l[k]
    <3>1. m \in 1 .. n /\ l[k] = lo[m] /\ t <= lo[m]
      BY <1>5, <1>6, <2>3
    <3>2. CASE i \in 1 .. p - 1
      <4>1. i \in 1 .. n /\ g[i] = hi[i] /\ i < m
        BY <1>4, <1>6, <3>2
      <4>. QED BY <1>2, <3>1, <4>1
    <3>3. CASE i = p
      BY <1>6, <3>1, <3>3
    <3>4. ASSUME NEW x \in p .. n, i = x + 1
          PROVE  g[i] <= l[k]
      <4>1. x < m /\ x \in 1 .. n /\ g[i] = hi[x]
        BY <1>5, <1>6, <2>3, <3>4
      <4>. QED BY <1>2, <3>1, <4>1
    <3>. QED BY <1>7, <3>2, <3>3, <3>4
  <2>. QED BY <1>7, <2>1, <2>2, <2>3
<1>10. InOrder(j) /\ j[p] = c /\ p \in 1 .. Len(j)
  <2>1. j \in Seq(Node) /\ Len(j) = n + 1 /\ j[p] = c
    BY DEF Inserted
  <2>2. InOrder(j)
    BY <1>8, <1>9, <2>1, InBounds
  <2>. QED BY <2>1, <2>2
<1>11. ASSUME NEW q \in Int
       PROVE  Covers(j, q) <=> Covers(list, q) \/ (c.qbase <= q /\ q < End(c))
  <2>1. (\E i \in 1 .. n + 1 : l[i] <= q /\ q < g[i])
          <=> (\E i \in 1 .. n : lo[i] <= q /\ q < hi[i]) \/ (b <= q /\ q < t)
    <3>1. ASSUME NEW i \in 1 .. n + 1, l[i] <= q, q < g[i]
          PROVE  (\E k \in 1 .. n : lo[k] <= q /\ q < hi[k]) \/ (b <= q /\ q < t)
      <4>1. CASE i \in 1 .. p - 1
        BY <1>4, <1>6, <3>1, <4>1
      <4>2. CASE i = p
        BY <1>6, <3>1, <4>2
      <4>3. ASSUME NEW k \in p .. n, i = k + 1
            PROVE  \E m \in 1 .. n : lo[m] <= q /\ q < hi[m]
        BY <1>5, <1>6, <3>1, <4>3
      <4>. QED BY <1>7, <4>1, <4>2, <4>3
    <3>2. ASSUME NEW i \in 1 .. n, lo[i] <= q, q < hi[i]
          PROVE  \E k \in 1 .. n + 1 : l[k] <= q /\ q < g[k]
      <4>1. i \in 1 .. p - 1 \/ i \in p .. n
        OBVIOUS
      <4>. QED BY <1>6, <3>2, <4>1
    <3>3. ASSUME b <= q, q < t
          PROVE  \E k \in 1 .. n + 1 : l[k] <= q /\ q < g[k]
      BY <1>6, <3>3
    <3>. QED BY <3>1, <3>2, <3>3
  <2>. QED BY <1>1, <1>3, <1>8, <2>1, InBounds
<1>. QED BY <1>10, <1>11

\* The node is inserted where the order wants it.
LEMMA InsertKeeps ==
  ASSUME NEW list, InOrder(list), NEW c \in Node,
         \A q \in Int : c.qbase <= q /\ q < End(c) => ~Covers(list, q)
  PROVE  /\ InOrder(InsertChunk(list, c))
         /\ \E k \in 1 .. Len(InsertChunk(list, c)) : InsertChunk(list, c)[k] = c
         /\ \A q \in Int : Covers(InsertChunk(list, c), q)
                              <=> Covers(list, q) \/ (c.qbase <= q /\ q < End(c))
<1>. DEFINE behind == {i \in 1 .. Len(list) : list[i].qbase > c.qbase}
<1>1. /\ list \in Seq(Node) /\ Len(list) \in Nat /\ c.qbase \in Nat
      /\ \A i \in 1 .. Len(list) : list[i].qbase \in Nat
  <2>1. list \in Seq(Node)
    BY DEF InOrder
  <2>2. \A i \in 1 .. Len(list) : list[i] \in Node
    BY <2>1
  <2>. QED BY <2>1, <2>2, NodeFacts
<1>2. CASE behind = {}
  <2>1. InsertChunk(list, c) = Append(list, c)
    BY <1>2 DEF InsertChunk
  <2>2. \A i \in 1 .. Len(list) : list[i].qbase <= c.qbase
    BY <1>1, <1>2
  <2>. DEFINE n == Len(list)
              j == Append(list, c)
  <2>3. Inserted(list, n, n + 1, c, j) /\ n \in Nat /\ n + 1 \in 1 .. n + 1
    BY <1>1, AppendIs
  <2>4. /\ \A i \in 1 .. (n + 1) - 1 : list[i].qbase <= c.qbase
        /\ n + 1 \in 1 .. n => list[n + 1].qbase > c.qbase
    BY <1>1, <2>2
  <2>. HIDE DEF j
  <2>5. /\ InOrder(j) /\ j[n + 1] = c /\ n + 1 \in 1 .. Len(j)
        /\ \A q \in Int : Covers(j, q) <=> Covers(list, q) \/ (c.qbase <= q /\ q < End(c))
    BY <2>3, <2>4, InsertedKeeps
  <2>. QED BY <2>1, <2>5 DEF j
<1>3. CASE behind # {}
  <2>1. behind \subseteq Nat
    BY <1>1
  <2>. HIDE DEF behind
  <2>2. \E m \in behind : \A k \in behind : m <= k
    BY <1>3, <2>1, LeastOf
  <2>. DEFINE p == Min(behind)
  <2>3. p \in behind /\ \A k \in behind : p <= k
    BY <2>2 DEF Min
  <2>4. InsertChunk(list, c) = InsertAt(list, p, c)
    BY <1>3 DEF InsertChunk, behind
  <2>. HIDE DEF p
  <2>. DEFINE n == Len(list)
              j == InsertAt(list, p, c)
  <2>5. p \in 1 .. n /\ list[p].qbase > c.qbase
    BY <2>3 DEF behind
  <2>6. \A i \in 1 .. p - 1 : list[i].qbase <= c.qbase
    <3>. TAKE i \in 1 .. p - 1
    <3>1. i \in 1 .. n /\ ~(p <= i)
      BY <1>1, <2>5
    <3>2. i \notin behind
      BY <2>3, <3>1
    <3>. QED BY <1>1, <3>1, <3>2 DEF behind
  <2>7. Inserted(list, n, p, c, j) /\ n \in Nat /\ p \in 1 .. n + 1
    BY <1>1, <2>5, InsertAtIs
  <2>. HIDE DEF j
  <2>8. /\ InOrder(j) /\ j[p] = c /\ p \in 1 .. Len(j)
        /\ \A q \in Int : Covers(j, q) <=> Covers(list, q) \/ (c.qbase <= q /\ q < End(c))
    BY <2>5, <2>6, <2>7, InsertedKeeps
  <2>. QED BY <2>4, <2>8 DEF j
<1>. QED BY <1>2, <1>3

\* Giving a chunk back makes exactly its queues free, in one piece.
LEMMA SubmitKeeps ==
  ASSUME NEW list, InOrder(list), NEW c \in Chunk, c.total > 0 => c \in Node,
         \A q \in Int : c.qbase <= q /\ q < End(c) => ~Covers(list, q)
  PROVE  /\ InOrder(Submit(list, c))
         /\ c.total > 0 => Within(Submit(list, c), c)
         /\ \A q \in Int : Covers(Submit(list, c), q)
                              <=> Covers(list, q) \/ (c.qbase <= q /\ q < End(c))
<1>1. c.total \in Nat /\ c.qbase \in Int /\ End(c) = c.qbase + c.total
  BY DEF Chunk, End
<1>2. CASE c.total = 0
  <2>1. Submit(list, c) = list
    BY <1>2 DEF Submit
  <2>2. \A q \in Int : ~(c.qbase <= q /\ q < End(c))
    BY <1>1, <1>2
  <2>. QED BY <1>2, <2>1, <2>2
<1>3. CASE c.total # 0
  <2>. DEFINE m == InsertChunk(list, c)
  <2>1. c \in Node /\ Submit(list, c) = Merge(m)
    BY <1>1, <1>3 DEF Submit
  <2>2. /\ InOrder(m) /\ \E k \in 1 .. Len(m) : m[k] = c
        /\ \A q \in Int : Covers(m, q) <=> Covers(list, q) \/ (c.qbase <= q /\ q < End(c))
    BY <2>1, InsertKeeps
  <2>. HIDE DEF m
  <2>3. /\ InOrder(Merge(m)) /\ \A q \in Int : Covers(Merge(m), q) <=> Covers(m, q)
        /\ \A k \in 1 .. Len(m) : Within(Merge(m), m[k])
    BY <2>2, MergeKeeps
  <2>. QED BY <2>1, <2>2, <2>3
<1>. QED BY <1>2, <1>3

-----------------------------------------------------------------------------
(* Cutting queues out of the free list. *)

Below(list, x) == \A i \in 1 .. Len(list) : End(list[i]) <= x
Above(list, x) == \A i \in 1 .. Len(list) : x <= list[i].qbase

\* Two lists of which one lies below the other make one list.
LEMMA ConcatKeeps ==
  ASSUME NEW s, NEW t, InOrder(s), InOrder(t), NEW x \in Int, Below(s, x), Above(t, x)
  PROVE  /\ InOrder(s \o t)
         /\ \A q : Covers(s \o t, q) <=> Covers(s, q) \/ Covers(t, q)
         /\ \A y \in Int : Below(t, y) /\ (Below(s, y) \/ x <= y) => Below(s \o t, y)
<1>1. s \in Seq(Node) /\ t \in Seq(Node)
  BY DEF InOrder
<1>. DEFINE u == s \o t
<1>2. PICK m \in Nat, n \in Nat : m = Len(s) /\ n = Len(t)
  BY <1>1
<1>3. /\ u \in Seq(Node) /\ Len(u) = m + n
      /\ \A i \in 1 .. m : u[i] = s[i]
      /\ \A i \in 1 .. n : u[m + i] = t[i]
  <2>1. /\ u \in Seq(Node) /\ Len(u) = m + n
        /\ \A i \in 1 .. m + n : u[i] = IF i <= m THEN s[i] ELSE t[i - m]
    BY <1>1, <1>2, ConcatProperties
  <2>. HIDE DEF u
  <2>2. \A i \in 1 .. m : i \in 1 .. m + n /\ i <= m
    BY <1>2
  <2>3. \A i \in 1 .. n : m + i \in 1 .. m + n /\ ~(m + i <= m) /\ (m + i) - m = i
    BY <1>2
  <2>. QED BY <2>1, <2>2, <2>3
<1>. HIDE DEF u
<1>4. \A i \in 1 .. m + n : i \in 1 .. m \/ \E k \in 1 .. n : i = m + k
  <2>. TAKE i \in 1 .. m + n
  <2>1. i \notin 1 .. m => i - m \in 1 .. n /\ i = m + (i - m)
    BY <1>2
  <2>. QED BY <2>1
<1>5. /\ \A i \in 1 .. m : i \in 1 .. m + n
      /\ \A i \in 1 .. n : m + i \in 1 .. m + n
  BY <1>2
<1>6. /\ \A i \in 1 .. m : s[i].qbase \in Nat /\ End(s[i]) \in Nat /\ End(s[i]) <= x
      /\ \A i \in 1 .. n : t[i].qbase \in Nat /\ End(t[i]) \in Nat /\ x <= t[i].qbase
  <2>1. /\ \A i \in 1 .. m : s[i] \in Node
        /\ \A i \in 1 .. n : t[i] \in Node
    BY <1>1, <1>2
  <2>. QED BY <1>2, <2>1, NodeFacts DEF Below, Above
<1>7. \A i, k \in 1 .. m + n : i < k => End(u[i]) <= u[k].qbase
  <2>. TAKE i, k \in 1 .. m + n
  <2>. SUFFICES ASSUME i < k PROVE End(u[i]) <= u[k].qbase
    OBVIOUS
  <2>1. CASE k \in 1 .. m
    <3>1. i \in 1 .. m
      BY <1>2, <2>1
    <3>2. End(s[i]) <= s[k].qbase
      BY <1>2, <2>1, <3>1 DEF InOrder
    <3>. QED BY <1>3, <2>1, <3>1, <3>2
  <2>2. ASSUME NEW b \in 1 .. n, k = m + b
        PROVE  End(u[i]) <= u[k].qbase
    <3>0. u[k] = t[b]
      BY <1>3, <2>2
    <3>1. CASE i \in 1 .. m
      <4>1. u[i] = s[i] /\ End(s[i]) <= x /\ x <= t[b].qbase /\ End(s[i]) \in Int /\ t[b].qbase \in Int
        BY <1>3, <1>6, <3>1
      <4>. QED BY <3>0, <4>1
    <3>2. ASSUME NEW a \in 1 .. n, i = m + a
          PROVE  End(u[i]) <= u[k].qbase
      <4>1. a < b
        BY <1>2, <2>2, <3>2
      <4>2. End(t[a]) <= t[b].qbase
        BY <1>2, <4>1 DEF InOrder
      <4>. QED BY <1>3, <3>0, <3>2, <4>2
    <3>. QED BY <1>4, <3>1, <3>2
  <2>. QED BY <1>4, <2>1, <2>2
<1>8. InOrder(u)
  BY <1>3, <1>7 DEF InOrder
<1>9. ASSUME NEW q
      PROVE  Covers(u, q) <=> Covers(s, q) \/ Covers(t, q)
  <2>1. ASSUME Covers(u, q) PROVE Covers(s, q) \/ Covers(t, q)
    <3>1. PICK i \in 1 .. m + n : u[i].qbase <= q /\ q < End(u[i])
      BY <1>3, <2>1 DEF Covers
    <3>. QED BY <1>2, <1>3, <1>4, <3>1 DEF Covers
  <2>2. ASSUME Covers(s, q) PROVE Covers(u, q)
    BY <1>2, <1>3, <1>5, <2>2 DEF Covers
  <2>3. ASSUME Covers(t, q) PROVE Covers(u, q)
    <3>1. PICK i \in 1 .. n : t[i].qbase <= q /\ q < End(t[i])
      BY <1>2, <2>3 DEF Covers
    <3>2. m + i \in 1 .. Len(u) /\ u[m + i] = t[i]
      BY <1>3, <1>5
    <3>. QED BY <3>1, <3>2 DEF Covers
  <2>. QED BY <2>1, <2>2, <2>3
<1>10. ASSUME NEW y \in Int, Below(t, y), Below(s, y) \/ x <= y
       PROVE  Below(u, y)
  <2>1. \A i \in 1 .. m : End(s[i]) <= y
    BY <1>2, <1>6, <1>10 DEF Below
  <2>2. \A i \in 1 .. n : End(t[i]) <= y
    BY <1>2, <1>10 DEF Below
  <2>3. \A i \in 1 .. m + n : End(u[i]) <= y
    BY <1>3, <1>4, <2>1, <2>2
  <2>. QED BY <1>3, <2>3 DEF Below
<1>. QED BY <1>8, <1>9, <1>10 DEF u

\* A part of the list is in order, and covers what its nodes cover.
LEMMA PartKeeps ==
  ASSUME NEW list, InOrder(list), NEW m \in Nat \ {0}, NEW k \in Nat, k <= Len(list)
  PROVE  /\ InOrder(SubSeq(list, m, k))
         /\ \A q : Covers(SubSeq(list, m, k), q)
                      <=> \E i \in m .. k : list[i].qbase <= q /\ q < End(list[i])
         /\ \A x : Below(SubSeq(list, m, k), x) <=> \A i \in m .. k : End(list[i]) <= x
         /\ \A x : Above(SubSeq(list, m, k), x) <=> \A i \in m .. k : x <= list[i].qbase
<1>. DEFINE s == SubSeq(list, m, k)
            l == IF m <= k THEN k - m + 1 ELSE 0
<1>1. list \in Seq(Node) /\ Len(list) \in Nat
  BY DEF InOrder
<1>2. \A i \in m .. k : i \in 1 .. Len(list) /\ list[i] \in Node
  BY <1>1
<1>3. /\ s \in Seq(Node) /\ Len(s) = l /\ \A i \in 1 .. k - m + 1 : s[i] = list[m + i - 1]
  BY <1>2, SubSeqProperties
<1>4. l \in Nat /\ \A i \in 1 .. l : i \in 1 .. k - m + 1 /\ m + i - 1 \in m .. k
  OBVIOUS
<1>5. \A i \in m .. k : i - m + 1 \in 1 .. l /\ m + (i - m + 1) - 1 = i
  OBVIOUS
<1>. HIDE DEF s, l
<1>6. \A i \in 1 .. l : s[i] = list[m + i - 1]
  BY <1>3, <1>4
<1>7. \A i \in m .. k : \E a \in 1 .. l : s[a] = list[i]
  BY <1>5, <1>6
<1>8. \A i \in 1 .. l : \E a \in m .. k : s[i] = list[a]
  BY <1>4, <1>6
<1>9. \A i, j \in 1 .. l : i < j => End(s[i]) <= s[j].qbase
  <2>. TAKE i, j \in 1 .. l
  <2>. SUFFICES ASSUME i < j PROVE End(s[i]) <= s[j].qbase
    OBVIOUS
  <2>1. m + i - 1 < m + j - 1 /\ m + i - 1 \in 1 .. Len(list) /\ m + j - 1 \in 1 .. Len(list)
    BY <1>2, <1>4
  <2>2. End(list[m + i - 1]) <= list[m + j - 1].qbase
    BY <2>1 DEF InOrder
  <2>. QED BY <1>6, <2>2
<1>10. InOrder(s)
  BY <1>3, <1>9 DEF InOrder
<1>11. \A q : Covers(s, q) <=> \E i \in m .. k : list[i].qbase <= q /\ q < End(list[i])
  BY <1>3, <1>7, <1>8 DEF Covers
<1>12. \A x : Below(s, x) <=> \A i \in m .. k : End(list[i]) <= x
  BY <1>3, <1>7, <1>8 DEF Below
<1>13. \A x : Above(s, x) <=> \A i \in m .. k : x <= list[i].qbase
  BY <1>3, <1>7, <1>8 DEF Above
<1>. QED BY <1>10, <1>11, <1>12, <1>13 DEF s

\* What is left of a node in front of the cut or behind it.
LEMMA RestKeeps ==
  ASSUME NEW b \in Nat, NEW n \in Nat
  PROVE  LET c == [qbase |-> b, total |-> n] IN
         /\ InOrder(Rest(c))
         /\ \A q \in Int : Covers(Rest(c), q) <=> b <= q /\ q < b + n
         /\ \A x \in Int : b + n <= x => Below(Rest(c), x)
         /\ \A x \in Int : x <= b => Above(Rest(c), x)
<1>. DEFINE c == [qbase |-> b, total |-> n]
<1>0. c.qbase = b /\ c.total = n /\ End(c) = b + n
  BY DEF End
<1>1. CASE n = 0
  <2>1. Rest(c) = <<>>
    BY <1>0, <1>1 DEF Rest
  <2>2. <<>> \in Seq(Node) /\ Len(<<>>) = 0
    OBVIOUS
  <2>3. InOrder(<<>>) /\ (\A q : ~Covers(<<>>, q)) /\ (\A x : Below(<<>>, x) /\ Above(<<>>, x))
    BY <2>2 DEF InOrder, Covers, Below, Above
  <2>4. \A q \in Int : ~(b <= q /\ q < b + n)
    BY <1>1
  <2>. QED BY <2>1, <2>3, <2>4
<1>2. CASE n # 0
  <2>. HIDE DEF c
  <2>1. Rest(c) = <<c>> /\ c \in Node
    <3>1. c.total > 0
      BY <1>0, <1>2
    <3>2. c \in Node
      BY <1>2 DEF c, Node
    <3>. QED BY <3>1, <3>2 DEF Rest
  <2>2. <<c>> \in Seq(Node) /\ Len(<<c>>) = 1 /\ <<c>>[1] = c /\ 1 .. 1 = {1}
    BY <2>1
  <2>3. InOrder(<<c>>) /\ \A q \in Int : Covers(<<c>>, q) <=> c.qbase <= q /\ q < End(c)
    BY <2>2 DEF InOrder, Covers
  <2>4. \A x \in Int : (End(c) <= x => Below(<<c>>, x)) /\ (x <= c.qbase => Above(<<c>>, x))
    BY <2>2 DEF Below, Above
  <2>5. \A q \in Int : Covers(<<c>>, q) <=> b <= q /\ q < b + n
    BY <1>0, <2>3
  <2>6. \A x \in Int : (b + n <= x => Below(<<c>>, x)) /\ (x <= b => Above(<<c>>, x))
    BY <1>0, <2>4
  <2>. QED BY <2>1, <2>3, <2>5, <2>6 DEF c
<1>. QED BY <1>1, <1>2

\* Cutting n queues out of one node takes exactly them out of the list.
LEMMA CutKeeps ==
  ASSUME NEW list, InOrder(list), NEW n \in Nat, NEW p,
         p.at \in 1 .. Len(list), list[p.at].qbase <= p.qbase, p.qbase \in Int,
         p.qbase + n <= End(list[p.at])
  PROVE  /\ InOrder(Cut(list, n, p))
         /\ \A q \in Int : Covers(Cut(list, n, p), q)
                              <=> Covers(list, q) /\ ~(p.qbase <= q /\ q < p.qbase + n)
<1>1. PICK len, lo, hi : Bounds(list, len, lo, hi)
  <2>1. list \in Seq(Node)
    BY DEF InOrder
  <2>. QED BY <2>1, BoundsExist
<1>2. /\ len \in Nat /\ len = Len(list)
      /\ lo \in [1 .. len -> Nat] /\ hi \in [1 .. len -> Nat]
      /\ \A i \in 1 .. len : lo[i] < hi[i] /\ lo[i] = list[i].qbase /\ hi[i] = End(list[i])
      /\ \A i, k \in 1 .. len : i < k => hi[i] <= lo[k]
  <2>1. \A i, k \in 1 .. len : i < k => hi[i] <= lo[k]
    BY <1>1, InBounds
  <2>. QED BY <1>1, <2>1 DEF Bounds
<1>3. PICK a \in 1 .. len : a = p.at
  BY <1>2
<1>4. PICK x \in Nat, y \in Nat, b \in Nat, t \in Nat :
        /\ x = p.qbase /\ y = p.qbase + n /\ b = lo[a] /\ t = hi[a]
        /\ b <= x /\ x <= y /\ y <= t /\ y = x + n
  <2>1. lo[a] \in Nat /\ hi[a] \in Nat /\ lo[a] <= p.qbase /\ p.qbase + n <= hi[a]
    BY <1>2, <1>3
  <2>2. p.qbase \in Nat /\ p.qbase + n \in Nat /\ p.qbase <= p.qbase + n
    BY <2>1
  <2>. QED BY <2>1, <2>2
<1>. DEFINE f == [qbase |-> b, total |-> x - b]
            g == [qbase |-> y, total |-> t - y]
            s1 == SubSeq(list, 1, a - 1)
            s2 == Rest(f)
            s3 == Rest(g)
            s4 == SubSeq(list, a + 1, len)
<1>5. Cut(list, n, p) = ((s1 \o s2) \o s3) \o s4
  BY <1>2, <1>3, <1>4 DEF Cut
<1>6. /\ \A i \in 1 .. a - 1 : i \in 1 .. len /\ hi[i] <= b
      /\ \A i \in a + 1 .. len : i \in 1 .. len /\ t <= lo[i]
      /\ \A i \in 1 .. len : i \in 1 .. a - 1 \/ i = a \/ i \in a + 1 .. len
  <2>1. \A i \in 1 .. a - 1 : i \in 1 .. len /\ i < a
    BY <1>2
  <2>2. \A i \in a + 1 .. len : i \in 1 .. len /\ a < i
    BY <1>2
  <2>. QED BY <1>2, <1>4, <2>1, <2>2
<1>7. /\ InOrder(s1) /\ Below(s1, b)
      /\ \A q : Covers(s1, q) <=> \E i \in 1 .. a - 1 : lo[i] <= q /\ q < hi[i]
  <2>1. a - 1 \in Nat /\ a - 1 <= Len(list) /\ 1 \in Nat \ {0}
    BY <1>2
  <2>2. /\ InOrder(s1)
        /\ \A q : Covers(s1, q)
                      <=> \E i \in 1 .. a - 1 : list[i].qbase <= q /\ q < End(list[i])
        /\ Below(s1, b) <=> \A i \in 1 .. a - 1 : End(list[i]) <= b
    BY <2>1, PartKeeps
  <2>. HIDE DEF s1
  <2>. QED BY <1>2, <1>6, <2>2
<1>8. /\ InOrder(s4) /\ Above(s4, t)
      /\ \A q : Covers(s4, q) <=> \E i \in a + 1 .. len : lo[i] <= q /\ q < hi[i]
  <2>1. a + 1 \in Nat \ {0} /\ len \in Nat /\ len <= Len(list)
    BY <1>2
  <2>2. /\ InOrder(s4)
        /\ \A q : Covers(s4, q)
                      <=> \E i \in a + 1 .. len : list[i].qbase <= q /\ q < End(list[i])
        /\ Above(s4, t) <=> \A i \in a + 1 .. len : t <= list[i].qbase
    BY <2>1, PartKeeps
  <2>. HIDE DEF s4
  <2>. QED BY <1>2, <1>6, <2>2
<1>9. /\ InOrder(s2) /\ Above(s2, b) /\ Below(s2, x)
      /\ \A q \in Int : Covers(s2, q) <=> b <= q /\ q < x
  <2>1. x - b \in Nat /\ b + (x - b) = x
    BY <1>4
  <2>. HIDE DEF s2
  <2>2. /\ InOrder(s2)
        /\ \A q \in Int : Covers(s2, q) <=> b <= q /\ q < b + (x - b)
        /\ \A z \in Int : b + (x - b) <= z => Below(s2, z)
        /\ \A z \in Int : z <= b => Above(s2, z)
    BY <2>1, RestKeeps DEF s2
  <2>3. Above(s2, b) /\ Below(s2, x)
    <3>1. b + (x - b) <= x /\ x \in Int /\ b <= b /\ b \in Int
      BY <2>1
    <3>. QED BY ONLY <2>2, <3>1
  <2>. QED BY <2>1, <2>2, <2>3
<1>10. /\ InOrder(s3) /\ Above(s3, x) /\ Below(s3, t)
       /\ \A q \in Int : Covers(s3, q) <=> y <= q /\ q < t
  <2>1. t - y \in Nat /\ y + (t - y) = t /\ x <= y
    <3>1. x <= y /\ y <= t
      BY <1>4
    <3>. QED BY ONLY <3>1, x \in Nat, y \in Nat, t \in Nat
  <2>. HIDE DEF s3
  <2>2. /\ InOrder(s3)
        /\ \A q \in Int : Covers(s3, q) <=> y <= q /\ q < y + (t - y)
        /\ \A z \in Int : y + (t - y) <= z => Below(s3, z)
        /\ \A z \in Int : z <= y => Above(s3, z)
    BY <2>1, RestKeeps DEF s3
  <2>. QED BY <2>1, <2>2
<1>. HIDE DEF s1, s2, s3, s4
<1>. DEFINE c2 == s1 \o s2
            c3 == c2 \o s3
            c4 == c3 \o s4
<1>11. /\ InOrder(c2) /\ Below(c2, x)
       /\ \A q : Covers(c2, q) <=> Covers(s1, q) \/ Covers(s2, q)
  BY <1>4, <1>7, <1>9, ConcatKeeps
<1>. HIDE DEF c2
<1>12. /\ InOrder(c3) /\ Below(c3, t)
       /\ \A q : Covers(c3, q) <=> Covers(c2, q) \/ Covers(s3, q)
  <2>1. x <= t
    BY <1>4
  <2>. QED BY <1>4, <1>10, <1>11, <2>1, ConcatKeeps
<1>. HIDE DEF c3
<1>13. /\ InOrder(c4)
       /\ \A q : Covers(c4, q) <=> Covers(c3, q) \/ Covers(s4, q)
  BY <1>4, <1>8, <1>12, ConcatKeeps
<1>. HIDE DEF c4
<1>14. ASSUME NEW q \in Int
       PROVE  Covers(c4, q) <=> Covers(list, q) /\ ~(x <= q /\ q < y)
  <2>. DEFINE In(i) == lo[i] <= q /\ q < hi[i]
  <2>1. Covers(list, q) <=> \E i \in 1 .. len : In(i)
    BY <1>1, InBounds
  <2>2. Covers(c4, q) <=> \/ \E i \in 1 .. a - 1 : In(i)
                          \/ b <= q /\ q < x
                          \/ y <= q /\ q < t
                          \/ \E i \in a + 1 .. len : In(i)
    BY <1>7, <1>8, <1>9, <1>10, <1>11, <1>12, <1>13
  <2>3. In(a) <=> b <= q /\ q < t
    BY <1>4
  <2>4. ASSUME NEW i \in 1 .. a - 1, In(i), x <= q, q < y
        PROVE  FALSE
    <3>1. hi[i] \in Nat /\ hi[i] <= b /\ q < hi[i]
      BY <1>2, <1>6, <2>4
    <3>. QED BY ONLY <3>1, <2>4, <1>4, q \in Int, x \in Nat, y \in Nat, b \in Nat
  <2>5. ASSUME NEW i \in a + 1 .. len, In(i), x <= q, q < y
        PROVE  FALSE
    <3>1. lo[i] \in Nat /\ t <= lo[i] /\ lo[i] <= q
      BY <1>2, <1>6, <2>5
    <3>. QED BY ONLY <3>1, <2>5, <1>4, q \in Int, x \in Nat, y \in Nat, t \in Nat
  <2>6. (\E i \in 1 .. len : In(i)) <=> \/ \E i \in 1 .. a - 1 : In(i)
                                        \/ In(a)
                                        \/ \E i \in a + 1 .. len : In(i)
    BY <1>6
  <2>. HIDE DEF In
  <2>. QED BY <1>4, <2>1, <2>2, <2>3, <2>4, <2>5, <2>6
<1>. QED BY <1>4, <1>5, <1>13, <1>14 DEF c2, c3, c4

-----------------------------------------------------------------------------
(* Where queues can be cut out. *)

LEMMA MinIn ==
  ASSUME NEW T, T \subseteq Nat, T # {}
  PROVE  Min(T) \in T
<1>1. \E m \in T : \A k \in T : m <= k
  BY LeastOf
<1>. QED BY <1>1 DEF Min

LEMMA MaxIn ==
  ASSUME NEW n \in Nat, NEW T, T \subseteq 1 .. n, T # {}
  PROVE  Max(T) \in T
<1>. DEFINE U == {n - i : i \in T}
<1>1. U \subseteq Nat /\ U # {}
  OBVIOUS
<1>2. PICK u \in U : \A v \in U : u <= v
  <2>. HIDE DEF U
  <2>. QED BY <1>1, LeastOf
<1>3. PICK m \in T : u = n - m
  BY <1>2
<1>4. ASSUME NEW k \in T
      PROVE  m >= k
  <2>1. n - k \in U
    OBVIOUS
  <2>2. n - m <= n - k
    BY <1>2, <1>3, <2>1
  <2>. QED BY <2>2
<1>5. \E x \in T : \A y \in T : x >= y
  BY <1>4
<1>. QED BY <1>5 DEF Max

\* Among the nodes that are large enough, one that is smallest.
LEMMA SmallestIn ==
  ASSUME NEW list \in Seq(Node), NEW S, S \subseteq 1 .. Len(list), S # {}
  PROVE  Smallest(list, S) \in S
<1>1. Len(list) \in Nat /\ \A i \in S : list[i].total \in Nat
  BY NodeFacts
<1>. DEFINE U == {list[i].total : i \in S}
            T == {i \in S : \A j \in S : list[i].total <= list[j].total}
<1>2. U \subseteq Nat /\ U # {}
  BY <1>1
<1>3. PICK u \in U : \A v \in U : u <= v
  <2>. HIDE DEF U
  <2>. QED BY <1>2, LeastOf
<1>4. T \subseteq 1 .. Len(list) /\ T # {}
  <2>1. PICK i \in S : list[i].total = u
    BY <1>3
  <2>2. \A j \in S : list[i].total <= list[j].total
    BY <1>3, <2>1
  <2>3. i \in T
    BY <2>2
  <2>. QED BY <2>3
<1>5. Smallest(list, S) = Max(T)
  BY DEF Smallest
<1>6. Max(T) \in T
  <2>. HIDE DEF T
  <2>. QED BY <1>1, <1>4, MaxIn
<1>. QED BY <1>5, <1>6

\* n queues cut out at a place lie inside the node that is there.
LEMMA PlacesFit ==
  ASSUME NEW list, InOrder(list), NEW n \in Nat, NEW b \in Int,
         NEW p \in Places(list, n, b)
  PROVE  /\ p.at \in 1 .. Len(list) /\ p.qbase \in Nat
         /\ list[p.at].qbase <= p.qbase /\ p.qbase + n <= End(list[p.at])
<1>1. list \in Seq(Node) /\ Len(list) \in Nat /\ \A i \in 1 .. Len(list) : list[i] \in Node
  BY DEF InOrder
<1>. DEFINE H == Holding(list, n, b)
            F == Fitting(list, n)
<1>2. /\ H \subseteq Nat /\ F \subseteq 1 .. Len(list)
      /\ \A i \in H : i \in 1 .. Len(list) /\ list[i].qbase <= b /\ b + n <= End(list[i])
      /\ \A i \in F : i \in 1 .. Len(list) /\ list[i].total >= n
  BY <1>1 DEF Holding, Fitting
<1>. HIDE DEF H, F
<1>3. CASE b >= 0 /\ H # {}
  <2>1. Min(H) \in H
    BY <1>2, <1>3, MinIn
  <2>2. p = [at |-> Min(H), qbase |-> b]
    BY <1>3 DEF Places, H
  <2>. DEFINE i == Min(H)
  <2>3. i \in 1 .. Len(list) /\ list[i].qbase <= b /\ b + n <= End(list[i])
    BY <1>2, <2>1
  <2>. HIDE DEF i
  <2>4. p.at = i /\ p.qbase = b /\ b \in Nat
    BY <1>3, <2>2 DEF i
  <2>. QED BY <2>3, <2>4
<1>4. CASE ~(b >= 0 /\ H # {}) /\ F # {}
  <2>. DEFINE i == Smallest(list, F)
  <2>1. i \in F
    <3>1. F \subseteq 1 .. Len(list) /\ F # {}
      BY <1>2, <1>4
    <3>. QED BY <1>1, <3>1, SmallestIn
  <2>2. p = [at |-> i, qbase |-> list[i].qbase]
    BY <1>4 DEF Places, H, F
  <2>. HIDE DEF i
  <2>3. i \in 1 .. Len(list) /\ list[i].total >= n /\ list[i] \in Node
    BY <1>1, <1>2, <2>1
  <2>4. End(list[i]) = list[i].qbase + list[i].total /\ list[i].qbase \in Nat /\ list[i].total \in Nat
    BY <2>3, NodeFacts DEF End
  <2>. QED BY <2>2, <2>3, <2>4
<1>. QED BY <1>3, <1>4 DEF Places, H, F

\* What was given back can be taken again, where it was.
LEMMA OldPlacesBack ==
  ASSUME NEW list, InOrder(list), NEW c \in Node, Within(list, c)
  PROVE  /\ OldPlaces(list, c) # {}
         /\ \A p \in OldPlaces(list, c) : p.qbase = c.qbase
<1>1. c.qbase \in Nat /\ c.qbase + c.total = End(c)
  BY NodeFacts DEF End
<1>2. Holding(list, c.total, c.qbase) # {}
  <2>1. PICK i \in 1 .. Len(list) : list[i].qbase <= c.qbase /\ End(c) <= End(list[i])
    BY DEF Within
  <2>2. list[i] \in Node /\ list[i].qbase \in Nat
    BY NodeFacts DEF InOrder
  <2>. QED BY <1>1, <2>1, <2>2 DEF Holding
<1>3. OldPlaces(list, c) = {[at |-> Min(Holding(list, c.total, c.qbase)), qbase |-> c.qbase]}
  BY <1>1, <1>2 DEF OldPlaces, Places
<1>. QED BY <1>3

-----------------------------------------------------------------------------
(* The inductive invariant. *)

\* The types; the list is in order.
MgrType ==
    /\ exists \in BOOLEAN
    /\ InOrder(free)
    /\ devs \subseteq Func
    /\ entry \in [Func -> Chunk]
    /\ active \in [Func -> [Type -> Nat]]
    /\ pc \in [Func -> {"closed", "probe", "fresh", "again", "open", "leaving"}]
    /\ queues \in [Func -> [Kind -> Nat]]
    /\ rv \in [Func -> {"none", "0", "NO_QUEUES_LEFT", "REJECTED"}]

\* What holds of each function: a range that is not empty is a node, a function
\* without an entry owns nothing, its driver is where its entry says, it has
\* queues only while it is open, and the counters of its entry count them.
OneStep(f) ==
    /\ entry[f].total > 0 => entry[f] \in Node
    /\ f \notin devs => entry[f] = NoChunk
    /\ pc[f] \in {"fresh", "again", "open"} => f \in devs
    /\ f \in Vf => pc[f] \in {"closed", "open"} /\ (pc[f] = "closed" => f \notin devs)
    /\ pc[f] # "open" => queues[f] = NoQueues
    /\ f \in devs => \A t \in Type : active[f][t] = TableUse(f, t)

\* Nothing is owned twice, and everything is owned or nobody's.
Parts(o, a) ==
    /\ \A f, g \in Func : f # g => o[f] \cap o[g] = {}
    /\ \A f \in Func : o[f] \cap a = {}
    /\ QBase .. QBase + TotalQ - 1 = a \cup UNION {o[f] : f \in Func}

\* The invariant.
RangesInv ==
    /\ MgrType
    /\ ~exists => devs = {}
    /\ \A f \in Func : OneStep(f)
    /\ Parts(Owned, Nobodys)

LEMMA PartsIs == Ranges!Partition <=> Parts(Owned, Nobodys)
BY DEF Ranges!Partition, Ranges!AllQueues, Ranges!Stretch, Parts

\* A function gives its range back and takes part of what is then nobody's.
LEMMA PartsKeep ==
  ASSUME NEW o, NEW a, NEW f \in Func, NEW new, Parts(o, a),
         o = [g \in Func |-> o[g]], new \subseteq a \cup o[f]
  PROVE  Parts([o EXCEPT ![f] = new], (a \cup o[f]) \ new)
<1>. DEFINE o2 == [o EXCEPT ![f] = new]
            a2 == (a \cup o[f]) \ new
<1>1. \A g \in Func : o2[g] = IF g = f THEN new ELSE o[g]
  OBVIOUS
<1>. HIDE DEF o2
<1>2. \A g \in Func : g # f => new \cap o[g] = {}
  BY DEF Parts
<1>3. \A g, h \in Func : g # h => o2[g] \cap o2[h] = {}
  BY <1>1, <1>2 DEF Parts
<1>4. \A g \in Func : o2[g] \cap a2 = {}
  BY <1>1, <1>2 DEF Parts
<1>5. ASSUME NEW q
      PROVE  q \in QBase .. QBase + TotalQ - 1 <=> q \in a2 \/ \E g \in Func : q \in o2[g]
  <2>1. q \in QBase .. QBase + TotalQ - 1 <=> q \in a \/ \E g \in Func : q \in o[g]
    BY DEF Parts
  <2>2. CASE q \in a \cup o[f]
    BY <1>1, <2>1, <2>2
  <2>3. CASE q \notin a \cup o[f]
    BY <1>1, <2>1, <2>3
  <2>. QED BY <2>2, <2>3
<1>. HIDE DEF a2
<1>6. QBase .. QBase + TotalQ - 1 = a2 \cup UNION {o2[g] : g \in Func}
  BY <1>5
<1>7. Parts(o2, a2)
  BY <1>3, <1>4, <1>6 DEF Parts
<1>. QED BY <1>7 DEF o2, a2

\* The queues of a chunk and of a list.
LEMMA QueuesOf ==
  ASSUME NEW c, c.qbase \in Int, c.total \in Int
  PROVE  /\ \A q : q \in Queues(c) <=> q \in Int /\ c.qbase <= q /\ q < End(c)
         /\ c.total = 0 => Queues(c) = {}
<1>1. End(c) = c.qbase + c.total /\ End(c) \in Int
  BY DEF End
<1>2. \A q : q \in c.qbase .. End(c) - 1 <=> q \in Int /\ c.qbase <= q /\ q < End(c)
  BY <1>1
<1>3. c.total = 0 => \A q \in Int : ~(c.qbase <= q /\ q < End(c))
  BY <1>1
<1>. QED BY <1>2, <1>3 DEF Queues

\* The queues of a list.
FreeOf(list) == UNION {Queues(list[i]) : i \in 1 .. Len(list)}

LEMMA FreeIs ==
  ASSUME NEW list, InOrder(list)
  PROVE  \A q : q \in FreeOf(list) <=> q \in Int /\ Covers(list, q)
<1>1. list \in Seq(Node)
  BY DEF InOrder
<1>2. \A i \in 1 .. Len(list) : list[i].qbase \in Int /\ list[i].total \in Int
  BY <1>1, NodeFacts
<1>3. \A i \in 1 .. Len(list) : \A q : q \in Queues(list[i])
                    <=> q \in Int /\ list[i].qbase <= q /\ q < End(list[i])
  BY <1>2, QueuesOf
<1>. QED BY <1>3 DEF FreeOf, Covers

-----------------------------------------------------------------------------
(* What the calls on the free list do to the queues that are nobody's. *)

\* Giving a chunk back adds its queues.
LEMMA SubmitFrees ==
  ASSUME NEW list, InOrder(list), NEW c \in Chunk, c.total > 0 => c \in Node,
         Queues(c) \cap FreeOf(list) = {}
  PROVE  /\ InOrder(Submit(list, c))
         /\ c.total > 0 => Within(Submit(list, c), c)
         /\ FreeOf(Submit(list, c)) = FreeOf(list) \cup Queues(c)
<1>1. \A q : q \in Queues(c) <=> q \in Int /\ c.qbase <= q /\ q < End(c)
  BY QueuesOf DEF Chunk
<1>2. \A q : q \in FreeOf(list) <=> q \in Int /\ Covers(list, q)
  BY FreeIs
<1>3. \A q \in Int : c.qbase <= q /\ q < End(c) => ~Covers(list, q)
  BY <1>1, <1>2
<1>. DEFINE m == Submit(list, c)
<1>4. /\ InOrder(m) /\ (c.total > 0 => Within(m, c))
      /\ \A q \in Int : Covers(m, q) <=> Covers(list, q) \/ (c.qbase <= q /\ q < End(c))
  BY <1>3, SubmitKeeps
<1>. HIDE DEF m
<1>5. \A q : q \in FreeOf(m) <=> q \in Int /\ Covers(m, q)
  BY <1>4, FreeIs
<1>6. FreeOf(m) = FreeOf(list) \cup Queues(c)
  BY <1>1, <1>2, <1>4, <1>5
<1>. QED BY <1>4, <1>6 DEF m

\* Cutting queues out takes them.
LEMMA CutTakes ==
  ASSUME NEW list, InOrder(list), NEW n \in Nat, NEW b \in Int,
         NEW p \in Places(list, n, b)
  PROVE  LET c == [qbase |-> p.qbase, total |-> n] IN
         /\ InOrder(Cut(list, n, p))
         /\ c \in Chunk /\ (c.total > 0 => c \in Node)
         /\ Queues(c) \subseteq FreeOf(list)
         /\ FreeOf(Cut(list, n, p)) = FreeOf(list) \ Queues(c)
<1>. DEFINE c == [qbase |-> p.qbase, total |-> n]
            m == Cut(list, n, p)
<1>1. /\ p.at \in 1 .. Len(list) /\ p.qbase \in Nat
      /\ list[p.at].qbase <= p.qbase /\ p.qbase + n <= End(list[p.at])
  BY PlacesFit
<1>2. c \in Chunk /\ (c.total > 0 => c \in Node)
  BY <1>1 DEF Chunk, Node
<1>3. \A q : q \in Queues(c) <=> q \in Int /\ p.qbase <= q /\ q < p.qbase + n
  <2>1. c.qbase = p.qbase /\ c.total = n /\ End(c) = p.qbase + n /\ p.qbase \in Int /\ n \in Int
    BY <1>1 DEF End
  <2>. HIDE DEF c
  <2>. QED BY <2>1, QueuesOf
<1>. HIDE DEF c
<1>4. /\ InOrder(m)
      /\ \A q \in Int : Covers(m, q) <=> Covers(list, q) /\ ~(p.qbase <= q /\ q < p.qbase + n)
  BY <1>1, CutKeeps
<1>. HIDE DEF m
<1>5. \A q : q \in FreeOf(m) <=> q \in Int /\ Covers(m, q)
  BY <1>4, FreeIs
<1>6. \A q : q \in FreeOf(list) <=> q \in Int /\ Covers(list, q)
  BY FreeIs
<1>7. FreeOf(m) = FreeOf(list) \ Queues(c)
  BY <1>3, <1>4, <1>5, <1>6
<1>8. ASSUME NEW q \in Queues(c)
      PROVE  q \in FreeOf(list)
  <2>1. q \in Int /\ p.qbase <= q /\ q < p.qbase + n
    BY <1>3
  <2>2. list[p.at] \in Node /\ list[p.at].qbase \in Nat /\ End(list[p.at]) \in Nat
    BY <1>1, NodeFacts DEF InOrder
  <2>3. list[p.at].qbase <= q /\ q < End(list[p.at])
    BY <1>1, <2>1, <2>2
  <2>. QED BY <1>1, <1>6, <2>1, <2>3 DEF Covers
<1>. QED BY <1>2, <1>4, <1>7, <1>8 DEF c, m

\* A request gives the range back and takes one out of what is then free;
\* one that fails takes the range that was given back.
LEMMA RequestTakes ==
  ASSUME MgrType, NEW f \in Func, OneStep(f), NEW n \in Nat, NEW b \in Int,
         Queues(entry[f]) \cap FreeOf(free) = {}, Request(f, n, b)
  PROVE  \E c \in Chunk, r \in {"0", "NO_QUEUES_LEFT"} :
            /\ c.total > 0 => c \in Node
            /\ InOrder(free')
            /\ entry' = [entry EXCEPT ![f] = c]
            /\ rv' = [rv EXCEPT ![f] = r]
            /\ r = "NO_QUEUES_LEFT" => Queues(c) = Queues(entry[f])
            /\ Queues(c) \subseteq FreeOf(free) \cup Queues(entry[f])
            /\ FreeOf(free') = (FreeOf(free) \cup Queues(entry[f])) \ Queues(c)
<1>. DEFINE Goal(c, r) ==
              /\ c \in Chunk /\ r \in {"0", "NO_QUEUES_LEFT"}
              /\ c.total > 0 => c \in Node
              /\ InOrder(free')
              /\ entry' = [entry EXCEPT ![f] = c]
              /\ rv' = [rv EXCEPT ![f] = r]
              /\ r = "NO_QUEUES_LEFT" => Queues(c) = Queues(entry[f])
              /\ Queues(c) \subseteq FreeOf(free) \cup Queues(entry[f])
              /\ FreeOf(free') = (FreeOf(free) \cup Queues(entry[f])) \ Queues(c)
<1>1. PICK old : old = entry[f]
  OBVIOUS
<1>2. PICK list : list = Submit(free, old)
  OBVIOUS
<1>3. /\ old \in Chunk /\ (old.total > 0 => old \in Node)
      /\ entry = [entry EXCEPT ![f] = old]
  BY <1>1 DEF MgrType, OneStep
<1>4. /\ InOrder(list) /\ (old.total > 0 => Within(list, old))
      /\ FreeOf(list) = FreeOf(free) \cup Queues(old)
  <2>1. InOrder(free) /\ Queues(old) \cap FreeOf(free) = {}
    BY <1>1 DEF MgrType
  <2>. QED BY <1>2, <1>3, <2>1, SubmitFrees
<1>5. NoChunk \in Chunk /\ ~(NoChunk.total > 0) /\ Queues(NoChunk) = {}
  <2>1. NoChunk.total = 0 /\ NoChunk.qbase \in Int /\ NoChunk \in Chunk
    BY DEF NoChunk, Chunk
  <2>. QED BY <2>1, QueuesOf
<1>6. old.total = 0 => Queues(old) = {}
  BY <1>3, QueuesOf DEF Chunk
<1>7. CASE /\ n = 0
           /\ free' = list
           /\ entry' = IF old.total = 0 THEN entry ELSE [entry EXCEPT ![f] = NoChunk]
           /\ rv' = [rv EXCEPT ![f] = "0"]
  <2>1. CASE old.total = 0
    <3>1. Goal(old, "0")
      BY <1>1, <1>3, <1>4, <1>6, <1>7, <2>1
    <3>. QED BY <3>1
  <2>2. CASE old.total # 0
    <3>1. Goal(NoChunk, "0")
      BY <1>1, <1>4, <1>5, <1>7, <2>2
    <3>. QED BY <3>1
  <2>. QED BY <2>1, <2>2
<1>8. CASE /\ n > 0
           /\ \E p \in Places(list, n, b) : Take(f, list, n, p)
           /\ rv' = [rv EXCEPT ![f] = "0"]
  <2>1. PICK p \in Places(list, n, b) : Take(f, list, n, p)
    BY <1>8
  <2>2. PICK c : c = [qbase |-> p.qbase, total |-> n]
    OBVIOUS
  <2>3. entry' = [entry EXCEPT ![f] = c] /\ free' = Cut(list, n, p)
    BY <2>1, <2>2 DEF Take
  <2>4. /\ InOrder(Cut(list, n, p))
        /\ c \in Chunk /\ (c.total > 0 => c \in Node)
        /\ Queues(c) \subseteq FreeOf(list)
        /\ FreeOf(Cut(list, n, p)) = FreeOf(list) \ Queues(c)
    BY <1>4, <2>2, CutTakes
  <2>5. Goal(c, "0")
    BY <1>1, <1>4, <1>8, <2>3, <2>4
  <2>. QED BY <2>5
<1>9. CASE /\ n > 0
           /\ \/ \E p \in OldPlaces(list, old) : Take(f, list, old.total, p)
              \/ /\ OldPlaces(list, old) = {}
                 /\ free' = list
                 /\ entry' = [entry EXCEPT ![f] = NoChunk]
           /\ rv' = [rv EXCEPT ![f] = "NO_QUEUES_LEFT"]
  <2>1. CASE \E p \in OldPlaces(list, old) : Take(f, list, old.total, p)
    <3>1. PICK p \in OldPlaces(list, old) : Take(f, list, old.total, p)
      BY <2>1
    <3>2. PICK c : c = [qbase |-> p.qbase, total |-> old.total]
      OBVIOUS
    <3>3. entry' = [entry EXCEPT ![f] = c] /\ free' = Cut(list, old.total, p)
      BY <3>1, <3>2 DEF Take
    <3>4. old.total \in Nat /\ old.qbase \in Int /\ p \in Places(list, old.total, old.qbase)
      BY <1>3 DEF Chunk, OldPlaces
    <3>5. /\ InOrder(Cut(list, old.total, p))
          /\ c \in Chunk /\ (c.total > 0 => c \in Node)
          /\ Queues(c) \subseteq FreeOf(list)
          /\ FreeOf(Cut(list, old.total, p)) = FreeOf(list) \ Queues(c)
      BY <1>4, <3>2, <3>4, CutTakes
    <3>6. Queues(c) = Queues(old)
      <4>1. CASE old.total = 0
        <5>1. c.total = 0 /\ c.qbase \in Int
          BY <3>2, <3>5, <4>1 DEF Chunk
        <5>. QED BY <1>6, <4>1, <5>1, QueuesOf
      <4>2. CASE old.total # 0
        <5>1. old \in Node /\ Within(list, old)
          BY <1>3, <1>4, <3>4, <4>2
        <5>2. p.qbase = old.qbase
          BY <1>4, <5>1, OldPlacesBack
        <5>. QED BY <3>2, <5>2 DEF Queues, End
      <4>. QED BY <4>1, <4>2
    <3>7. Goal(c, "NO_QUEUES_LEFT")
      BY <1>1, <1>4, <1>9, <3>3, <3>5, <3>6
    <3>. QED BY <3>7
  <2>2. CASE /\ OldPlaces(list, old) = {}
             /\ free' = list
             /\ entry' = [entry EXCEPT ![f] = NoChunk]
    <3>1. old.total = 0
      <4>1. ASSUME old.total # 0 PROVE FALSE
        <5>1. old \in Node /\ Within(list, old)
          BY <1>3, <1>4, <4>1 DEF Chunk
        <5>. QED BY <1>4, <2>2, <5>1, OldPlacesBack
      <4>. QED BY <4>1
    <3>2. Goal(NoChunk, "NO_QUEUES_LEFT")
      BY <1>1, <1>4, <1>5, <1>6, <1>9, <2>2, <3>1
    <3>. QED BY <3>2
  <2>. QED BY <1>9, <2>1, <2>2
<1>. QED BY <1>1, <1>2, <1>7, <1>8, <1>9 DEF Request

-----------------------------------------------------------------------------
(* The steps. *)

All == QBase .. QBase + TotalQ - 1

\* The queues of a chunk that lies within the device's are one of its ranges.
LEMMA QueuesAreRange ==
  ASSUME NEW c \in Chunk, Queues(c) \subseteq All
  PROVE  Queues(c) \in Ranges!Ranges
<1>. /\ QBase \in Nat /\ TotalQ \in Nat \ {0}
     /\ c.qbase \in Int /\ c.total \in Nat /\ End(c) = c.qbase + c.total
  BY RangeAssumption DEF Chunk, End
<1>0. ASSUME NEW S, \E k \in All, n \in 0 .. TotalQ : S = k .. k + n - 1
      PROVE  S \in Ranges!Ranges
  <2>1. PICK k \in All, n \in 0 .. TotalQ : S = k .. k + n - 1
    BY <1>0
  <2>2. S = Ranges!Stretch(k, n) /\ k \in Ranges!AllQueues
    BY <2>1 DEF Ranges!Stretch, Ranges!AllQueues, All
  <2>. QED BY <2>2 DEF Ranges!Ranges
<1>1. \A q : q \in Queues(c) <=> q \in Int /\ c.qbase <= q /\ q < c.qbase + c.total
  BY QueuesOf
<1>2. CASE c.total = 0
  <2>1. Queues(c) = {}
    BY <1>2, QueuesOf
  <2>2. QBase .. QBase + 0 - 1 = {} /\ QBase \in All /\ 0 \in 0 .. TotalQ
    BY DEF All
  <2>3. \E k \in All, n \in 0 .. TotalQ : Queues(c) = k .. k + n - 1
    BY <2>1, <2>2
  <2>. QED BY <1>0, <2>3
<1>3. CASE c.total > 0
  <2>1. c.qbase \in All
    BY <1>1, <1>3
  <2>2. c.qbase + c.total - 1 \in All
    BY <1>1, <1>3
  <2>3. c.total \in 0 .. TotalQ
    BY <2>1, <2>2 DEF All
  <2>4. Queues(c) = c.qbase .. c.qbase + c.total - 1
    BY DEF Queues
  <2>5. \E k \in All, n \in 0 .. TotalQ : Queues(c) = k .. k + n - 1
    BY <2>1, <2>3, <2>4
  <2>. QED BY <1>0, <2>5
<1>. QED BY <1>2, <1>3

\* What f owns changes to the queues of c, and nothing else does.
Moves(f, c) ==
    /\ Queues(c) \subseteq Nobodys \cup Owned[f]
    /\ Owned' = [Owned EXCEPT ![f] = Queues(c)]
    /\ Nobodys' = (Nobodys \cup Owned[f]) \ Queues(c)

LEMMA OwnedMoves ==
  ASSUME NEW f \in Func, NEW c, entry \in [Func -> Chunk], entry' = [entry EXCEPT ![f] = c]
  PROVE  Owned' = [Owned EXCEPT ![f] = Queues(c)]
BY DEF Owned, Queues, End

LEMMA NobodysIs == /\ exists => Nobodys = FreeOf(free)
                   /\ ~exists => Nobodys = All
BY DEF Nobodys, FreeOf, All

LEMMA NobodysNext == /\ exists' => Nobodys' = FreeOf(free')
                     /\ ~exists' => Nobodys' = All
BY DEF Nobodys, FreeOf, All, Queues, End

\* An update moves queues between f and the list, and only if f has none active;
\* one that fails leaves f what it had.
LEMMA DevUpdateMoves ==
  ASSUME RangesInv, exists, UNCHANGED exists, NEW f \in Func, NEW n \in Nat, NEW b \in Int,
         DevUpdate(f, n, b)
  PROVE  \E c \in Chunk, r \in {"0", "NO_QUEUES_LEFT", "REJECTED"} :
            /\ c.total > 0 => c \in Node
            /\ InOrder(free')
            /\ entry' = [entry EXCEPT ![f] = c]
            /\ rv' = [rv EXCEPT ![f] = r]
            /\ r # "0" => Queues(c) = Queues(entry[f])
            /\ Moves(f, c)
            /\ Idle(f) \/ (Queues(c) = Owned[f] /\ Nobodys' = Nobodys)
<1>1. /\ Owned[f] = Queues(entry[f]) /\ Nobodys = FreeOf(free)
      /\ Queues(entry[f]) \cap FreeOf(free) = {}
  BY NobodysIs DEF RangesInv, Parts, Owned
<1>2. MgrType /\ OneStep(f) /\ entry \in [Func -> Chunk]
  BY DEF RangesInv, MgrType
<1>3. Nobodys' = FreeOf(free')
  BY NobodysNext
<1>4. CASE Idle(f) /\ Request(f, n, b)
  <2>1. PICK c \in Chunk, r \in {"0", "NO_QUEUES_LEFT"} :
            /\ c.total > 0 => c \in Node
            /\ InOrder(free')
            /\ entry' = [entry EXCEPT ![f] = c]
            /\ rv' = [rv EXCEPT ![f] = r]
            /\ r = "NO_QUEUES_LEFT" => Queues(c) = Queues(entry[f])
            /\ Queues(c) \subseteq FreeOf(free) \cup Queues(entry[f])
            /\ FreeOf(free') = (FreeOf(free) \cup Queues(entry[f])) \ Queues(c)
    BY <1>1, <1>2, <1>4, RequestTakes
  <2>2. Owned' = [Owned EXCEPT ![f] = Queues(c)]
    BY <1>2, <2>1, OwnedMoves
  <2>3. Moves(f, c)
    BY <1>1, <1>3, <2>1, <2>2 DEF Moves
  <2>. QED BY <1>4, <2>1, <2>3
<1>5. CASE ~Idle(f) /\ rv' = [rv EXCEPT ![f] = "REJECTED"] /\ UNCHANGED <<free, entry>>
  <2>1. PICK c : c = entry[f]
    OBVIOUS
  <2>2. /\ c \in Chunk /\ (c.total > 0 => c \in Node)
        /\ entry' = [entry EXCEPT ![f] = c]
    BY <1>2, <1>5, <2>1 DEF OneStep
  <2>3. Owned' = [Owned EXCEPT ![f] = Queues(c)]
    BY <1>2, <2>2, OwnedMoves
  <2>4. Nobodys' = Nobodys
    BY <1>1, <1>3, <1>5
  <2>5. Moves(f, c)
    BY <1>1, <2>1, <2>3, <2>4 DEF Moves
  <2>6. InOrder(free')
    BY <1>2, <1>5 DEF MgrType
  <2>. QED BY <1>1, <1>5, <2>1, <2>2, <2>4, <2>5, <2>6
<1>. QED BY <1>4, <1>5 DEF DevUpdate

\* What an invariant says of a function depends on its own state only.
Same(g) ==
    /\ entry'[g] = entry[g] /\ active'[g] = active[g]
    /\ pc'[g] = pc[g] /\ queues'[g] = queues[g]
    /\ g \in devs' <=> g \in devs

LEMMA SameKeeps ==
  ASSUME NEW g \in Func, OneStep(g), Same(g)
  PROVE  OneStep(g)'
<1>1. \A t \in Type : TableUse(g, t)' = TableUse(g, t)
  BY DEF TableUse, Same
<1>. QED BY <1>1 DEF OneStep, Same

LEMMA PartsNext ==
  ASSUME NEW o, NEW a, Parts(o, a), Owned' = o, Nobodys' = a
  PROVE  Parts(Owned, Nobodys)'
BY DEF Parts

\* What an update, an open or a close of f leaves to be shown.
LEMMA MovesKeep ==
  ASSUME RangesInv, NEW f \in Func, NEW c, Moves(f, c)
  PROVE  /\ Parts(Owned, Nobodys)'
         /\ \A g \in Func : g # f => Owned'[g] = Owned[g]
         /\ Owned'[f] = Queues(c)
<1>1. Parts(Owned, Nobodys) /\ Owned = [g \in Func |-> Owned[g]]
  BY DEF RangesInv, Owned
<1>2. Parts([Owned EXCEPT ![f] = Queues(c)], (Nobodys \cup Owned[f]) \ Queues(c))
  BY <1>1, PartsKeep DEF Moves
<1>3. Parts(Owned, Nobodys)'
  BY <1>2, PartsNext DEF Moves
<1>. QED BY <1>1, <1>3 DEF Moves

LEMMA NoneOfBoth ==
  ASSUME NEW m \in Nat, NEW n \in Nat, m + n = 0
  PROVE  m = 0 /\ n = 0
OBVIOUS

\* A function without active queues has none.
LEMMA IdleHasNone ==
  ASSUME RangesInv, NEW f \in Func, f \in devs, Idle(f)
  PROVE  ~InUse[f]
<1>1. queues[f] \in [Kind -> Nat] /\ \A t \in Type : TableUse(f, t) = 0
  BY DEF RangesInv, MgrType, OneStep, Idle
<1>2. /\ queues[f]["H2C"] = 0
      /\ queues[f]["C2H"] + queues[f]["ST C2H"] = 0
      /\ queues[f]["ST C2H"] + (IF MmCmptEn THEN queues[f]["CMPT"] ELSE 0) = 0
  BY <1>1 DEF TableUse, Type
<1>3. ASSUME NEW k \in Kind
      PROVE  queues[f][k] = 0
  <2>1. PICK q \in [Kind -> Nat] : q = queues[f]
    BY <1>1
  <2>2. "H2C" \in Kind /\ "C2H" \in Kind /\ "ST C2H" \in Kind
    BY DEF Kind
  <2>6. q["C2H"] \in Nat /\ q["ST C2H"] \in Nat /\ q["C2H"] + q["ST C2H"] = 0
    BY <1>2, <2>1, <2>2
  <2>3. q["H2C"] = 0 /\ q["C2H"] = 0 /\ q["ST C2H"] = 0
    <3>1. q["C2H"] = 0 /\ q["ST C2H"] = 0
      BY ONLY <2>6, NoneOfBoth
    <3>. QED BY <1>2, <2>1, <3>1
  <2>4. k = "CMPT" /\ k \notin {"H2C", "C2H", "ST C2H"} => MmCmptEn
    BY DEF Kind
  <2>5. k = "CMPT" => q[k] = 0
    <3>1. CASE k = "CMPT"
      <4>1. MmCmptEn
        BY <2>4, <3>1
      <4>2. q["ST C2H"] + q["CMPT"] = 0
        BY <1>2, <2>1, <4>1
      <4>3. q["CMPT"] \in Nat
        BY <3>1
      <4>. QED BY <2>6, <3>1, <4>2, <4>3, NoneOfBoth
    <3>. QED BY <3>1
  <2>. QED BY <2>1, <2>3, <2>5 DEF Kind
<1>. QED BY <1>3 DEF InUse

LEMMA InUseSame ==
  ASSUME UNCHANGED queues
  PROVE  InUse' = InUse
BY DEF InUse

\* A function without queues that changes its range takes a step of QueueRanges.
LEMMA MoveReassigns ==
  ASSUME RangesInv, NEW f \in Func, NEW c \in Chunk, Moves(f, c), ~InUse[f], UNCHANGED queues
  PROVE  Ranges!Reassign(f)
<1>1. Queues(c) \in Ranges!Ranges
  <2>1. All = Nobodys \cup UNION {Owned[g] : g \in Func}
    BY DEF RangesInv, Parts, All
  <2>2. Queues(c) \subseteq All
    BY <2>1 DEF Moves
  <2>. QED BY <2>2, QueuesAreRange
<1>2. UNCHANGED InUse
  BY InUseSame
<1>3. /\ Queues(c) \subseteq Nobodys \cup Owned[f]
      /\ Owned' = [Owned EXCEPT ![f] = Queues(c)]
      /\ Nobodys' = (Nobodys \cup Owned[f]) \ Queues(c)
  BY DEF Moves
<1>. QED BY <1>1, <1>2, <1>3 DEF Ranges!Reassign

Failed == {"NO_QUEUES_LEFT", "REJECTED"}

\* What is to be shown of each step.
Good ==
    /\ RangesInv'
    /\ [Ranges!RangeNext]_(Ranges!rangeVars)
    /\ \A f \in Func : rv'[f] \in Failed => Owned'[f] = Owned[f]

\* The invariant, from what the step does to the one function f.
LEMMA Assembled ==
  ASSUME RangesInv, NEW f \in Func, MgrType', ~exists' => devs' = {},
         \A g \in Func : g # f => Same(g), OneStep(f)', Parts(Owned, Nobodys)'
  PROVE  RangesInv'
<1>1. \A g \in Func : OneStep(g)'
  BY SameKeeps DEF RangesInv
<1>. QED BY <1>1 DEF RangesInv

\* A step that leaves the ranges and the users of them alone.
LEMMA Stutters ==
  ASSUME RangesInv, Owned' = Owned, Nobodys' = Nobodys
  PROVE  /\ Parts(Owned, Nobodys)'
         /\ \A f \in Func : Owned'[f] = Owned[f]
         /\ UNCHANGED queues => [Ranges!RangeNext]_(Ranges!rangeVars)
<1>1. Parts(Owned, Nobodys)'
  BY PartsNext DEF RangesInv
<1>2. UNCHANGED queues => UNCHANGED InUse
  BY InUseSame
<1>. QED BY <1>1, <1>2 DEF Ranges!rangeVars

LEMMA RangesSame ==
  ASSUME UNCHANGED <<exists, free, entry>>
  PROVE  Owned' = Owned /\ Nobodys' = Nobodys
<1>1. Owned' = Owned
  BY DEF Owned, Queues, End
<1>2. Nobodys' = Nobodys
  BY NobodysIs, NobodysNext DEF FreeOf, Queues, End
<1>. QED BY <1>1, <1>2

LEMMA FuncIs == \A f \in Func : (f \in Pf \/ f \in Vf) /\ ~(f \in Pf /\ f \in Vf)
BY RangeAssumption DEF Func

\* The list as the device makes it: one node with every queue.
LEMMA FirstList ==
  LET list == <<[qbase |-> QBase, total |-> TotalQ]>>
  IN  InOrder(list) /\ FreeOf(list) = All
<1>. DEFINE c == [qbase |-> QBase, total |-> TotalQ]
            list == <<c>>
<1>1. c \in Node /\ QBase \in Nat /\ TotalQ \in Nat
  BY RangeAssumption DEF Node
<1>2. Queues(c) = All
  <2>1. c.qbase = QBase /\ c.total = TotalQ
    OBVIOUS
  <2>. HIDE DEF c
  <2>2. End(c) = QBase + TotalQ
    BY <2>1 DEF End
  <2>3. Queues(c) = QBase .. (QBase + TotalQ) - 1
    BY <2>1, <2>2, Zenon DEF Queues
  <2>4. (QBase + TotalQ) - 1 = QBase + TotalQ - 1
    BY <1>1
  <2>. QED BY <2>3, <2>4, Zenon DEF All
<1>3. list \in Seq(Node) /\ Len(list) = 1 /\ list[1] = c /\ 1 .. 1 = {1}
  BY <1>1
<1>. HIDE DEF list
<1>4. InOrder(list)
  BY <1>3 DEF InOrder
<1>5. FreeOf(list) = All
  BY <1>2, <1>3 DEF FreeOf
<1>. QED BY <1>4, <1>5 DEF list

LEMMA EmptyList == InOrder(<<>>) /\ FreeOf(<<>>) = {}
<1>1. <<>> \in Seq(Node) /\ Len(<<>>) = 0 /\ 1 .. 0 = {}
  OBVIOUS
<1>. QED BY <1>1 DEF InOrder, FreeOf

\* Without entries everything is nobody's.
LEMMA NobodyOwns ==
  ASSUME RangesInv, devs = {}
  PROVE  Nobodys = All
<1>1. \A f \in Func : Owned[f] = {}
  <2>1. NoChunk.qbase \in Int /\ NoChunk.total \in Int /\ NoChunk.total = 0
    BY DEF NoChunk
  <2>2. Queues(NoChunk) = {}
    BY <2>1, QueuesOf
  <2>. QED BY <2>2 DEF RangesInv, OneStep, Owned
<1>2. UNION {Owned[f] : f \in Func} = {}
  BY <1>1
<1>3. All = Nobodys \cup UNION {Owned[f] : f \in Func}
  BY DEF RangesInv, Parts, All
<1>. QED BY <1>2, <1>3

\* A function that has added no queue counts none.
LEMMA NoneAdded ==
  ASSUME NEW f \in Func, queues[f] = NoQueues
  PROVE  \A t \in Type : TableUse(f, t) = 0
<1>1. "H2C" \in Kind /\ "C2H" \in Kind /\ "ST C2H" \in Kind /\ (MmCmptEn => "CMPT" \in Kind)
  BY DEF Kind
<1>2. \A k \in Kind : queues[f][k] = 0
  BY DEF NoQueues
<1>6. /\ queues[f]["H2C"] = 0 /\ queues[f]["C2H"] = 0 /\ queues[f]["ST C2H"] = 0
      /\ (IF MmCmptEn THEN queues[f]["CMPT"] ELSE 0) = 0
  BY <1>1, <1>2
<1>7. 0 + 0 = 0
  OBVIOUS
<1>3. TableUse(f, "H2C") = 0
  BY <1>6 DEF TableUse
<1>4. TableUse(f, "C2H") = 0
  BY <1>6, <1>7, Zenon DEF TableUse
<1>5. TableUse(f, "CMPT") = 0
  BY <1>6, <1>7, Zenon DEF TableUse
<1>. QED BY <1>3, <1>4, <1>5 DEF Type

LEMMA MasterCreateGood ==
  ASSUME RangesInv, NEW f \in Func, MasterCreate(f)
  PROVE  Good
<1>1. /\ f \in Pf /\ pc[f] = "closed" /\ pc' = [pc EXCEPT ![f] = "probe"]
      /\ UNCHANGED <<devs, entry, active, queues, rv>>
      /\ exists' = TRUE
  BY DEF MasterCreate, RangesInv, MgrType
<1>2. InOrder(free') /\ Nobodys' = Nobodys
  <2>1. CASE exists /\ UNCHANGED <<exists, free, masterActive>>
    BY <1>1, <2>1, RangesSame DEF RangesInv, MgrType
  <2>2. CASE ~exists /\ free' = <<[qbase |-> QBase, total |-> TotalQ]>>
    BY <1>1, <2>2, FirstList, NobodysIs, NobodysNext
  <2>. QED BY <2>1, <2>2 DEF MasterCreate
<1>3. Owned' = Owned
  BY <1>1 DEF Owned, Queues, End
<1>4. MgrType'
  BY <1>1, <1>2 DEF RangesInv, MgrType
<1>5. /\ \A g \in Func : g # f => Same(g)
      /\ pc'[f] = "probe"
  BY <1>1 DEF Same, RangesInv, MgrType
<1>6. OneStep(f)'
  <2>1. \A t \in Type : TableUse(f, t)' = TableUse(f, t)
    BY <1>1 DEF TableUse
  <2>. QED BY <1>1, <1>5, <2>1, FuncIs DEF RangesInv, OneStep
<1>7. RangesInv'
  BY <1>1, <1>2, <1>3, <1>4, <1>5, <1>6, Assembled, Stutters
<1>. QED BY <1>1, <1>2, <1>3, <1>7, Stutters DEF Good

LEMMA EntryCreateGood ==
  ASSUME RangesInv, NEW f \in Func, EntryCreate(f)
  PROVE  Good
<1>1. /\ pc[f] = "probe" /\ UNCHANGED <<exists, free, queues, rv>>
      /\ f \in Pf /\ queues[f] = NoQueues
  BY FuncIs DEF EntryCreate, RangesInv, OneStep
<1>2. MgrType /\ OneStep(f)
  BY DEF RangesInv
<1>3. CASE /\ pc' = [pc EXCEPT ![f] = IF exists THEN "again" ELSE "closed"]
           /\ exists => f \in devs
           /\ UNCHANGED <<devs, entry, active>>
  <2>1. Owned' = Owned /\ Nobodys' = Nobodys
    BY <1>1, <1>3, RangesSame
  <2>2. MgrType'
    BY <1>1, <1>2, <1>3 DEF MgrType
  <2>3. /\ \A g \in Func : g # f => Same(g)
        /\ pc'[f] = IF exists THEN "again" ELSE "closed"
    BY <1>1, <1>2, <1>3 DEF Same, MgrType
  <2>4. OneStep(f)'
    <3>1. \A t \in Type : TableUse(f, t)' = TableUse(f, t)
      BY <1>1 DEF TableUse
    <3>. QED BY <1>1, <1>2, <1>3, <2>3, <3>1, FuncIs DEF OneStep
  <2>5. RangesInv'
    BY <1>1, <1>3, <2>1, <2>2, <2>3, <2>4, Assembled, Stutters DEF RangesInv
  <2>. QED BY <1>1, <2>1, <2>5, Stutters DEF Good
<1>4. CASE /\ exists /\ f \notin devs /\ pc' = [pc EXCEPT ![f] = "fresh"]
           /\ NewEntry(f)
  <2>1. UNCHANGED entry
    BY <1>2, <1>4 DEF NewEntry, OneStep, MgrType
  <2>2. Owned' = Owned /\ Nobodys' = Nobodys
    BY <1>1, <2>1, RangesSame
  <2>3. MgrType'
    BY <1>1, <1>2, <1>4, <2>1 DEF MgrType, NewEntry, NoActive
  <2>4. /\ \A g \in Func : g # f => Same(g)
        /\ pc'[f] = "fresh" /\ f \in devs' /\ active'[f] = NoActive
    BY <1>1, <1>2, <1>4, <2>1 DEF Same, MgrType, NewEntry
  <2>5. OneStep(f)'
    <3>1. \A t \in Type : TableUse(f, t)' = 0
      <4>1. \A t \in Type : TableUse(f, t) = 0
        BY <1>1, NoneAdded
      <4>. QED BY <1>1, <4>1 DEF TableUse
    <3>. QED BY <1>1, <1>2, <2>1, <2>4, <3>1, FuncIs DEF OneStep, NoActive
  <2>6. RangesInv'
    BY <1>1, <1>4, <2>2, <2>3, <2>4, <2>5, Assembled, Stutters DEF RangesInv
  <2>. QED BY <1>1, <2>2, <2>6, Stutters DEF Good
<1>. QED BY <1>1, <1>3, <1>4 DEF EntryCreate

\* An update while f has an entry, whatever it does to pc.
LEMMA UpdateGood ==
  ASSUME RangesInv, exists, NEW f \in Func, f \in devs, NEW n \in Nat, NEW b \in Int,
         DevUpdate(f, n, b), UNCHANGED <<exists, devs, active, queues>>,
         NEW s, pc' = [pc EXCEPT ![f] = s], s \in {"open", "closed"},
         queues[f] # NoQueues => s = "open", f \in Vf => s = "open"
  PROVE  Good
<1>1. PICK c \in Chunk, r \in {"0", "NO_QUEUES_LEFT", "REJECTED"} :
            /\ c.total > 0 => c \in Node
            /\ InOrder(free')
            /\ entry' = [entry EXCEPT ![f] = c]
            /\ rv' = [rv EXCEPT ![f] = r]
            /\ r # "0" => Queues(c) = Queues(entry[f])
            /\ Moves(f, c)
            /\ Idle(f) \/ (Queues(c) = Owned[f] /\ Nobodys' = Nobodys)
  BY DevUpdateMoves
<1>2. MgrType /\ OneStep(f)
  BY DEF RangesInv
<1>3. /\ Parts(Owned, Nobodys)'
      /\ \A g \in Func : g # f => Owned'[g] = Owned[g]
      /\ Owned'[f] = Queues(c)
  BY <1>1, MovesKeep
<1>4. MgrType'
  BY <1>1, <1>2 DEF MgrType
<1>5. /\ \A g \in Func : g # f => Same(g)
      /\ pc'[f] = s /\ entry'[f] = c /\ rv'[f] = r
      /\ \A g \in Func : g # f => rv'[g] = rv[g]
  BY <1>1, <1>2 DEF Same, MgrType
<1>6. OneStep(f)'
  <2>1. \A t \in Type : TableUse(f, t)' = TableUse(f, t)
    BY DEF TableUse
  <2>. QED BY <1>1, <1>2, <1>5, <2>1 DEF OneStep
<1>7. RangesInv'
  BY <1>3, <1>4, <1>5, <1>6, Assembled
<1>8. [Ranges!RangeNext]_(Ranges!rangeVars)
  <2>1. CASE Idle(f)
    <3>1. Ranges!Reassign(f)
      BY <1>1, <2>1, IdleHasNone, MoveReassigns
    <3>. QED BY <3>1 DEF Ranges!RangeNext
  <2>2. CASE Queues(c) = Owned[f] /\ Nobodys' = Nobodys
    <3>1. Owned' = Owned
      BY <1>1, <2>2 DEF Moves, Owned
    <3>. QED BY <2>2, <3>1, Stutters
  <2>. QED BY <1>1, <2>1, <2>2
<1>9. \A g \in Func : rv'[g] \in Failed => Owned'[g] = Owned[g]
  <2>1. Owned[f] = Queues(entry[f])
    BY DEF Owned
  <2>2. rv'[f] \in Failed => Owned'[f] = Owned[f]
    BY <1>1, <1>3, <1>5, <2>1 DEF Failed
  <2>. QED BY <1>3, <2>2
<1>. QED BY <1>7, <1>8, <1>9 DEF Good

LEMMA ProbeUpdateGood ==
  ASSUME RangesInv, NEW f \in Func, ProbeUpdate(f)
  PROVE  Good
<1>1. MgrType /\ OneStep(f) /\ (~exists => devs = {})
  BY DEF RangesInv
<1>2. /\ f \in devs /\ exists /\ queues[f] = NoQueues /\ f \notin Vf
      /\ UNCHANGED <<exists, devs, active, queues>>
  BY <1>1 DEF ProbeUpdate, OneStep
<1>3. PICK s : s = IF rv'[f] = "0" THEN "open" ELSE "closed"
  OBVIOUS
<1>4. pc' = [pc EXCEPT ![f] = s] /\ s \in {"open", "closed"}
  BY <1>3 DEF ProbeUpdate
<1>5. PICK n \in Nat, b \in Int : DevUpdate(f, n, b)
  <2>1. TotalQ \in Nat /\ 0 \in Int /\ entry[f].total \in Nat /\ entry[f].qbase \in Int
    BY <1>1, RangeAssumption DEF MgrType, Chunk
  <2>. QED BY <2>1 DEF ProbeUpdate
<1>. QED BY <1>2, <1>4, <1>5, UpdateGood

LEMMA SetQmaxGood ==
  ASSUME RangesInv, NEW f \in Func, NEW n \in 0 .. TotalQ + 1, SetQmax(f, n)
  PROVE  Good
<1>1. MgrType /\ OneStep(f) /\ (~exists => devs = {})
  BY DEF RangesInv
<1>2. /\ f \in devs /\ exists
      /\ UNCHANGED <<exists, devs, active, queues>>
      /\ pc' = [pc EXCEPT ![f] = "open"]
  BY <1>1 DEF SetQmax, OneStep, MgrType
<1>3. n \in Nat /\ -1 \in Int /\ DevUpdate(f, n, -1)
  BY DEF SetQmax
<1>. QED BY <1>2, <1>3, UpdateGood

LEMMA HelloGood ==
  ASSUME RangesInv, NEW f \in Func, Hello(f)
  PROVE  Good
<1>1. MgrType /\ OneStep(f)
  BY DEF RangesInv
<1>2. /\ f \in Vf /\ pc[f] = "closed" /\ f \notin devs /\ queues[f] = NoQueues
      /\ pc' = [pc EXCEPT ![f] = "open"]
      /\ UNCHANGED <<exists, free, queues, rv>> /\ NewEntry(f)
  BY <1>1 DEF Hello, OneStep
<1>3. exists
  <2>1. Parent[f] \in Func /\ pc[Parent[f]] = "open"
    BY <1>2, RangeAssumption DEF Hello, Func
  <2>2. Parent[f] \in devs
    BY <2>1 DEF RangesInv, OneStep
  <2>. QED BY <2>2 DEF RangesInv
<1>4. UNCHANGED entry
  BY <1>1, <1>2 DEF NewEntry, OneStep, MgrType
<1>5. Owned' = Owned /\ Nobodys' = Nobodys
  BY <1>2, <1>4, RangesSame
<1>6. MgrType'
  BY <1>1, <1>2, <1>4 DEF MgrType, NewEntry, NoActive
<1>7. /\ \A g \in Func : g # f => Same(g)
      /\ pc'[f] = "open" /\ f \in devs' /\ active'[f] = NoActive
  BY <1>1, <1>2, <1>4 DEF Same, MgrType, NewEntry
<1>8. OneStep(f)'
  <2>1. \A t \in Type : TableUse(f, t)' = 0
    <3>1. \A t \in Type : TableUse(f, t) = 0
      BY <1>2, NoneAdded
    <3>. QED BY <1>2, <3>1 DEF TableUse
  <2>. QED BY <1>1, <1>2, <1>4, <1>7, <2>1 DEF OneStep, NoActive
<1>9. RangesInv'
  BY <1>2, <1>3, <1>5, <1>6, <1>7, <1>8, Assembled, Stutters
<1>. QED BY <1>2, <1>5, <1>9, Stutters DEF Good

\* f removes its queues and its entry, and gives its range back.
LEMMA EntryDestroyGood ==
  ASSUME RangesInv, NEW f \in Func, pc[f] = "open", EntryDestroy(f), UNCHANGED exists,
         NEW s, pc' = [pc EXCEPT ![f] = s],
         \/ f \in Pf /\ s = "leaving"
         \/ f \in Vf /\ s = "closed"
  PROVE  Good
<1>1. MgrType /\ OneStep(f)
  BY DEF RangesInv
<1>2. f \in devs /\ exists /\ exists'
  BY <1>1 DEF RangesInv, OneStep
<1>3. /\ queues' = [queues EXCEPT ![f] = NoQueues]
      /\ free' = Submit(free, entry[f])
      /\ entry' = [entry EXCEPT ![f] = NoChunk]
      /\ active' = [active EXCEPT ![f] = NoActive]
      /\ devs' = devs \ {f}
      /\ rv' = [rv EXCEPT ![f] = "none"]
  BY DEF EntryDestroy
<1>4. /\ InOrder(free') /\ Nobodys' = Nobodys \cup Owned[f]
  <2>1. entry[f] \in Chunk /\ (entry[f].total > 0 => entry[f] \in Node) /\ InOrder(free)
    BY <1>1 DEF MgrType, OneStep
  <2>2. Owned[f] = Queues(entry[f]) /\ Nobodys = FreeOf(free) /\ Nobodys' = FreeOf(free')
    BY <1>2, NobodysIs, NobodysNext DEF Owned
  <2>3. Queues(entry[f]) \cap FreeOf(free) = {}
    BY <2>2 DEF RangesInv, Parts
  <2>. QED BY <1>3, <2>1, <2>2, <2>3, SubmitFrees
<1>5. Queues(NoChunk) = {} /\ NoChunk \in Chunk /\ NoChunk.total = 0
  <2>1. NoChunk.total = 0 /\ NoChunk.qbase \in Int /\ NoChunk \in Chunk
    BY DEF NoChunk, Chunk
  <2>. QED BY <2>1, QueuesOf
<1>6. Owned' = [Owned EXCEPT ![f] = {}]
  BY <1>1, <1>3, <1>5, OwnedMoves DEF MgrType
<1>7. Moves(f, NoChunk)
  BY <1>4, <1>5, <1>6 DEF Moves
<1>8. /\ Parts(Owned, Nobodys)'
      /\ \A g \in Func : g # f => Owned'[g] = Owned[g]
  BY <1>7, MovesKeep
<1>9. s \in {"leaving", "closed"}
  OBVIOUS
<1>10. MgrType'
  BY <1>1, <1>3, <1>4, <1>5, <1>9 DEF MgrType, NoActive, NoQueues
<1>11. /\ \A g \in Func : g # f => Same(g)
       /\ pc'[f] = s /\ entry'[f] = NoChunk /\ queues'[f] = NoQueues /\ f \notin devs'
       /\ rv'[f] = "none" /\ \A g \in Func : g # f => rv'[g] = rv[g]
  BY <1>1, <1>3 DEF Same, MgrType
<1>12. OneStep(f)'
  BY <1>5, <1>11, FuncIs DEF OneStep
<1>13. RangesInv'
  BY <1>2, <1>8, <1>10, <1>11, <1>12, Assembled
<1>14. Ranges!Leave(f)
  <2>1. InUse' = [InUse EXCEPT ![f] = FALSE]
    <3>1. \A k \in Kind : ~(NoQueues[k] > 0)
      BY DEF NoQueues
    <3>2. InUse' = [g \in Func |-> \E k \in Kind : queues'[g][k] > 0]
      BY DEF InUse
    <3>3. \A g \in Func : queues'[g] = IF g = f THEN NoQueues ELSE queues[g]
      BY <1>1, <1>3 DEF MgrType
    <3>4. \A g \in Func : (\E k \in Kind : queues'[g][k] > 0)
                             = IF g = f THEN FALSE ELSE InUse[g]
      BY <3>1, <3>3 DEF InUse
    <3>5. InUse' = [g \in Func |-> IF g = f THEN FALSE ELSE InUse[g]]
      BY <3>2, <3>4
    <3>6. [InUse EXCEPT ![f] = FALSE] = [g \in Func |-> IF g = f THEN FALSE ELSE InUse[g]]
      BY DEF InUse
    <3>. QED BY <3>5, <3>6
  <2>. QED BY <1>4, <1>6, <2>1 DEF Ranges!Leave
<1>15. [Ranges!RangeNext]_(Ranges!rangeVars)
  BY <1>14 DEF Ranges!RangeNext
<1>16. \A g \in Func : rv'[g] \in Failed => Owned'[g] = Owned[g]
  BY <1>8, <1>11 DEF Failed
<1>. QED BY <1>13, <1>15, <1>16 DEF Good

LEMMA MasterDestroyGood ==
  ASSUME RangesInv, NEW f \in Func, MasterDestroy(f)
  PROVE  Good
<1>1. MgrType /\ OneStep(f)
  BY DEF RangesInv
<1>2. /\ pc[f] = "leaving" /\ f \notin Vf /\ queues[f] = NoQueues
      /\ pc' = [pc EXCEPT ![f] = "closed"]
      /\ UNCHANGED <<devs, entry, active, queues, rv>>
  BY <1>1 DEF MasterDestroy, OneStep
<1>3. /\ exists' \in BOOLEAN /\ InOrder(free') /\ Nobodys' = Nobodys
      /\ ~exists' => devs' = {}
  <2>1. CASE devs # {} /\ UNCHANGED <<exists, free, masterActive>>
    BY <1>1, <1>2, <2>1, RangesSame DEF RangesInv, MgrType
  <2>2. CASE devs = {} /\ exists' = FALSE /\ free' = <<>>
    BY <1>2, <2>2, EmptyList, NobodyOwns, NobodysNext
  <2>. QED BY <2>1, <2>2 DEF MasterDestroy
<1>4. Owned' = Owned
  BY <1>2 DEF Owned, Queues, End
<1>5. MgrType'
  BY <1>1, <1>2, <1>3 DEF MgrType
<1>6. /\ \A g \in Func : g # f => Same(g)
      /\ pc'[f] = "closed"
  BY <1>1, <1>2 DEF Same, MgrType
<1>7. OneStep(f)'
  <2>1. \A t \in Type : TableUse(f, t)' = TableUse(f, t)
    BY <1>2 DEF TableUse
  <2>. QED BY <1>1, <1>2, <1>6, <2>1 DEF OneStep
<1>8. RangesInv'
  BY <1>3, <1>4, <1>5, <1>6, <1>7, Assembled, Stutters
<1>. QED BY <1>2, <1>3, <1>4, <1>8, Stutters DEF Good

\* The queues of one kind more or less, and the counters of the kind with them.
LEMMA AddedChanges ==
  ASSUME NEW q \in [Kind -> Nat], NEW k \in Kind, NEW m \in Nat, NEW d \in Int, m = q[k] + d,
         NEW f \in Func, queues[f] = q, queues'[f] = [q EXCEPT ![k] = m]
  PROVE  \A t \in Type : TableUse(f, t)' = TableUse(f, t) + (IF t \in Counts(k) THEN d ELSE 0)
<1>1. PICK h \in Nat, c \in Nat, s \in Nat, x \in Nat :
        /\ h = q["H2C"] /\ c = q["C2H"] /\ s = q["ST C2H"]
        /\ x = IF MmCmptEn THEN q["CMPT"] ELSE 0
  BY DEF Kind
<1>2. PICK r : r = [q EXCEPT ![k] = m]
  OBVIOUS
<1>3. PICK h2 \in Nat, c2 \in Nat, s2 \in Nat, x2 \in Nat :
        /\ h2 = r["H2C"] /\ c2 = r["C2H"] /\ s2 = r["ST C2H"]
        /\ x2 = IF MmCmptEn THEN r["CMPT"] ELSE 0
  BY <1>2 DEF Kind
<1>4. /\ TableUse(f, "H2C") = h /\ TableUse(f, "C2H") = c + s /\ TableUse(f, "CMPT") = s + x
      /\ TableUse(f, "H2C")' = h2 /\ TableUse(f, "C2H")' = c2 + s2 /\ TableUse(f, "CMPT")' = s2 + x2
  BY <1>1, <1>2, <1>3 DEF TableUse
<1>5. CASE k = "H2C"
  <2>1. h2 = h + d /\ c2 = c /\ s2 = s /\ x2 = x /\ Counts(k) = {"H2C"}
    BY <1>1, <1>2, <1>3, <1>5 DEF Counts, Kind
  <2>. QED BY <1>4, <2>1 DEF Type
<1>6. CASE k = "C2H"
  <2>1. h2 = h /\ c2 = c + d /\ s2 = s /\ x2 = x /\ Counts(k) = {"C2H"}
    BY <1>1, <1>2, <1>3, <1>6 DEF Counts, Kind
  <2>. QED BY <1>4, <2>1 DEF Type
<1>7. CASE k = "ST C2H"
  <2>1. h2 = h /\ c2 = c /\ s2 = s + d /\ x2 = x /\ Counts(k) = {"C2H", "CMPT"}
    BY <1>1, <1>2, <1>3, <1>7 DEF Counts, Kind
  <2>. QED BY <1>4, <2>1 DEF Type
<1>8. CASE k = "CMPT" /\ MmCmptEn
  <2>1. h2 = h /\ c2 = c /\ s2 = s /\ x2 = x + d /\ Counts(k) = {"CMPT"}
    BY <1>1, <1>2, <1>3, <1>8 DEF Counts, Kind
  <2>. QED BY <1>4, <2>1 DEF Type
<1>. QED BY <1>5, <1>6, <1>7, <1>8 DEF Kind

\* The counters c of a function become a when d queues of kind k are added.
Counted(a, c, k, d) ==
    /\ a \in [Type -> Nat]
    /\ \A t \in Type : a[t] = c[t] + (IF t \in Counts(k) THEN d ELSE 0)

RangeStep == [Ranges!RangeNext]_(Ranges!rangeVars)

\* A step that changes the queues of f and their counters, and no range.
LEMMA CountsGood ==
  ASSUME RangesInv, NEW f \in Func, pc[f] = "open", NEW k \in Kind, NEW m \in Nat, NEW d \in Int,
         m = queues[f][k] + d, NEW a, Counted(a, active[f], k, d),
         queues' = [queues EXCEPT ![f] = [queues[f] EXCEPT ![k] = m]],
         active' = [active EXCEPT ![f] = a],
         UNCHANGED <<exists, free, devs, entry, pc, rv>>,
         RangeStep
  PROVE  Good
<1>1. MgrType /\ OneStep(f) /\ f \in devs
  BY DEF RangesInv, OneStep
<1>2. Owned' = Owned /\ Nobodys' = Nobodys
  BY RangesSame
<1>3. PICK q \in [Kind -> Nat] : q = queues[f]
  BY <1>1 DEF MgrType
<1>4. /\ queues' = [queues EXCEPT ![f] = [q EXCEPT ![k] = m]]
      /\ queues'[f] = [q EXCEPT ![k] = m]
  BY <1>1, <1>3 DEF MgrType
<1>5. MgrType'
  <2>1. [q EXCEPT ![k] = m] \in [Kind -> Nat]
    OBVIOUS
  <2>. QED BY <1>1, <1>4, <2>1 DEF MgrType, Counted
<1>6. /\ \A g \in Func : g # f => Same(g)
      /\ active'[f] = a
  BY <1>1, <1>4 DEF Same, MgrType
<1>7. \A t \in Type : TableUse(f, t)' = TableUse(f, t) + (IF t \in Counts(k) THEN d ELSE 0)
  BY <1>3, <1>4, AddedChanges
<1>8. OneStep(f)'
  BY <1>1, <1>6, <1>7 DEF OneStep, Counted
<1>9. RangesInv'
  BY <1>1, <1>2, <1>5, <1>6, <1>8, Assembled, Stutters DEF RangesInv
<1>. QED BY <1>2, <1>9 DEF Good, RangeStep

\* What the step does to who uses queues.
LEMMA InUseIs ==
  ASSUME RangesInv, NEW f \in Func, NEW q, queues' = [queues EXCEPT ![f] = q]
  PROVE  InUse' = [InUse EXCEPT ![f] = \E k \in Kind : q[k] > 0]
<1>1. \A g \in Func : queues'[g] = IF g = f THEN q ELSE queues[g]
  BY DEF RangesInv, MgrType
<1>2. InUse' = [g \in Func |-> \E k \in Kind : queues'[g][k] > 0]
  BY DEF InUse
<1>3. \A g \in Func : (\E k \in Kind : queues'[g][k] > 0)
                         = IF g = f THEN (\E k \in Kind : q[k] > 0) ELSE InUse[g]
  BY <1>1 DEF InUse
<1>4. InUse' = [g \in Func |-> IF g = f THEN (\E k \in Kind : q[k] > 0) ELSE InUse[g]]
  BY <1>2, <1>3
<1>. QED BY <1>4 DEF InUse

LEMMA QueueAddGood ==
  ASSUME RangesInv, NEW f \in Func, NEW k \in Kind, QueueAdd(f, k)
  PROVE  Good
<1>1. MgrType /\ OneStep(f)
  BY DEF RangesInv
<1>2. /\ pc[f] = "open"
      /\ \A t \in Counts(k) : active[f][t] + 1 <= entry[f].total
      /\ queues' = [queues EXCEPT ![f][k] = @ + 1]
      /\ active' = [active EXCEPT ![f] =
                      [t \in Type |-> IF t \in Counts(k) THEN @[t] + 1 ELSE @[t]]]
      /\ UNCHANGED <<exists, free, devs, entry, pc, rv>>
  BY DEF QueueAdd
<1>3. PICK q \in [Kind -> Nat], c \in [Type -> Nat] : q = queues[f] /\ c = active[f]
  BY <1>1 DEF MgrType
<1>4. PICK a : a = [t \in Type |-> IF t \in Counts(k) THEN c[t] + 1 ELSE c[t]]
  OBVIOUS
<1>5. /\ a \in [Type -> Nat]
      /\ \A t \in Type : a[t] = active[f][t] + (IF t \in Counts(k) THEN 1 ELSE 0)
      /\ active' = [active EXCEPT ![f] = a]
  BY <1>1, <1>2, <1>3, <1>4 DEF MgrType
<1>6. PICK m \in Nat : m = q[k] + 1
  OBVIOUS
<1>7. /\ queues' = [queues EXCEPT ![f][k] = m]
      /\ queues' = [queues EXCEPT ![f] = [q EXCEPT ![k] = m]]
      /\ m = queues[f][k] + 1
  BY <1>1, <1>2, <1>3, <1>6 DEF MgrType
<1>8. Ranges!Use(f)
  <2>1. Owned[f] # {}
    <3>1. PICK t \in Counts(k) : t \in Type
      BY DEF Counts, Kind, Type
    <3>2. entry[f].total > 0 /\ entry[f].total \in Nat /\ entry[f].qbase \in Int
      BY <1>1, <1>2, <1>3, <3>1 DEF MgrType, Chunk
    <3>3. entry[f].qbase \in Queues(entry[f])
      BY <3>2, QueuesOf DEF End
    <3>. QED BY <3>3 DEF Owned
  <2>2. InUse' = [InUse EXCEPT ![f] = TRUE]
    <3>1. PICK r : r = [q EXCEPT ![k] = m]
      OBVIOUS
    <3>2. \E j \in Kind : r[j] > 0
      BY <1>6, <3>1
    <3>3. InUse' = [InUse EXCEPT ![f] = \E j \in Kind : r[j] > 0]
      BY <1>7, <3>1, InUseIs
    <3>. QED BY <3>2, <3>3
  <2>3. Owned' = Owned /\ Nobodys' = Nobodys
    BY <1>2, RangesSame
  <2>. QED BY <2>1, <2>2, <2>3 DEF Ranges!Use
<1>9. PICK d \in Int : d = 1
  OBVIOUS
<1>10. m = queues[f][k] + d /\ Counted(a, active[f], k, d)
  BY <1>5, <1>7, <1>9 DEF Counted
<1>11. active' = [active EXCEPT ![f] = a]
  BY <1>5
<1>12. queues' = [queues EXCEPT ![f] = [queues[f] EXCEPT ![k] = m]]
  BY <1>3, <1>7
<1>13. RangeStep
  BY <1>8 DEF RangeStep, Ranges!RangeNext
<1>. HIDE DEF Good
<1>. QED BY <1>2, <1>10, <1>11, <1>12, <1>13, CountsGood

LEMMA QueueRemoveGood ==
  ASSUME RangesInv, NEW f \in Func, NEW k \in Kind, QueueRemove(f, k)
  PROVE  Good
<1>1. MgrType /\ OneStep(f) /\ f \in devs
  BY DEF RangesInv, OneStep, QueueRemove
<1>2. /\ pc[f] = "open" /\ queues[f][k] > 0
      /\ queues' = [queues EXCEPT ![f][k] = @ - 1]
      /\ active' = [active EXCEPT ![f] = Less(f, k)]
      /\ UNCHANGED <<exists, free, devs, entry, pc, rv>>
  BY DEF QueueRemove
<1>3. PICK q \in [Kind -> Nat], c \in [Type -> Nat] : q = queues[f] /\ c = active[f]
  BY <1>1 DEF MgrType
<1>4. \A t \in Counts(k) : t \in Type /\ c[t] > 0
  <2>1. \A t \in Type : c[t] = TableUse(f, t)
    BY <1>1, <1>3 DEF OneStep
  <2>2. \A t \in Counts(k) : t \in Type /\ TableUse(f, t) > 0
    <3>1. PICK h \in Nat, x \in Nat, s \in Nat, y \in Nat :
            /\ h = q["H2C"] /\ x = q["C2H"] /\ s = q["ST C2H"]
            /\ y = IF MmCmptEn THEN q["CMPT"] ELSE 0
      BY DEF Kind
    <3>2. TableUse(f, "H2C") = h /\ TableUse(f, "C2H") = x + s /\ TableUse(f, "CMPT") = s + y
      BY <1>3, <3>1 DEF TableUse
    <3>3. CASE k = "H2C"
      BY <1>2, <1>3, <3>1, <3>2, <3>3 DEF Counts, Type
    <3>4. CASE k = "C2H"
      <4>1. x > 0
        BY <1>2, <1>3, <3>1, <3>4
      <4>. QED BY <3>2, <3>4, <4>1 DEF Counts, Type
    <3>5. CASE k = "ST C2H"
      <4>1. s > 0
        BY <1>2, <1>3, <3>1, <3>5
      <4>2. TableUse(f, "C2H") > 0 /\ TableUse(f, "CMPT") > 0
        BY <3>2, <4>1
      <4>3. Counts(k) = {"C2H", "CMPT"}
        BY <3>5 DEF Counts
      <4>. QED BY <4>2, <4>3 DEF Type
    <3>6. CASE k = "CMPT" /\ MmCmptEn
      <4>1. y > 0
        BY <1>2, <1>3, <3>1, <3>6
      <4>. QED BY <3>2, <3>6, <4>1 DEF Counts, Type
    <3>7. \/ k = "H2C" \/ k = "C2H" \/ k = "ST C2H"
          \/ k = "CMPT" /\ MmCmptEn
      BY DEF Kind
    <3>. QED BY ONLY <3>3, <3>4, <3>5, <3>6, <3>7, Zenon
  <2>. QED BY <2>1, <2>2
<1>5. PICK a : a = Less(f, k)
  OBVIOUS
<1>6. PICK d \in Int : d = 0 - 1
  OBVIOUS
<1>7. /\ a \in [Type -> Nat]
      /\ \A t \in Type : a[t] = active[f][t] + (IF t \in Counts(k) THEN d ELSE 0)
      /\ active' = [active EXCEPT ![f] = a]
  BY <1>2, <1>3, <1>4, <1>5, <1>6 DEF Less
<1>8. PICK m \in Nat : m = q[k] - 1
  BY <1>2, <1>3
<1>9. /\ queues' = [queues EXCEPT ![f][k] = m]
      /\ queues' = [queues EXCEPT ![f] = [q EXCEPT ![k] = m]]
      /\ m = queues[f][k] + d
  BY <1>1, <1>2, <1>3, <1>6, <1>8 DEF MgrType
<1>10. Owned' = Owned /\ Nobodys' = Nobodys
  BY <1>2, RangesSame
<1>11. Ranges!Leave(f) \/ UNCHANGED Ranges!rangeVars
  <2>1. PICK r : r = [q EXCEPT ![k] = m]
    OBVIOUS
  <2>2. InUse' = [InUse EXCEPT ![f] = \E j \in Kind : r[j] > 0]
    BY <1>9, <2>1, InUseIs
  <2>3. CASE \E j \in Kind : r[j] > 0
    <3>1. InUse[f] = TRUE
      BY <1>2 DEF InUse
    <3>2. InUse' = InUse
      BY <2>2, <2>3, <3>1 DEF InUse
    <3>. QED BY <1>10, <3>2 DEF Ranges!rangeVars
  <2>4. CASE ~\E j \in Kind : r[j] > 0
    <3>1. InUse' = [InUse EXCEPT ![f] = FALSE]
      BY <2>2, <2>4
    <3>. QED BY <1>10, <3>1 DEF Ranges!Leave
  <2>. QED BY <2>3, <2>4
<1>12. queues' = [queues EXCEPT ![f] = [queues[f] EXCEPT ![k] = m]]
  BY <1>3, <1>9
<1>13. RangeStep
  BY <1>11 DEF RangeStep, Ranges!RangeNext
<1>14. m = queues[f][k] + d /\ Counted(a, active[f], k, d)
  BY <1>7, <1>9 DEF Counted
<1>. QED BY <1>2, <1>7, <1>12, <1>13, <1>14, CountsGood

LEMMA CloseGood ==
  ASSUME RangesInv, NEW f \in Func, Close(f)
  PROVE  Good
BY EntryDestroyGood DEF Close

LEMMA ByeGood ==
  ASSUME RangesInv, NEW f \in Func, Bye(f)
  PROVE  Good
BY EntryDestroyGood DEF Bye

LEMMA NextGood ==
  ASSUME RangesInv, Next
  PROVE  Good
<1>1. PICK f \in Func :
       \/ Probe(f) \/ Depart(f) \/ Hello(f)
       \/ \E n \in 0 .. TotalQ + 1 : SetQmax(f, n)
       \/ \E k \in Kind : QueueAdd(f, k) \/ QueueRemove(f, k)
  BY DEF Next
<1>2. CASE Probe(f)
  BY <1>2, MasterCreateGood, EntryCreateGood, ProbeUpdateGood DEF Probe
<1>3. CASE Depart(f)
  BY <1>3, CloseGood, MasterDestroyGood, ByeGood DEF Depart
<1>4. CASE \E k \in Kind : QueueAdd(f, k) \/ QueueRemove(f, k)
  BY <1>4, QueueAddGood, QueueRemoveGood
<1>. QED BY <1>1, <1>2, <1>3, <1>4, HelloGood, SetQmaxGood

LEMMA IdleStep ==
  ASSUME RangesInv, UNCHANGED vars
  PROVE  RangesInv' /\ [Ranges!RangeNext]_(Ranges!rangeVars)
<1>1. /\ UNCHANGED <<exists, free, devs, entry, active, pc, queues, rv>>
  BY DEF vars, mgrVars
<1>2. Owned' = Owned /\ Nobodys' = Nobodys
  BY <1>1, RangesSame
<1>3. MgrType'
  BY <1>1 DEF RangesInv, MgrType
<1>4. \A g \in Func : OneStep(g)'
  <2>1. \A g \in Func : Same(g)
    BY <1>1 DEF Same
  <2>. QED BY <2>1, SameKeeps DEF RangesInv
<1>5. Parts(Owned, Nobodys)' /\ [Ranges!RangeNext]_(Ranges!rangeVars)
  BY <1>1, <1>2, Stutters
<1>. QED BY <1>1, <1>3, <1>4, <1>5 DEF RangesInv

LEMMA InitGood ==
  ASSUME Init
  PROVE  RangesInv /\ Ranges!RangeInit
<1>1. Queues(NoChunk) = {} /\ NoChunk \in Chunk /\ NoChunk.total = 0
  <2>1. NoChunk.total = 0 /\ NoChunk.qbase \in Int /\ NoChunk \in Chunk
    BY DEF NoChunk, Chunk
  <2>. QED BY <2>1, QueuesOf
<1>2. Owned = [f \in Func |-> {}]
  BY <1>1 DEF Init, Owned
<1>3. Nobodys = All
  BY NobodysIs DEF Init
<1>4. InUse = [f \in Func |-> FALSE]
  <2>1. \A f \in Func, k \in Kind : ~(queues[f][k] > 0)
    BY DEF Init, NoQueues
  <2>. QED BY <2>1, Zenon DEF InUse
<1>5. Parts(Owned, Nobodys)
  <2>1. UNION {Owned[f] : f \in Func} = {}
    BY <1>2
  <2>. QED BY <1>2, <1>3, <2>1 DEF Parts, All
<1>6. MgrType
  BY <1>1, EmptyList DEF Init, MgrType, NoActive, NoQueues
<1>7. \A f \in Func : OneStep(f)
  BY <1>1 DEF Init, OneStep
<1>8. Ranges!RangeInit
  BY <1>2, <1>3, <1>4 DEF Ranges!RangeInit, Ranges!AllQueues, Ranges!Stretch, All
<1>. QED BY <1>5, <1>6, <1>7, <1>8 DEF RangesInv, Init

(***************************************************************************)
(* qdma_resource_mgmt.c implements QueueRanges: whatever the drivers open, *)
(* close, add and remove, each call of the manager moves one range between *)
(* one function and the queues nobody owns, never while the function uses  *)
(* queues of it, and every split and merge of free_list leaves the sets as *)
(* they are (qdma_request_q_resource, qdma_submit_to_free_list).           *)
(***************************************************************************)
THEOREM ImplementsQueueRanges == Spec => KeepsRanges
<1>1. Init => RangesInv /\ Ranges!RangeInit
  BY InitGood
<1>2. RangesInv /\ [Next]_vars => RangesInv' /\ [Ranges!RangeNext]_(Ranges!rangeVars)
  BY NextGood, IdleStep DEF Good
<1>. QED BY <1>1, <1>2, PTL DEF Spec, KeepsRanges, Ranges!RangeSpec

(***************************************************************************)
(* A qdma_dev_update that is refused, or that finds no room and takes the  *)
(* old range again, leaves the function the queues it had.                 *)
(***************************************************************************)
THEOREM RestoresOnFailure == Spec => FailedUpdateKeeps
<1>1. Init => RangesInv
  BY InitGood
<1>2. RangesInv /\ [Next]_vars => RangesInv'
  BY NextGood, IdleStep DEF Good
<1>3. RangesInv /\ [Next]_vars =>
        [\A f \in Func : rv'[f] \in {"NO_QUEUES_LEFT", "REJECTED"}
                         => Owned'[f] = Owned[f]]_vars
  BY NextGood DEF Good, Failed
<1>. QED BY <1>1, <1>2, <1>3, PTL DEF Spec, FailedUpdateKeeps

(***************************************************************************)
(* No hardware queue is in the entries of two functions, or in an entry    *)
(* and in free_list, and none is in neither.                               *)
(***************************************************************************)
THEOREM NoQueueLostOrShared == Spec => []Ranges!Partition
<1>1. Init => RangesInv
  BY InitGood
<1>2. RangesInv /\ [Next]_vars => RangesInv'
  BY NextGood, IdleStep DEF Good
<1>3. RangesInv => Ranges!Partition
  BY PartsIs DEF RangesInv
<1>. QED BY <1>1, <1>2, <1>3, PTL DEF Spec

-----------------------------------------------------------------------------
(* The counts.  Adding or removing queues changes the pile of one function. *)

\* Something for each queue that each counter of each function counts.
Pile(use) == UNION {{x} \X (1 .. use[x[1]][x[2]]) : x \in Func \X Type}
Total(u) == u["H2C"] + u["C2H"] + u["CMPT"]
Uses == [f \in Func |-> [t \in Type |-> TableUse(f, t)]]

LEMMA PileOf ==
  ASSUME NEW use, NEW z
  PROVE  z \in Pile(use) <=> \E f \in Func, t \in Type :
                                z \in {<<f, t>>} \X (1 .. use[f][t])
BY DEF Pile

\* The part of the pile that is one function's.
LEMMA PartOf ==
  ASSUME NEW u \in [Type -> Nat], NEW f
  PROVE  LET own == ({<<f, "H2C">>} \X (1 .. u["H2C"])) \cup
                    ({<<f, "C2H">>} \X (1 .. u["C2H"])) \cup
                    ({<<f, "CMPT">>} \X (1 .. u["CMPT"]))
         IN  IsFiniteSet(own) /\ Cardinality(own) = Total(u)
<1>1. \A t \in Type : /\ IsFiniteSet({<<f, t>>} \X (1 .. u[t]))
                      /\ Cardinality({<<f, t>>} \X (1 .. u[t])) = u[t]
  <2>. TAKE t \in Type
  <2>1. IsFiniteSet(1 .. u[t]) /\ Cardinality(1 .. u[t]) = u[t] /\ u[t] \in Nat
    <3>1. 1 \in Int /\ u[t] \in Int /\ u[t] \in Nat
      OBVIOUS
    <3>2. IsFiniteSet(1 .. u[t]) /\ Cardinality(1 .. u[t]) = IF 1 > u[t] THEN 0 ELSE u[t] - 1 + 1
      BY <3>1, FS_Interval
    <3>. QED BY <3>1, <3>2
  <2>2. IsFiniteSet({<<f, t>>}) /\ Cardinality({<<f, t>>}) = 1
    BY FS_Singleton
  <2>. QED BY <2>1, <2>2, FS_Product
<1>. DEFINE a == {<<f, "H2C">>} \X (1 .. u["H2C"])
            b == {<<f, "C2H">>} \X (1 .. u["C2H"])
            c == {<<f, "CMPT">>} \X (1 .. u["CMPT"])
<1>2. /\ IsFiniteSet(a) /\ Cardinality(a) = u["H2C"] /\ u["H2C"] \in Nat
      /\ IsFiniteSet(b) /\ Cardinality(b) = u["C2H"] /\ u["C2H"] \in Nat
      /\ IsFiniteSet(c) /\ Cardinality(c) = u["CMPT"] /\ u["CMPT"] \in Nat
  BY <1>1 DEF Type
<1>3. a \cap b = {} /\ (a \cup b) \cap c = {}
  OBVIOUS
<1>. HIDE DEF a, b, c
<1>4. Cardinality(a \cap b) = 0 /\ Cardinality((a \cup b) \cap c) = 0
  BY <1>3, FS_EmptySet, Zenon
<1>5. IsFiniteSet(a \cup b) /\ Cardinality(a \cup b) = u["H2C"] + u["C2H"]
  <2>1. /\ IsFiniteSet(a \cup b)
        /\ Cardinality(a \cup b) = Cardinality(a) + Cardinality(b) - Cardinality(a \cap b)
    BY <1>2, FS_Union
  <2>. QED BY <1>2, <1>4, <2>1
<1>6. /\ IsFiniteSet((a \cup b) \cup c)
      /\ Cardinality((a \cup b) \cup c) = u["H2C"] + u["C2H"] + u["CMPT"]
  <2>1. /\ IsFiniteSet((a \cup b) \cup c)
        /\ Cardinality((a \cup b) \cup c)
             = Cardinality(a \cup b) + Cardinality(c) - Cardinality((a \cup b) \cap c)
    BY <1>2, <1>5, FS_Union
  <2>. QED BY <1>2, <1>4, <1>5, <2>1
<1>. QED BY <1>6 DEF a, b, c, Total

LEMMA PileChanges ==
  ASSUME NEW use \in [Func -> [Type -> Nat]], NEW new \in [Func -> [Type -> Nat]],
         NEW f \in Func, \A g \in Func : g # f => new[g] = use[g], IsFiniteSet(Pile(use))
  PROVE  /\ IsFiniteSet(Pile(new))
         /\ Cardinality(Pile(new)) = Cardinality(Pile(use)) + Total(new[f]) - Total(use[f])
<1>. DEFINE own(u) == ({<<f, "H2C">>} \X (1 .. u["H2C"])) \cup
                      ({<<f, "C2H">>} \X (1 .. u["C2H"])) \cup
                      ({<<f, "CMPT">>} \X (1 .. u["CMPT"]))
            rest == {z \in Pile(use) : z[1][1] # f}
<1>1. \A v \in {use, new} : \A z : z \in own(v[f])
            <=> \E t \in Type : z \in {<<f, t>>} \X (1 .. v[f][t])
  BY DEF Type
<1>2. \A v \in {use, new} : \A z \in own(v[f]) : z[1][1] = f
  OBVIOUS
<1>3. \A z : z \in rest <=> \E g \in Func, t \in Type :
                              g # f /\ z \in {<<g, t>>} \X (1 .. use[g][t])
  <2>1. \A g, t, z : z \in {<<g, t>>} \X (1 .. use[g][t]) => z[1][1] = g
    OBVIOUS
  <2>. QED BY <2>1, PileOf
<1>4. \A v \in {use, new} : Pile(v) = rest \cup own(v[f])
  <2>. TAKE v \in {use, new}
  <2>1. \A g \in Func : g # f => v[g] = use[g]
    OBVIOUS
  <2>2. \A z : z \in Pile(v) <=> z \in rest \/ z \in own(v[f])
    <3>. TAKE z
    <3>. HIDE DEF own, rest
    <3>1. z \in Pile(v) <=> \E g \in Func, t \in Type : z \in {<<g, t>>} \X (1 .. v[g][t])
      BY PileOf
    <3>2. CASE z \in Pile(v)
      <4>1. PICK g \in Func, t \in Type : z \in {<<g, t>>} \X (1 .. v[g][t])
        BY <3>1, <3>2
      <4>. QED BY <1>1, <1>3, <2>1, <3>2, <4>1
    <3>3. CASE z \in rest
      <4>1. PICK g \in Func, t \in Type : g # f /\ z \in {<<g, t>>} \X (1 .. use[g][t])
        BY <1>3, <3>3
      <4>. QED BY <2>1, <3>1, <3>3, <4>1
    <3>4. CASE z \in own(v[f])
      <4>1. PICK t \in Type : z \in {<<f, t>>} \X (1 .. v[f][t])
        BY <1>1, <3>4
      <4>. QED BY <3>1, <3>4, <4>1
    <3>. QED BY <3>2, <3>3, <3>4
  <2>. QED BY <2>2
<1>5. \A v \in {use, new} : rest \cap own(v[f]) = {}
  BY <1>2
<1>6. \A v \in {use, new} : IsFiniteSet(own(v[f])) /\ Cardinality(own(v[f])) = Total(v[f])
                            /\ Total(v[f]) \in Nat
  <2>. TAKE v \in {use, new}
  <2>1. v[f] \in [Type -> Nat]
    OBVIOUS
  <2>2. IsFiniteSet(own(v[f])) /\ Cardinality(own(v[f])) = Total(v[f])
    BY <2>1, PartOf
  <2>. QED BY <2>2, FS_CardinalityType
<1>7. IsFiniteSet(rest) /\ Cardinality(rest) \in Nat
  BY FS_Subset, FS_CardinalityType
<1>. HIDE DEF own, rest
<1>8. Cardinality({}) = 0
  BY FS_EmptySet
<1>9. \A v \in {use, new} : /\ IsFiniteSet(Pile(v))
                            /\ Cardinality(Pile(v)) = Cardinality(rest) + Total(v[f])
  <2>. TAKE v \in {use, new}
  <2>1. /\ IsFiniteSet(rest \cup own(v[f]))
        /\ Cardinality(rest \cup own(v[f]))
             = Cardinality(rest) + Cardinality(own(v[f])) - Cardinality(rest \cap own(v[f]))
    BY <1>6, <1>7, FS_Union
  <2>2. /\ Pile(v) = rest \cup own(v[f]) /\ rest \cap own(v[f]) = {}
        /\ Cardinality(own(v[f])) = Total(v[f]) /\ Total(v[f]) \in Nat
    BY <1>4, <1>5, <1>6
  <2>3. Cardinality(Pile(v)) = Cardinality(rest) + Total(v[f]) - 0
    BY <1>8, <2>1, <2>2
  <2>. QED BY <1>7, <2>1, <2>2, <2>3
<1>. QED BY <1>6, <1>7, <1>9

\* The master's counter is the size of the pile.
CountInv == IsFiniteSet(Pile(Uses)) /\ masterActive = Cardinality(Pile(Uses))

LEMMA AddedIs == Added = Pile(Uses)
<1>1. \A x \in Func \X Type : Uses[x[1]][x[2]] = TableUse(x[1], x[2])
  BY DEF Uses
<1>2. \A z : z \in Added <=> z \in Pile(Uses)
  BY <1>1 DEF Added, Pile
<1>. QED BY <1>2

LEMMA KindsOf ==
  ASSUME NEW q \in [Kind -> Nat]
  PROVE  /\ q["H2C"] \in Nat
         /\ q["C2H"] + q["ST C2H"] \in Nat
         /\ q["ST C2H"] + (IF MmCmptEn THEN q["CMPT"] ELSE 0) \in Nat
<1>1. q["H2C"] \in Nat /\ q["C2H"] \in Nat /\ q["ST C2H"] \in Nat
  BY DEF Kind
<1>2. (IF MmCmptEn THEN q["CMPT"] ELSE 0) \in Nat
  BY DEF Kind
<1>3. PICK c \in Nat, s \in Nat, x \in Nat :
        c = q["C2H"] /\ s = q["ST C2H"] /\ x = IF MmCmptEn THEN q["CMPT"] ELSE 0
  BY <1>1, <1>2
<1>4. c + s \in Nat /\ s + x \in Nat
  OBVIOUS
<1>. QED BY <1>1, <1>3, <1>4, Zenon

LEMMA UsesType ==
  ASSUME queues \in [Func -> [Kind -> Nat]]
  PROVE  Uses \in [Func -> [Type -> Nat]]
<1>1. \A f \in Func : /\ TableUse(f, "H2C") \in Nat /\ TableUse(f, "C2H") \in Nat
                      /\ TableUse(f, "CMPT") \in Nat
  BY KindsOf DEF TableUse
<1>. QED BY <1>1 DEF Uses, Type

LEMMA UsesTypeNext ==
  ASSUME queues' \in [Func -> [Kind -> Nat]]
  PROVE  Uses' \in [Func -> [Type -> Nat]]
<1>1. \A f \in Func : /\ TableUse(f, "H2C")' \in Nat /\ TableUse(f, "C2H")' \in Nat
                      /\ TableUse(f, "CMPT")' \in Nat
  BY KindsOf DEF TableUse
<1>. QED BY <1>1 DEF Uses, Type

\* A step that leaves the queues alone.
LEMMA UsesSame ==
  ASSUME UNCHANGED queues
  PROVE  Uses' = Uses
BY DEF Uses, TableUse

\* A step that changes the queues of f.
LEMMA UsesChange ==
  ASSUME MgrType, MgrType', CountInv, NEW f \in Func,
         \A g \in Func : g # f => queues'[g] = queues[g]
  PROVE  /\ IsFiniteSet(Pile(Uses'))
         /\ Cardinality(Pile(Uses')) = masterActive + Total(Uses'[f]) - Total(Uses[f])
<1>1. Uses \in [Func -> [Type -> Nat]] /\ Uses' \in [Func -> [Type -> Nat]]
  BY UsesType, UsesTypeNext DEF MgrType
<1>2. \A g \in Func : g # f => Uses'[g] = Uses[g]
  <2>1. \A g \in Func, t \in Type : g # f => TableUse(g, t)' = TableUse(g, t)
    BY DEF TableUse
  <2>. QED BY <2>1 DEF Uses
<1>. QED BY <1>1, <1>2, PileChanges DEF CountInv

\* No queues are left when no function has an entry.
LEMMA NoneLeft ==
  ASSUME RangesInv, devs = {}
  PROVE  IsFiniteSet(Pile(Uses)) /\ Cardinality(Pile(Uses)) = 0
<1>1. \A f \in Func : queues[f] = NoQueues
  BY DEF RangesInv, OneStep
<1>2. \A f \in Func, t \in Type : Uses[f][t] = 0
  BY <1>1, NoneAdded DEF Uses
<1>3. \A z : z \notin Pile(Uses)
  BY <1>2, PileOf
<1>. QED BY <1>3, FS_EmptySet

\* How many counters a queue is counted by.
LEMMA CountersOf ==
  ASSUME NEW k \in Kind
  PROVE  Cardinality(Counts(k)) = IF k = "ST C2H" THEN 2 ELSE 1
<1>1. /\ IsFiniteSet({"C2H"}) /\ Cardinality({"C2H"}) = 1 /\ "CMPT" \notin {"C2H"}
      /\ Cardinality({k}) = 1
  BY FS_Singleton
<1>2. Cardinality({"C2H"} \cup {"CMPT"}) = 2
  BY <1>1, FS_AddElement
<1>3. {"C2H"} \cup {"CMPT"} = {"C2H", "CMPT"}
  OBVIOUS
<1>. QED BY <1>1, <1>2, <1>3, Zenon DEF Counts

\* d queues of kind k more: the step of the master's counter.
LEMMA CountMoves ==
  ASSUME MgrType, MgrType', CountInv, NEW f \in Func, NEW k \in Kind, NEW d \in Int,
         NEW m \in Nat, m = queues[f][k] + d,
         queues' = [queues EXCEPT ![f][k] = m],
         masterActive' = masterActive + d * Cardinality(Counts(k))
  PROVE  CountInv'
<1>1. PICK q \in [Kind -> Nat] : q = queues[f]
  BY DEF MgrType
<1>2. /\ \A g \in Func : g # f => queues'[g] = queues[g]
      /\ queues'[f] = [q EXCEPT ![k] = m] /\ m = q[k] + d
  BY <1>1 DEF MgrType
<1>3. \A t \in Type : TableUse(f, t)' = TableUse(f, t) + (IF t \in Counts(k) THEN d ELSE 0)
  BY <1>1, <1>2, AddedChanges
<1>4. /\ IsFiniteSet(Pile(Uses'))
      /\ Cardinality(Pile(Uses')) = masterActive + Total(Uses'[f]) - Total(Uses[f])
  BY <1>2, UsesChange
<1>5. \A t \in Type : /\ Uses[f][t] = TableUse(f, t) /\ Uses'[f][t] = TableUse(f, t)'
                      /\ Uses[f][t] \in Nat
  <2>1. Uses \in [Func -> [Type -> Nat]]
    BY UsesType DEF MgrType
  <2>. QED BY <2>1 DEF Uses
<1>6. \A t \in Type : Uses'[f][t] = Uses[f][t] + (IF t \in Counts(k) THEN d ELSE 0)
  BY <1>3, <1>5
<1>7. PICK h \in Nat, c \in Nat, n \in Nat :
        h = Uses[f]["H2C"] /\ c = Uses[f]["C2H"] /\ n = Uses[f]["CMPT"]
  BY <1>5 DEF Type
<1>8. /\ Uses'[f]["H2C"] = h + (IF "H2C" \in Counts(k) THEN d ELSE 0)
      /\ Uses'[f]["C2H"] = c + (IF "C2H" \in Counts(k) THEN d ELSE 0)
      /\ Uses'[f]["CMPT"] = n + (IF "CMPT" \in Counts(k) THEN d ELSE 0)
  BY <1>6, <1>7 DEF Type
<1>9. Total(Uses'[f]) - Total(Uses[f]) = d * (IF k = "ST C2H" THEN 2 ELSE 1)
  <2>1. CASE k = "ST C2H"
    <3>3. Counts(k) = {"C2H", "CMPT"}
      BY <2>1 DEF Counts
    <3>1. /\ Uses'[f]["H2C"] = h /\ Uses'[f]["C2H"] = c + d
          /\ Uses'[f]["CMPT"] = n + d
      BY <1>8, <3>3
    <3>2. (h + (c + d) + (n + d)) - (h + c + n) = d * 2
      OBVIOUS
    <3>. QED BY <1>7, <2>1, <3>1, <3>2, Zenon DEF Total
  <2>2. CASE k = "H2C"
    <3>1. /\ Uses'[f]["H2C"] = h + d /\ Uses'[f]["C2H"] = c
          /\ Uses'[f]["CMPT"] = n
      BY <1>8, <2>2 DEF Counts
    <3>2. ((h + d) + c + n) - (h + c + n) = d * 1
      OBVIOUS
    <3>. QED BY <1>7, <2>2, <3>1, <3>2, Zenon DEF Total
  <2>3. CASE k = "C2H"
    <3>1. /\ Uses'[f]["H2C"] = h /\ Uses'[f]["C2H"] = c + d
          /\ Uses'[f]["CMPT"] = n
      BY <1>8, <2>3 DEF Counts
    <3>2. (h + (c + d) + n) - (h + c + n) = d * 1
      OBVIOUS
    <3>. QED BY <1>7, <2>3, <3>1, <3>2, Zenon DEF Total
  <2>4. CASE k = "CMPT"
    <3>1. /\ Uses'[f]["H2C"] = h /\ Uses'[f]["C2H"] = c
          /\ Uses'[f]["CMPT"] = n + d
      BY <1>8, <2>4 DEF Counts
    <3>2. (h + c + (n + d)) - (h + c + n) = d * 1
      OBVIOUS
    <3>. QED BY <1>7, <2>4, <3>1, <3>2, Zenon DEF Total
  <2>. QED BY <2>1, <2>2, <2>3, <2>4 DEF Kind
<1>10. /\ Total(Uses[f]) = h + c + n
       /\ Total(Uses'[f]) \in Int
  BY <1>7, <1>8 DEF Total
<1>11. masterActive \in Int
  BY FS_CardinalityType DEF CountInv
<1>12. masterActive + Total(Uses'[f]) - Total(Uses[f]) = masterActive'
  <2>1. masterActive' = masterActive + (Total(Uses'[f]) - Total(Uses[f]))
    BY <1>9, CountersOf
  <2>. QED BY <1>10, <1>11, <2>1
<1>. QED BY <1>4, <1>12 DEF CountInv, Pile

\* The queues that go with a device are all its queues.
LEMMA CountDestroy ==
  ASSUME ~MmCmptEn, MgrType, MgrType', CountInv, NEW f \in Func, EntryDestroy(f)
  PROVE  CountInv'
<1>1. PICK q \in [Kind -> Nat] : q = queues[f]
  BY DEF MgrType
<1>2. /\ \A g \in Func : g # f => queues'[g] = queues[g]
      /\ queues'[f] = NoQueues
      /\ masterActive' = masterActive - (q["H2C"] + q["C2H"] + 2 * q["ST C2H"])
  BY <1>1 DEF MgrType, EntryDestroy, Cleaned
<1>3. /\ IsFiniteSet(Pile(Uses'))
      /\ Cardinality(Pile(Uses')) = masterActive + Total(Uses'[f]) - Total(Uses[f])
  BY <1>2, UsesChange
<1>4. q["H2C"] \in Nat /\ q["C2H"] \in Nat /\ q["ST C2H"] \in Nat
  BY DEF Kind
<1>5. Total(Uses[f]) = q["H2C"] + q["C2H"] + 2 * q["ST C2H"]
  <2>1. PICK h \in Nat, c \in Nat, n \in Nat : h = q["H2C"] /\ c = q["C2H"] /\ n = q["ST C2H"]
    BY <1>4
  <2>2. /\ TableUse(f, "H2C") = h /\ TableUse(f, "C2H") = c + n
        /\ TableUse(f, "CMPT") = n + 0
    BY <1>1, <2>1 DEF TableUse
  <2>3. /\ Uses[f]["H2C"] = h /\ Uses[f]["C2H"] = c + n /\ Uses[f]["CMPT"] = n + 0
    BY <2>2 DEF Uses, Type
  <2>4. h + (c + n) + (n + 0) = h + c + 2 * n
    OBVIOUS
  <2>. QED BY <2>1, <2>3, <2>4, Zenon DEF Total
<1>6. Total(Uses'[f]) = 0
  <2>1. NoQueues["H2C"] = 0 /\ NoQueues["C2H"] = 0 /\ NoQueues["ST C2H"] = 0
    BY DEF NoQueues, Kind
  <2>2. Uses'[f]["H2C"] = 0 /\ Uses'[f]["C2H"] = 0 + 0 /\ Uses'[f]["CMPT"] = 0 + 0
    BY <1>2, <2>1 DEF Uses, TableUse, Type
  <2>. QED BY <2>2 DEF Total
<1>7. masterActive \in Int
  BY FS_CardinalityType DEF CountInv
<1>8. PICK n \in Int : n = q["H2C"] + q["C2H"] + 2 * q["ST C2H"]
  <2>1. PICK h \in Nat, c \in Nat, s \in Nat : h = q["H2C"] /\ c = q["C2H"] /\ s = q["ST C2H"]
    BY <1>4
  <2>2. h + c + 2 * s \in Int
    OBVIOUS
  <2>. QED BY <2>1, <2>2, Zenon
<1>9. masterActive + 0 - n = masterActive - n
  BY <1>7
<1>10. Cardinality(Pile(Uses')) = masterActive'
  BY <1>2, <1>3, <1>5, <1>6, <1>8, <1>9, Zenon
<1>. QED BY <1>3, <1>10 DEF CountInv, Pile

LEMMA CountStep ==
  ASSUME ~MmCmptEn, RangesInv, RangesInv', CountInv, [Next]_vars
  PROVE  CountInv'
<1>1. MgrType /\ MgrType'
  BY DEF RangesInv
<1>2. UNCHANGED <<queues, masterActive>> => CountInv'
  BY UsesSame DEF CountInv, Pile
<1>3. ASSUME NEW f \in Func, MasterCreate(f) PROVE CountInv'
  <2>1. CASE exists
    BY <1>2, <1>3, <2>1 DEF MasterCreate
  <2>2. CASE ~exists
    <3>1. masterActive' = 0 /\ UNCHANGED queues /\ devs = {}
      BY <1>3, <2>2 DEF MasterCreate, RangesInv
    <3>. QED BY <3>1, NoneLeft, UsesSame DEF CountInv, Pile
  <2>. QED BY <2>1, <2>2
<1>4. ASSUME NEW f \in Func, MasterDestroy(f) PROVE CountInv'
  <2>1. CASE devs # {}
    BY <1>2, <1>4, <2>1 DEF MasterDestroy
  <2>2. CASE devs = {}
    <3>1. masterActive' = 0 /\ UNCHANGED queues
      BY <1>4, <2>2 DEF MasterDestroy
    <3>. QED BY <2>2, <3>1, NoneLeft, UsesSame DEF CountInv, Pile
  <2>. QED BY <2>1, <2>2
<1>5. ASSUME NEW f \in Func, NEW k \in Kind, QueueAdd(f, k) PROVE CountInv'
  <2>1. PICK q \in [Kind -> Nat] : q = queues[f]
    BY <1>1 DEF MgrType
  <2>2. PICK m \in Nat, d \in Int : m = q[k] + 1 /\ d = 1
    OBVIOUS
  <2>3. m = queues[f][k] + d /\ queues' = [queues EXCEPT ![f][k] = m]
    BY <1>1, <1>5, <2>1, <2>2 DEF QueueAdd, MgrType
  <2>4. masterActive' = masterActive + d * Cardinality(Counts(k))
    <3>1. PICK n \in Int : n = Cardinality(Counts(k))
      <4>1. \/ Cardinality(Counts(k)) = 1
            \/ Cardinality(Counts(k)) = 2
        BY CountersOf, Zenon
      <4>. QED BY <4>1
    <3>2. masterActive' = masterActive + n
      BY <1>5, <3>1 DEF QueueAdd
    <3>3. d * n = n
      BY <2>2
    <3>. QED BY <3>1, <3>2, <3>3, Zenon
  <2>. QED BY <1>1, <2>3, <2>4, CountMoves
<1>6. ASSUME NEW f \in Func, NEW k \in Kind, QueueRemove(f, k) PROVE CountInv'
  <2>1. PICK q \in [Kind -> Nat] : q = queues[f]
    BY <1>1 DEF MgrType
  <2>2. PICK m \in Nat, d \in Int : m = q[k] - 1 /\ d = 0 - 1
    BY <1>6, <2>1 DEF QueueRemove
  <2>3. m = queues[f][k] + d /\ queues' = [queues EXCEPT ![f][k] = m]
    BY <1>1, <1>6, <2>1, <2>2 DEF QueueRemove, MgrType
  <2>4. masterActive' = masterActive + d * Cardinality(Counts(k))
    <3>1. masterActive \in Int
      BY FS_CardinalityType DEF CountInv
    <3>2. PICK n \in Int : n = Cardinality(Counts(k))
      <4>1. \/ Cardinality(Counts(k)) = 1
            \/ Cardinality(Counts(k)) = 2
        BY CountersOf, Zenon
      <4>. QED BY <4>1
    <3>3. masterActive' = masterActive - n
      BY <1>6, <3>2 DEF QueueRemove
    <3>4. masterActive + d * n = masterActive - n
      BY <2>2, <3>1
    <3>. QED BY <3>2, <3>3, <3>4, Zenon
  <2>. QED BY <1>1, <2>3, <2>4, CountMoves
<1>7. ASSUME NEW f \in Func, Close(f) \/ Bye(f) PROVE CountInv'
  BY <1>1, <1>7, CountDestroy DEF Close, Bye
<1>8. ASSUME NEW f \in Func, EntryCreate(f) \/ ProbeUpdate(f) \/ Hello(f)
                              \/ \E n \in 0 .. TotalQ + 1 : SetQmax(f, n)
      PROVE  CountInv'
  BY <1>2, <1>8 DEF EntryCreate, ProbeUpdate, Hello, SetQmax
<1>9. CASE UNCHANGED vars
  BY <1>2, <1>9 DEF vars, mgrVars
<1>. QED BY <1>3, <1>4, <1>5, <1>6, <1>7, <1>8, <1>9 DEF Next, Probe, Depart

(***************************************************************************)
(* Through every probe and removal, and every queue added and removed, the *)
(* entries' counts and the master's are the queues there are, if no queue  *)
(* is added that qdma_device_cleanup forgets: an MM completion queue.      *)
(***************************************************************************)
THEOREM CountsExact == ASSUME ~MmCmptEn PROVE Spec => []ActiveCounts
<1>1. Init => RangesInv /\ CountInv
  <2>. SUFFICES ASSUME Init PROVE RangesInv /\ CountInv
    OBVIOUS
  <2>2. RangesInv
    BY InitGood
  <2>3. devs = {} /\ masterActive = 0
    BY DEF Init
  <2>. QED BY <2>2, <2>3, NoneLeft DEF CountInv
<1>2. RangesInv /\ CountInv /\ [Next]_vars => RangesInv' /\ CountInv'
  <2>1. RangesInv /\ [Next]_vars => RangesInv'
    BY NextGood, IdleStep DEF Good
  <2>. QED BY <2>1, CountStep
<1>3. RangesInv /\ CountInv => ActiveCounts
  BY AddedIs DEF RangesInv, OneStep, CountInv, ActiveCounts, MgrType
<1>. QED BY <1>1, <1>2, <1>3, PTL DEF Spec
=============================================================================
