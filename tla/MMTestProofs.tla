---------------------------- MODULE MMTestProofs ----------------------------
(***************************************************************************)
(* The memory manager and the block list agree, for any sizes of requests, *)
(* any data segment, the three policies and any number of blocks.          *)
(*                                                                         *)
(* Tiles says what the tags in memory mean: a set of blocks that cover the *)
(* heap.  Each function of memmgr.c is seen as one that writes the tags of *)
(* a stretch of it anew (Retile), and by what it does to the blocks in use *)
(* (Gained, Lost, Resized).  Chain says the same of the list's pointers,   *)
(* and Held relates the two.                                               *)
(***************************************************************************)
EXTENDS MMTest, WellFoundedInduction, FiniteSetTheorems, TLAPS

Less == OpToRel(<, Nat)

\* The order by which LeastNumber picks.
LEMMA Descends ==
  ASSUME NEW x \in Nat, NEW y \in Nat, x < y
  PROVE  <<x, y>> \in Less
  BY Zenon DEF Less, OpToRel

\* A set of numbers that is not empty has a least one; what an induction over
\* numbers would show is shown by the least counterexample.
LEMMA LeastNumber ==
  ASSUME NEW S \in SUBSET Nat, S # {}
  PROVE  \E n \in S : \A m \in S : n <= m
<1>1. IsWellFoundedOn(Less, Nat)
  BY NatLessThanWellFounded, Zenon DEF Less
<1>2. PICK n \in S : \A m \in S : <<m, n>> \notin Less
  BY <1>1, WFMin, Zenon
<1>3. \A m \in S : ~(m < n)
  BY <1>2, Descends
<1> QED
  BY <1>3

\* And one with a bound a greatest.
LEMMA GreatestNumber ==
  ASSUME NEW N \in Nat, NEW S \in SUBSET (0 .. N), S # {}
  PROVE  \E n \in S : \A m \in S : m <= n
<1> DEFINE T == {k \in 0 .. N : N - k \in S}
<1>1. T \in SUBSET Nat
  OBVIOUS
<1>2. T # {}
  <2>1. PICK n \in S : TRUE
    OBVIOUS
  <2>2. N - n \in T
    <3>1. N - n \in 0 .. N /\ N - (N - n) = n
      BY <2>1
    <3> QED
      BY <2>1, <3>1
  <2> QED
    BY <2>2
<1>3. PICK k \in T : \A j \in T : k <= j
  BY <1>1, <1>2, LeastNumber
<1>4. \A m \in S : N - m \in T
  <2>1. \A m \in S : N - m \in 0 .. N /\ N - (N - m) = m
    OBVIOUS
  <2> QED
    BY <2>1
<1>5. ASSUME NEW m \in S
      PROVE  m <= N - k
  <2>1. k <= N - m /\ N - m \in 0 .. N /\ m \in 0 .. N /\ k \in 0 .. N
    BY <1>3, <1>4
  <2> QED
    BY <2>1
<1>6. N - k \in S
  BY <1>3
<1> QED
  BY <1>5, <1>6

-----------------------------------------------------------------------------
(* The heap's functions, in terms of the tags they write.                  *)

Heaps == [hdr : [Addresses -> Tag], ftr : [Addresses -> Tag], end : Int, nf : Int]

\* What one visit of the walk adds.
Visit(h, f, b) ==
  LET next == b + h.hdr[b].size
  IN  IF b = h.end THEN {}
      ELSE IF next = b \/ next >= h.end THEN {b} ELSE {b} \cup f[next]

\* Walk, a recursive function, is what its equation says: one exists, built from
\* heap_end down.
LEMMA WalkIs ==
  ASSUME NEW h \in Heaps, h.end \in 0 .. Limit
  PROVE  Walk(h) = [b \in 0 .. h.end |-> Visit(h, Walk(h), b)]
<1> DEFINE P(k) == \E f : f = [b \in h.end - k .. h.end |-> Visit(h, f, b)]
           Bad == {k \in 0 .. h.end : ~P(k)}
<1>0. h.end \in Nat /\ Limit \in Nat
  BY HeapAssumption
<1>1. \A b \in 0 .. h.end : h.hdr[b].size \in Nat
  BY <1>0 DEF Heaps, Addresses, Tag
<1>2. Bad = {}
  <2> SUFFICES ASSUME Bad # {} PROVE FALSE
    OBVIOUS
  <2>1. PICK k \in Bad : \A j \in Bad : k <= j
    <3> HIDE DEF P
    <3>1. Bad \subseteq Nat
      BY <1>0
    <3> HIDE DEF Bad
    <3> QED
      BY <3>1, LeastNumber
  <2>2. CASE k = 0
    <3> DEFINE f == [b \in h.end - 0 .. h.end |-> {}]
    <3>1. f = [b \in h.end - 0 .. h.end |-> Visit(h, f, b)]
      <4>1. \A b \in h.end - 0 .. h.end : b = h.end
        BY <1>0
      <4> QED
        BY <4>1 DEF Visit
    <3> QED
      BY <2>1, <2>2, <3>1
  <2>3. CASE k # 0
    <3>0. k \in 0 .. h.end
      BY <2>1
    <3>1. k \in 0 .. h.end /\ k - 1 \in 0 .. h.end /\ k - 1 \notin Bad
      BY <2>1, <2>3, <3>0
    <3>2. PICK f : f = [b \in h.end - (k - 1) .. h.end |-> Visit(h, f, b)]
      BY <3>1
    <3> DEFINE g == [b \in h.end - k .. h.end |-> IF b = h.end - k THEN Visit(h, f, b) ELSE f[b]]
    <3>3. ASSUME NEW b \in h.end - k .. h.end
          PROVE  Visit(h, f, b) = Visit(h, g, b)
      <4> DEFINE next == b + h.hdr[b].size
      <4>1. b \in 0 .. h.end
        BY <1>0, <3>1
      <4> HIDE DEF g
      <4>2. CASE b = h.end \/ next = b \/ next >= h.end
        BY <4>2 DEF Visit
      <4>3. CASE ~(b = h.end \/ next = b \/ next >= h.end)
        <5>1. next \in h.end - k .. h.end /\ next # h.end - k
          <6> DEFINE s == h.hdr[b].size
          <6>1. s \in Nat /\ b \in Nat /\ b >= h.end - k /\ k \in Nat
            BY <1>0, <1>1, <3>0, <4>1
          <6>2. b + s # b /\ ~(b + s >= h.end)
            BY <4>3
          <6> HIDE DEF s
          <6>3. b + s \in h.end - k .. h.end /\ b + s # h.end - k
            BY <1>0, <6>1, <6>2
          <6> QED
            BY <6>3 DEF s
        <5>2. g[next] = f[next]
          BY <5>1 DEF g
        <5> QED
          BY <4>3, <5>2 DEF Visit
      <4> QED
        BY <4>2, <4>3
    <3>4. ASSUME NEW b \in h.end - k .. h.end
          PROVE  g[b] = Visit(h, g, b)
      <4>1. CASE b = h.end - k
        BY <3>3, <4>1
      <4>2. CASE b # h.end - k
        <5>1. b \in h.end - (k - 1) .. h.end
          BY <1>0, <3>1, <4>2
        <5> HIDE DEF g
        <5>2. f[b] = Visit(h, f, b)
          BY <3>2, <5>1
        <5> USE DEF g
        <5>3. g[b] = f[b]
          BY <4>2
        <5> QED
          BY <3>3, <5>2, <5>3
      <4> QED
        BY <4>1, <4>2
    <3>5. g = [b \in h.end - k .. h.end |-> g[b]]
      OBVIOUS
    <3> HIDE DEF g
    <3>6. g = [b \in h.end - k .. h.end |-> Visit(h, g, b)]
      BY <3>4, <3>5
    <3>7. P(k)
      BY <3>6
    <3> QED
      BY <2>1, <3>7
  <2> QED
    BY <2>2, <2>3
<1>3. P(h.end)
  BY <1>0, <1>2
<1>4. h.end - h.end = 0
  BY <1>0
<1>5. \E f : f = [b \in 0 .. h.end |-> Visit(h, f, b)]
  BY <1>3, <1>4
<1>6. Walk(h) = CHOOSE f : f = [b \in 0 .. h.end |-> Visit(h, f, b)]
  BY DEF Walk, Visit
<1> QED
  BY <1>5, <1>6

\* The address behind the block at b.
After(h, b) == b + h.hdr[b].size

(***************************************************************************)
(* B is the set of the heap's blocks: they follow each other from          *)
(* heap_start to heap_end, each with two tags that agree.                  *)
(***************************************************************************)
Tiles(h, B) ==
  /\ h \in Heaps /\ h.end \in 0 .. Limit - 2
  /\ B \subseteq 0 .. h.end - 1
  /\ h.end > 0 => 0 \in B
  /\ h.ftr[0] = PACK(0, ALLOC) /\ h.hdr[h.end] = PACK(0, ALLOC)
  /\ \A b \in B :
       /\ h.hdr[b].size > 0
       /\ After(h, b) \in B \cup {h.end}
       /\ h.ftr[After(h, b)] = h.hdr[b]
       /\ \A c \in B : c <= b \/ After(h, b) <= c

\* Of two neighbours one is in use, as is the sentinel at the end.
NoPair(h, B) ==
  \A b \in B : h.hdr[b].status = FREE => h.hdr[After(h, b)].status = ALLOC

Used(h, B) == {b \in B : h.hdr[b].status = ALLOC}

\* Where the blocks are and what their tags hold.
LEMMA TilesFacts ==
  ASSUME NEW h, NEW B, Tiles(h, B)
  PROVE  /\ h \in Heaps /\ h.end \in Nat /\ h.end \in Addresses /\ h.nf \in Int /\ 0 \in Addresses
         /\ h.end <= Limit - 2 /\ Limit \in Nat
         /\ h.hdr \in [Addresses -> Tag] /\ h.ftr \in [Addresses -> Tag]
         /\ \A b \in B : /\ b \in Nat /\ b \in Addresses /\ b < h.end
                         /\ h.hdr[b] \in Tag
                         /\ h.hdr[b].size \in Nat /\ h.hdr[b].status \in {FREE, ALLOC}
                         /\ After(h, b) \in Nat /\ After(h, b) \in Addresses
                         /\ b < After(h, b) /\ After(h, b) <= h.end
                         /\ After(h, b) - b = h.hdr[b].size
<1>1. Limit \in Nat /\ h.end \in Nat /\ h.end <= Limit - 2 /\ h \in Heaps
  BY HeapAssumption DEF Tiles
<1>2. h.end \in Addresses /\ 0 \in Addresses /\ h.nf \in Int
  BY <1>1 DEF Addresses, Heaps
<1>3. h.hdr \in [Addresses -> Tag] /\ h.ftr \in [Addresses -> Tag]
  BY <1>1 DEF Heaps
<1>4. ASSUME NEW b \in B
      PROVE  /\ b \in Nat /\ b \in Addresses /\ b < h.end
             /\ h.hdr[b] \in Tag
             /\ h.hdr[b].size \in Nat /\ h.hdr[b].status \in {FREE, ALLOC}
             /\ After(h, b) \in Nat /\ After(h, b) \in Addresses
             /\ b < After(h, b) /\ After(h, b) <= h.end
             /\ After(h, b) - b = h.hdr[b].size
  <2>1. B \subseteq 0 .. h.end - 1 /\ h.hdr[b].size > 0 /\ After(h, b) \in B \cup {h.end}
    BY DEF Tiles
  <2>2. b \in Nat /\ b < h.end /\ b \in Addresses
    BY <1>1, <2>1 DEF Addresses
  <2>3. h.hdr[b] \in Tag /\ h.hdr[b].size \in Nat /\ h.hdr[b].status \in {FREE, ALLOC}
    BY <1>3, <2>2 DEF Tag
  <2>4. After(h, b) \in 0 .. h.end
    <3>1. CASE After(h, b) = h.end
      BY <1>1, <3>1
    <3>2. CASE After(h, b) \in B
      <4>1. After(h, b) \in 0 .. h.end - 1
        BY <2>1, <3>2
      <4> QED
        BY <1>1, <4>1
    <3> QED
      BY <2>1, <3>1, <3>2
  <2>5. After(h, b) \in Addresses /\ After(h, b) \in Nat /\ After(h, b) <= h.end
    BY <1>1, <2>4 DEF Addresses
  <2>6. b < After(h, b) /\ After(h, b) - b = h.hdr[b].size
    BY <2>1, <2>2, <2>3 DEF After
  <2> QED
    BY <2>2, <2>3, <2>5, <2>6
<1> QED
  BY <1>1, <1>2, <1>3, <1>4

\* Every block but the first, and heap_end, comes behind a block.
LEMMA Before ==
  ASSUME NEW h, NEW B, Tiles(h, B), NEW e \in B \cup {h.end}, e # 0
  PROVE  \E b \in B : /\ After(h, b) = e /\ h.hdr[b] = h.ftr[e]
                      /\ b = e - h.ftr[e].size
<1> DEFINE S == {b \in B : b < e}
<1>1. 0 \in S /\ e \in Nat
  <2>1. e \in Nat /\ 0 < h.end /\ 0 < e
    BY TilesFacts
  <2>2. 0 \in B
    BY <2>1 DEF Tiles
  <2> QED
    BY <2>1, <2>2
<1>2. PICK b \in S : \A c \in S : c <= b
  <2>1. h.end \in Nat /\ S \in SUBSET (0 .. h.end)
    BY TilesFacts
  <2> QED
    BY <1>1, <2>1, GreatestNumber
<1>3. /\ b \in B /\ b < e /\ After(h, b) \in B \cup {h.end} /\ h.ftr[After(h, b)] = h.hdr[b]
      /\ \A c \in B : c <= b \/ After(h, b) <= c
  BY <1>2 DEF Tiles
<1>4. /\ b \in Nat /\ After(h, b) \in Nat /\ b < After(h, b) /\ After(h, b) <= h.end
      /\ After(h, b) - b = h.hdr[b].size /\ h.hdr[b].size \in Nat
  BY <1>3, TilesFacts
<1>5. After(h, b) <= e
  <2>1. CASE e = h.end
    BY <1>4, <2>1
  <2>2. CASE e \in B
    BY <1>1, <1>3, <1>4, <2>2
  <2> QED
    BY <2>1, <2>2
<1>6. ~(After(h, b) < e)
  <2> SUFFICES ASSUME After(h, b) < e PROVE FALSE
    OBVIOUS
  <2>1. e <= h.end
    BY TilesFacts
  <2>2. After(h, b) \in B
    BY <1>1, <1>3, <1>4, <2>1, TilesFacts
  <2>3. After(h, b) \in S
    BY <2>2
  <2> QED
    BY <1>2, <1>4, <2>3
<1>7. After(h, b) = e
  BY <1>1, <1>4, <1>5, <1>6
<1>8. h.hdr[b] = h.ftr[e] /\ b = e - h.hdr[b].size
  BY <1>3, <1>4, <1>7
<1> QED
  BY <1>3, <1>7, <1>8

\* From a block on, a walk by header sizes visits the blocks behind it.
LEMMA WalkBlocks ==
  ASSUME NEW h, NEW B, Tiles(h, B), NEW b \in B \cup {0, h.end}
  PROVE  Walk(h)[b] = {c \in B : b <= c}
<1> DEFINE Places == B \cup {h.end}
           Bad == {x \in Places : Walk(h)[x] # {c \in B : x <= c}}
<1>1. h.end \in Nat /\ h.end \in 0 .. Limit /\ h \in Heaps
  <2>1. h \in Heaps /\ h.end \in Nat /\ h.end <= Limit - 2 /\ Limit \in Nat
    BY TilesFacts
  <2> QED
    BY <2>1
<1>2. \A x \in 0 .. h.end : Walk(h)[x] = Visit(h, Walk(h), x)
  BY <1>1, WalkIs
<1>3. Places \subseteq 0 .. h.end /\ b \in Places
  <2>1. h.end > 0 => 0 \in B
    BY DEF Tiles
  <2>2. b = 0 => b \in Places
    BY <1>1, <2>1
  <2>3. \A x \in B : x \in 0 .. h.end
    BY <1>1, TilesFacts
  <2> QED
    BY <1>1, <2>2, <2>3
<1>4. Bad = {}
  <2> SUFFICES ASSUME Bad # {} PROVE FALSE
    OBVIOUS
  <2>1. PICK x \in Bad : \A y \in Bad : y <= x
    <3>1. Bad \in SUBSET (0 .. h.end)
      BY <1>3
    <3> HIDE DEF Bad
    <3> QED
      BY <1>1, <3>1, GreatestNumber
  <2>2. Walk(h)[x] = Visit(h, Walk(h), x) /\ x \in Places
    BY <1>2, <1>3, <2>1
  <2>3. CASE x = h.end
    <3>1. Visit(h, Walk(h), x) = {}
      BY <2>3 DEF Visit
    <3>2. \A c \in B : ~(x <= c)
      BY <1>1, <2>3, TilesFacts
    <3> QED
      BY <2>1, <2>2, <3>1, <3>2
  <2>4. CASE x # h.end
    <3>1. /\ x \in B /\ After(h, x) \in Places
          /\ \A c \in B : c <= x \/ After(h, x) <= c
      BY <2>2, <2>4 DEF Tiles
    <3>2. x \in Nat /\ After(h, x) \in Nat /\ x < After(h, x) /\ After(h, x) <= h.end
      BY <3>1, TilesFacts
    <3>3. CASE After(h, x) = h.end
      <4>1. Visit(h, Walk(h), x) = {x}
        BY <2>4, <3>2, <3>3, <1>1 DEF Visit, After
      <4>2. \A c \in B : x <= c => c = x
        BY <3>1, <3>2, <3>3, TilesFacts
      <4> QED
        BY <2>1, <2>2, <3>1, <3>2, <4>1, <4>2
    <3>4. CASE After(h, x) # h.end
      <4>1. Visit(h, Walk(h), x) = {x} \cup Walk(h)[After(h, x)]
        BY <2>4, <3>2, <3>4, <1>1 DEF Visit, After
      <4>2. After(h, x) \notin Bad
        BY <2>1, <1>3, <3>2
      <4>3. Walk(h)[After(h, x)] = {c \in B : After(h, x) <= c}
        BY <3>1, <4>2
      <4>4. \A c \in B : x <= c <=> c = x \/ After(h, x) <= c
        BY <3>1, <3>2, TilesFacts
      <4> QED
        BY <2>1, <2>2, <3>1, <4>1, <4>3, <4>4
    <3> QED
      BY <3>3, <3>4
  <2> QED
    BY <2>3, <2>4
<1> QED
  BY <1>3, <1>4

\* There is one set of blocks: those a walk from heap_start visits.
LEMMA WalkAll ==
  ASSUME NEW h, NEW B, Tiles(h, B)
  PROVE  Walk(h)[0] = B
<1>1. \A c \in B : 0 <= c
  BY TilesFacts
<1>2. Walk(h)[0] = {c \in B : 0 <= c}
  BY WalkBlocks
<1> QED
  BY <1>1, <1>2
-----------------------------------------------------------------------------
(* Writing tags.                                                           *)

\* What Mark writes, and that it writes nothing else.
LEMMA MarkIs ==
  ASSUME NEW h \in Heaps, NEW b \in Addresses, NEW size \in Nat, b + size \in Addresses,
         NEW flag \in {FREE, ALLOC}
  PROVE  LET g == Mark(h, b, size, flag)
         IN  /\ g \in Heaps /\ g.end = h.end /\ g.nf = h.nf
             /\ g.hdr[b] = PACK(size, flag) /\ g.ftr[b + size] = PACK(size, flag)
             /\ \A x \in Addresses : x # b => g.hdr[x] = h.hdr[x]
             /\ \A x \in Addresses : x # b + size => g.ftr[x] = h.ftr[x]
<1> DEFINE g == Mark(h, b, size, flag)
           t == PACK(size, flag)
<1>1. t \in Tag
  BY DEF PACK, Tag
<1>2. g = [h EXCEPT !.hdr[b] = t, !.ftr[b + size] = t]
  BY DEF Mark
<1> HIDE DEF t
<1>3. /\ g.hdr = [h.hdr EXCEPT ![b] = t] /\ g.ftr = [h.ftr EXCEPT ![b + size] = t]
      /\ g.end = h.end /\ g.nf = h.nf
      /\ g = [hdr |-> g.hdr, ftr |-> g.ftr, end |-> g.end, nf |-> g.nf]
  BY <1>2 DEF Heaps
<1> HIDE DEF g
<1>4. h.hdr \in [Addresses -> Tag] /\ h.ftr \in [Addresses -> Tag] /\ h.end \in Int /\ h.nf \in Int
  BY DEF Heaps
<1>5. g.hdr \in [Addresses -> Tag] /\ g.ftr \in [Addresses -> Tag]
  BY <1>1, <1>3, <1>4
<1>6. g \in Heaps
  BY <1>3, <1>4, <1>5 DEF Heaps
<1>7. /\ g.hdr[b] = t /\ g.ftr[b + size] = t
      /\ \A x \in Addresses : x # b => g.hdr[x] = h.hdr[x]
      /\ \A x \in Addresses : x # b + size => g.ftr[x] = h.ftr[x]
  BY <1>3, <1>4
<1> QED
  BY <1>3, <1>6, <1>7 DEF g, t

\* g is h with the tags of a block from a to e.
Marked(g, h, a, e, flag) ==
  /\ g \in Heaps /\ g.end = h.end /\ g.nf = h.nf
  /\ g.hdr[a] = PACK(e - a, flag) /\ g.ftr[e] = PACK(e - a, flag)
  /\ g.hdr[a].size = e - a /\ After(g, a) = e
  /\ \A x \in Addresses : x # a => g.hdr[x] = h.hdr[x]
  /\ \A x \in Addresses : x # e => g.ftr[x] = h.ftr[x]

\* The same by the ends of the block.
LEMMA MarkTo ==
  ASSUME NEW h \in Heaps, NEW a \in Addresses, NEW e \in Addresses, a <= e,
         NEW flag \in {FREE, ALLOC},
         NEW g, g = Mark(h, a, e - a, flag)
  PROVE  Marked(g, h, a, e, flag)
<1> DEFINE n == e - a
<1>1. n \in Nat /\ a + n = e
  <2>1. a \in Int /\ e \in Int
    BY HeapAssumption DEF Addresses
  <2> QED
    BY <2>1
<1> HIDE DEF n
<1>2. g = Mark(h, a, n, flag)
  BY DEF n
<1>3. /\ g \in Heaps /\ g.end = h.end /\ g.nf = h.nf
      /\ g.hdr[a] = PACK(n, flag) /\ g.ftr[a + n] = PACK(n, flag)
      /\ \A x \in Addresses : x # a => g.hdr[x] = h.hdr[x]
      /\ \A x \in Addresses : x # a + n => g.ftr[x] = h.ftr[x]
  BY <1>1, <1>2, MarkIs
<1>4. g.hdr[a].size = n /\ After(g, a) = e
  BY <1>1, <1>3 DEF PACK, After
<1> QED
  BY <1>1, <1>3, <1>4 DEF n, Marked

\* What EndSentinel writes.
LEMMA SentinelIs ==
  ASSUME NEW h \in Heaps, NEW e \in Addresses
  PROVE  LET g == EndSentinel(h, e)
         IN  /\ g \in Heaps /\ g.end = e /\ g.nf = h.nf /\ g.ftr = h.ftr
             /\ g.hdr[e] = PACK(0, ALLOC)
             /\ \A x \in Addresses : x # e => g.hdr[x] = h.hdr[x]
<1> DEFINE g == EndSentinel(h, e)
           t == PACK(0, ALLOC)
<1>1. t \in Tag
  BY DEF PACK, Tag
<1>2. g = [h EXCEPT !.end = e, !.hdr[e] = t]
  BY DEF EndSentinel
<1> HIDE DEF t
<1>3. /\ g.hdr = [h.hdr EXCEPT ![e] = t] /\ g.ftr = h.ftr
      /\ g.end = e /\ g.nf = h.nf
      /\ g = [hdr |-> g.hdr, ftr |-> g.ftr, end |-> g.end, nf |-> g.nf]
  BY <1>2 DEF Heaps
<1> HIDE DEF g
<1>4. h.hdr \in [Addresses -> Tag] /\ h.ftr \in [Addresses -> Tag] /\ e \in Int /\ h.nf \in Int
  BY DEF Heaps, Addresses
<1>5. g.hdr \in [Addresses -> Tag] /\ g.ftr \in [Addresses -> Tag]
  BY <1>1, <1>3, <1>4
<1>6. g \in Heaps
  BY <1>3, <1>4, <1>5 DEF Heaps
<1>7. /\ g.hdr[e] = t
      /\ \A x \in Addresses : x # e => g.hdr[x] = h.hdr[x]
  BY <1>3, <1>4
<1> QED
  BY <1>3, <1>6, <1>7 DEF g, t

\* nf_curr is not a tag.
LEMMA NfIs ==
  ASSUME NEW h \in Heaps, NEW n \in Int
  PROVE  LET g == [h EXCEPT !.nf = n]
         IN  /\ g \in Heaps /\ g.end = h.end /\ g.nf = n /\ g.hdr = h.hdr /\ g.ftr = h.ftr
  BY DEF Heaps

\* The client's data are inside its block.
LEMMA FillIs ==
  ASSUME NEW h \in Heaps, NEW b \in Int, NEW n \in Int
  PROVE  LET g == Fill(h, b, n)
         IN  /\ g \in Heaps /\ g.end = h.end /\ g.nf = h.nf
             /\ \A x \in Addresses : x \notin b + 1 .. b + n - 1 =>
                  g.hdr[x] = h.hdr[x] /\ g.ftr[x] = h.ftr[x]
<1> DEFINE I == b + 1 .. b + n - 1
           g == Fill(h, b, n)
<1>1. h.hdr \in [Addresses -> Tag] /\ h.ftr \in [Addresses -> Tag] /\ h.end \in Int /\ h.nf \in Int
  BY DEF Heaps
<1>2. Payload \in Tag
  BY HeapAssumption
<1>3. g = [h EXCEPT !.hdr = [a \in Addresses |-> IF a \in I THEN Payload ELSE h.hdr[a]],
                    !.ftr = [a \in Addresses |-> IF a \in I THEN Payload ELSE h.ftr[a]]]
  BY DEF Fill, Heaps
<1> HIDE DEF I
<1>4. /\ g.hdr = [a \in Addresses |-> IF a \in I THEN Payload ELSE h.hdr[a]]
      /\ g.ftr = [a \in Addresses |-> IF a \in I THEN Payload ELSE h.ftr[a]]
      /\ g.end = h.end /\ g.nf = h.nf
      /\ g = [hdr |-> g.hdr, ftr |-> g.ftr, end |-> g.end, nf |-> g.nf]
  BY <1>3 DEF Heaps
<1> HIDE DEF g
<1>5. g.hdr \in [Addresses -> Tag] /\ g.ftr \in [Addresses -> Tag]
  BY <1>1, <1>2, <1>4
<1>6. g \in Heaps
  BY <1>1, <1>4, <1>5 DEF Heaps
<1>7. \A x \in Addresses : x \notin I => g.hdr[x] = h.hdr[x] /\ g.ftr[x] = h.ftr[x]
  BY <1>4
<1> QED
  BY <1>4, <1>6, <1>7 DEF g, I

(***************************************************************************)
(* The tags of the stretch from a to e are written anew, as those of the   *)
(* blocks S; the tags of all other blocks stay.                            *)
(***************************************************************************)
Others(B, a, e) == {b \in B : b < a \/ e <= b}

Retiled(g, h, B, a, e, S) ==
  /\ g \in Heaps /\ g.end = h.end
  /\ a < e /\ S \subseteq a .. e - 1 /\ a \in S
  /\ \A x \in B \cup {h.end} : x < a \/ e <= x => g.hdr[x] = h.hdr[x]
  /\ \A x \in B \cup {0, h.end} : x <= a \/ e < x => g.ftr[x] = h.ftr[x]
  /\ \A b \in S : /\ g.hdr[b].size > 0 /\ After(g, b) \in S \cup {e}
                  /\ g.ftr[After(g, b)] = g.hdr[b]
                  /\ \A c \in S : c <= b \/ After(g, b) <= c

\* The blocks are then those outside the stretch and S.
LEMMA Retile ==
  ASSUME NEW h, NEW B, Tiles(h, B), NEW a \in B, NEW e \in B \cup {h.end},
         NEW g, NEW S, Retiled(g, h, B, a, e, S)
  PROVE  Tiles(g, Others(B, a, e) \cup S)
<1> USE DEF Retiled
<1> DEFINE C == Others(B, a, e) \cup S
<1>1. /\ h.end \in Nat /\ a \in Nat /\ a < h.end /\ e \in Nat /\ e <= h.end /\ h.end <= Limit - 2
      /\ Limit \in Nat
  BY TilesFacts
<1>2. C \subseteq 0 .. g.end - 1
  <2>1. \A b \in B : b \in 0 .. g.end - 1
    BY <1>1, TilesFacts
  <2>2. \A b \in S : b \in 0 .. g.end - 1
    BY <1>1
  <2> QED
    BY <2>1, <2>2 DEF Others
<1>3. 0 \in C
  <2>1. 0 \in B
    BY <1>1 DEF Tiles
  <2>2. 0 <= a
    BY <1>1
  <2>3. CASE a = 0
    BY <2>3
  <2>4. CASE a # 0
    BY <1>1, <2>1, <2>4 DEF Others
  <2> QED
    BY <2>3, <2>4
<1>4. g.ftr[0] = PACK(0, ALLOC) /\ g.hdr[g.end] = PACK(0, ALLOC)
  <2>1. g.ftr[0] = h.ftr[0] /\ g.hdr[h.end] = h.hdr[h.end]
    BY <1>1
  <2> QED
    BY <2>1 DEF Tiles
<1>5. ASSUME NEW b \in Others(B, a, e)
      PROVE  /\ g.hdr[b].size > 0 /\ After(g, b) \in C \cup {g.end}
             /\ g.ftr[After(g, b)] = g.hdr[b]
             /\ \A c \in C : c <= b \/ After(g, b) <= c
  <2>1. b \in B /\ (b < a \/ e <= b)
    BY DEF Others
  <2>2. /\ h.hdr[b].size > 0 /\ After(h, b) \in B \cup {h.end} /\ h.ftr[After(h, b)] = h.hdr[b]
        /\ \A c \in B : c <= b \/ After(h, b) <= c
    BY <2>1 DEF Tiles
  <2>3. b \in Nat /\ After(h, b) \in Nat /\ b < After(h, b) /\ After(h, b) <= h.end
    BY <2>1, TilesFacts
  <2>4. g.hdr[b] = h.hdr[b] /\ After(g, b) = After(h, b)
    BY <2>1 DEF After
  <2>5. After(h, b) <= a \/ e < After(h, b)
    BY <1>1, <2>1, <2>2, <2>3
  <2>6. g.ftr[After(h, b)] = h.ftr[After(h, b)]
    BY <2>2, <2>5
  <2>7. After(h, b) \in C \cup {g.end}
    <3>1. CASE After(h, b) = h.end
      BY <3>1
    <3>2. CASE After(h, b) \in B /\ After(h, b) = a
      BY <3>2
    <3>3. CASE After(h, b) \in B /\ After(h, b) # a
      BY <1>1, <2>3, <2>5, <3>3 DEF Others
    <3> QED
      BY <2>2, <3>1, <3>2, <3>3
  <2>8. ASSUME NEW c \in C
        PROVE  c <= b \/ After(h, b) <= c
    <3>1. CASE c \in Others(B, a, e)
      BY <2>2, <3>1 DEF Others
    <3>2. CASE c \in S
      <4>1. a <= c /\ c < e /\ c \in Nat
        BY <1>1, <3>2
      <4>2. b < a => After(h, b) <= a
        BY <1>1, <2>2, <2>3
      <4> QED
        BY <1>1, <2>1, <2>3, <4>1, <4>2
    <3> QED
      BY <3>1, <3>2
  <2> QED
    BY <2>2, <2>4, <2>6, <2>7, <2>8
<1>6. ASSUME NEW b \in S
      PROVE  /\ g.hdr[b].size > 0 /\ After(g, b) \in C \cup {g.end}
             /\ g.ftr[After(g, b)] = g.hdr[b]
             /\ \A c \in C : c <= b \/ After(g, b) <= c
  <2>1. /\ g.hdr[b].size > 0 /\ After(g, b) \in S \cup {e} /\ g.ftr[After(g, b)] = g.hdr[b]
        /\ \A c \in S : c <= b \/ After(g, b) <= c
    OBVIOUS
  <2>2. After(g, b) \in C \cup {g.end} /\ After(g, b) \in Nat /\ After(g, b) <= e
    <3>1. CASE After(g, b) \in S
      <4>1. After(g, b) \in a .. e - 1
        BY <3>1
      <4>2. After(g, b) \in Nat /\ After(g, b) <= e
        BY <1>1, <4>1
      <4> QED
        BY <3>1, <4>2
    <3>2. CASE After(g, b) = e
      BY <1>1, <3>2 DEF Others
    <3> QED
      BY <2>1, <3>1, <3>2
  <2>3. ASSUME NEW c \in Others(B, a, e)
        PROVE  c <= b \/ After(g, b) <= c
    <3>1. c \in Nat /\ (c < a \/ e <= c) /\ a <= b /\ b \in Nat
      BY <1>1, TilesFacts DEF Others
    <3> QED
      BY <1>1, <2>2, <3>1
  <2> QED
    BY <2>1, <2>2, <2>3
<1> HIDE DEF C
<1>7. \A b \in C : /\ g.hdr[b].size > 0 /\ After(g, b) \in C \cup {g.end}
                   /\ g.ftr[After(g, b)] = g.hdr[b]
                   /\ \A c \in C : c <= b \/ After(g, b) <= c
  BY <1>5, <1>6 DEF C
<1>8. g.end \in 0 .. Limit - 2
  BY <1>1
<1> QED
  BY <1>2, <1>3, <1>4, <1>7, <1>8 DEF Tiles, C
\* The stretch becomes one block.
OneMade(g, h, B, a, e, flag) ==
  /\ Tiles(g, Others(B, a, e) \cup {a})
  /\ g \in Heaps /\ g.end = h.end /\ g.nf = h.nf
  /\ g.hdr[a] = PACK(e - a, flag) /\ After(g, a) = e
  /\ \A x \in Addresses : x # a => g.hdr[x] = h.hdr[x]

\* One block in the place of those from a to e.
LEMMA OneBlock ==
  ASSUME NEW h, NEW B, Tiles(h, B), NEW a \in B, NEW e \in B \cup {h.end}, a < e,
         NEW flag \in {FREE, ALLOC},
         NEW g, g = Mark(h, a, e - a, flag)
  PROVE  OneMade(g, h, B, a, e, flag)
<1>1. /\ h.end \in Nat /\ a \in Nat /\ a < h.end /\ e \in Nat /\ e <= h.end
      /\ h \in Heaps /\ a \in Addresses /\ e \in Addresses /\ h.end \in Addresses /\ 0 \in Addresses
  BY TilesFacts
<1>2. e - a > 0
  BY <1>1
<1>3. /\ g \in Heaps /\ g.end = h.end /\ g.nf = h.nf
      /\ g.hdr[a] = PACK(e - a, flag) /\ g.ftr[e] = PACK(e - a, flag)
      /\ g.hdr[a].size = e - a /\ After(g, a) = e
      /\ \A x \in Addresses : x # a => g.hdr[x] = h.hdr[x]
      /\ \A x \in Addresses : x # e => g.ftr[x] = h.ftr[x]
  <2>1. a <= e
    BY <1>1
  <2>2. Marked(g, h, a, e, flag)
    BY <1>1, <2>1, MarkTo
  <2> QED
    BY <2>2 DEF Marked
<1>4. Tiles(g, Others(B, a, e) \cup {a})
  <2> DEFINE S == {a}
  <2>1. S \in SUBSET (a .. e - 1) /\ a \in S
    BY <1>1
  <2>2. \A x \in B \cup {0, h.end} : x \in Addresses /\ x \in Nat
    BY <1>1, TilesFacts
  <2>3. \A x \in B \cup {h.end} : x < a \/ e <= x => g.hdr[x] = h.hdr[x]
    BY <1>1, <1>3, <2>2
  <2>4. \A x \in B \cup {0, h.end} : x <= a \/ e < x => g.ftr[x] = h.ftr[x]
    BY <1>1, <1>3, <2>2
  <2>5. \A b \in S : /\ g.hdr[b].size > 0 /\ After(g, b) \in S \cup {e}
                     /\ g.ftr[After(g, b)] = g.hdr[b]
                     /\ \A c \in S : c <= b \/ After(g, b) <= c
    BY <1>1, <1>2, <1>3
  <2> HIDE DEF S
  <2>6. Tiles(g, Others(B, a, e) \cup S)
    <3>1. Retiled(g, h, B, a, e, S)
      BY <1>3, <2>1, <2>3, <2>4, <2>5 DEF Retiled
    <3> QED
      BY <3>1, Retile
  <2> QED
    BY <2>6 DEF S
<1> QED
  BY <1>3, <1>4 DEF OneMade

\* The stretch becomes two blocks, the second of which begins at m.
TwoMade(g, h, B, a, m, e, flag, flag2) ==
  /\ Tiles(g, Others(B, a, e) \cup {a, m})
  /\ g \in Heaps /\ g.end = h.end /\ g.nf = h.nf
  /\ g.hdr[a] = PACK(m - a, flag) /\ After(g, a) = m
  /\ g.hdr[m] = PACK(e - m, flag2) /\ After(g, m) = e
  /\ \A x \in Addresses : x # a /\ x # m => g.hdr[x] = h.hdr[x]

\* Two blocks in their place, which meet at m.
LEMMA TwoBlocks ==
  ASSUME NEW h, NEW B, Tiles(h, B), NEW a \in B, NEW e \in B \cup {h.end},
         NEW m \in Int, a < m, m < e,
         NEW flag \in {FREE, ALLOC}, NEW flag2 \in {FREE, ALLOC},
         NEW g, g = Mark(Mark(h, a, m - a, flag), m, e - m, flag2)
  PROVE  TwoMade(g, h, B, a, m, e, flag, flag2)
<1> DEFINE f == Mark(h, a, m - a, flag)
<1>1. /\ h.end \in Nat /\ a \in Nat /\ a < h.end /\ e \in Nat /\ e <= h.end
      /\ h \in Heaps /\ a \in Addresses /\ e \in Addresses /\ h.end \in Addresses /\ 0 \in Addresses
      /\ h.end <= Limit - 2 /\ Limit \in Nat
  BY TilesFacts
<1>2. m - a > 0 /\ m \in Nat /\ e - m > 0
  BY <1>1
<1>3. m \in Addresses
  BY <1>1, <1>2 DEF Addresses
<1>4. /\ f \in Heaps /\ f.end = h.end /\ f.nf = h.nf
      /\ f.hdr[a] = PACK(m - a, flag) /\ f.ftr[m] = PACK(m - a, flag)
      /\ f.hdr[a].size = m - a /\ After(f, a) = m
      /\ \A x \in Addresses : x # a => f.hdr[x] = h.hdr[x]
      /\ \A x \in Addresses : x # m => f.ftr[x] = h.ftr[x]
  <2>1. a <= m
    BY <1>1, <1>2
  <2>2. Marked(f, h, a, m, flag)
    BY <1>1, <1>3, <2>1, MarkTo
  <2> QED
    BY <2>2 DEF Marked
<1>9. g = Mark(f, m, e - m, flag2)
  OBVIOUS
<1> HIDE DEF f
<1>5. /\ g \in Heaps /\ g.end = f.end /\ g.nf = f.nf
      /\ g.hdr[m] = PACK(e - m, flag2) /\ g.ftr[e] = PACK(e - m, flag2)
      /\ g.hdr[m].size = e - m /\ After(g, m) = e
      /\ \A x \in Addresses : x # m => g.hdr[x] = f.hdr[x]
      /\ \A x \in Addresses : x # e => g.ftr[x] = f.ftr[x]
  <2>1. m <= e /\ f \in Heaps
    BY <1>1, <1>2, <1>4
  <2>2. Marked(g, f, m, e, flag2)
    BY <1>1, <1>3, <1>9, <2>1, MarkTo
  <2> QED
    BY <2>2 DEF Marked
<1>6. /\ g.end = h.end /\ g.nf = h.nf
      /\ g.hdr[a] = PACK(m - a, flag) /\ g.ftr[m] = PACK(m - a, flag)
      /\ \A x \in Addresses : x # a /\ x # m => g.hdr[x] = h.hdr[x]
      /\ \A x \in Addresses : x # m /\ x # e => g.ftr[x] = h.ftr[x]
  BY <1>1, <1>2, <1>3, <1>4, <1>5
<1>7. /\ g.hdr[a].size = m - a /\ After(g, a) = m
      /\ g.hdr[m].size = e - m /\ After(g, m) = e
  BY <1>1, <1>2, <1>4, <1>5 DEF After
<1>8. Tiles(g, Others(B, a, e) \cup {a, m})
  <2> DEFINE S == {a, m}
  <2>1. S \in SUBSET (a .. e - 1) /\ a \in S
    BY <1>1, <1>2
  <2>2. \A x \in B \cup {0, h.end} : x \in Addresses /\ x \in Nat
    BY <1>1, TilesFacts
  <2>3. \A x \in B \cup {h.end} : x < a \/ e <= x => g.hdr[x] = h.hdr[x]
    BY <1>1, <1>2, <1>6, <2>2
  <2>4. \A x \in B \cup {0, h.end} : x <= a \/ e < x => g.ftr[x] = h.ftr[x]
    BY <1>1, <1>2, <1>6, <2>2
  <2>5. ASSUME NEW b \in S
        PROVE  /\ g.hdr[b].size > 0 /\ After(g, b) \in S \cup {e}
               /\ g.ftr[After(g, b)] = g.hdr[b]
               /\ \A c \in S : c <= b \/ After(g, b) <= c
    <3>1. CASE b = a
      BY <1>1, <1>2, <1>6, <1>7, <3>1
    <3>2. CASE b = m
      BY <1>1, <1>2, <1>5, <1>7, <3>2
    <3> QED
      BY <3>1, <3>2
  <2>7. \A b \in S : /\ g.hdr[b].size > 0 /\ After(g, b) \in S \cup {e}
                     /\ g.ftr[After(g, b)] = g.hdr[b]
                     /\ \A c \in S : c <= b \/ After(g, b) <= c
    BY <2>5
  <2>8. a < e
    BY <1>1
  <2> HIDE DEF S
  <2>6. Tiles(g, Others(B, a, e) \cup S)
    <3>1. Retiled(g, h, B, a, e, S)
      BY <1>5, <1>6, <2>1, <2>3, <2>4, <2>7, <2>8 DEF Retiled
    <3> QED
      BY <3>1, Retile
  <2> QED
    BY <2>6 DEF S
<1> QED
  BY <1>5, <1>6, <1>7, <1>8 DEF TwoMade

\* The client writes between the tags of a block and nowhere else.
LEMMA FillKeeps ==
  ASSUME NEW h, NEW B, Tiles(h, B), NEW b \in B,
         NEW g, g = Fill(h, b, h.hdr[b].size)
  PROVE  /\ Tiles(g, B) /\ g.end = h.end /\ g.nf = h.nf
         /\ \A x \in B : g.hdr[x] = h.hdr[x] /\ After(g, x) = After(h, x)
         /\ g.hdr[h.end] = h.hdr[h.end]
<1> DEFINE n == h.hdr[b].size
<1>1. /\ b \in Nat /\ n \in Nat /\ h \in Heaps /\ After(h, b) = b + n /\ h.end \in Nat
      /\ h.end \in Addresses /\ 0 \in Addresses
  BY TilesFacts DEF After
<1>2. /\ g \in Heaps /\ g.end = h.end /\ g.nf = h.nf
      /\ \A x \in Addresses : x \notin b + 1 .. b + n - 1 => g.hdr[x] = h.hdr[x] /\ g.ftr[x] = h.ftr[x]
  BY <1>1, FillIs
<1>3. ASSUME NEW x \in B \cup {0, h.end}
      PROVE  g.hdr[x] = h.hdr[x] /\ g.ftr[x] = h.ftr[x]
  <2>1. x \in Nat /\ x \in Addresses
    BY <1>1, TilesFacts
  <2>2. x <= b \/ b + n <= x
    <3>1. \A c \in B : c <= b \/ After(h, b) <= c
      BY DEF Tiles
    <3>2. After(h, b) <= h.end
      BY TilesFacts
    <3>3. CASE x = 0
      BY <1>1, <3>3
    <3>4. CASE x = h.end
      BY <1>1, <3>2, <3>4
    <3>5. CASE x \in B
      BY <1>1, <3>1, <3>5
    <3> QED
      BY <3>3, <3>4, <3>5
  <2>3. x \notin b + 1 .. b + n - 1
    BY <1>1, <2>1, <2>2
  <2> QED
    BY <1>2, <2>1, <2>3
<1>4. \A x \in B : After(g, x) = After(h, x)
  BY <1>3 DEF After
<1>5. Tiles(g, B)
  <2>1. g.end \in 0 .. Limit - 2 /\ B \subseteq 0 .. g.end - 1 /\ (g.end > 0 => 0 \in B)
    BY <1>2 DEF Tiles
  <2>2. g.ftr[0] = PACK(0, ALLOC) /\ g.hdr[g.end] = PACK(0, ALLOC)
    BY <1>2, <1>3 DEF Tiles
  <2>3. ASSUME NEW c \in B
        PROVE  /\ g.hdr[c].size > 0
               /\ After(g, c) \in B \cup {g.end}
               /\ g.ftr[After(g, c)] = g.hdr[c]
               /\ \A d \in B : d <= c \/ After(g, c) <= d
    <3>1. /\ h.hdr[c].size > 0 /\ After(h, c) \in B \cup {h.end}
          /\ h.ftr[After(h, c)] = h.hdr[c]
          /\ \A d \in B : d <= c \/ After(h, c) <= d
      BY DEF Tiles
    <3>2. g.ftr[After(h, c)] = h.ftr[After(h, c)]
      BY <1>3, <3>1
    <3> QED
      BY <1>2, <1>3, <1>4, <3>1, <3>2
  <2> QED
    BY <1>2, <2>1, <2>2, <2>3 DEF Tiles
<1> QED
  BY <1>2, <1>3, <1>4, <1>5

\* The heap grows by a block from a, where the last free block begins or
\* heap_end was.
Grown(g, h, B, a, e) ==
  /\ Tiles(g, B \cup {a})
  /\ g \in Heaps /\ g.end = e /\ g.nf = h.nf
  /\ g.hdr[a] = PACK(e - a, FREE) /\ After(g, a) = e
  /\ \A x \in B : x # a => g.hdr[x] = h.hdr[x]

\* A heap that grows keeps its blocks and gets a free one at its end, which takes
\* in a free one that was there.
LEMMA GrowTiles ==
  ASSUME NEW h, NEW B, Tiles(h, B), NEW a \in B \cup {h.end},
         \A b \in B : b <= a,
         NEW e \in Int, h.end < e, e <= Limit - 2,
         NEW g, g = Mark(EndSentinel(h, e), a, e - a, FREE)
  PROVE  Grown(g, h, B, a, e)
<1> DEFINE f == EndSentinel(h, e)
           C == B \cup {a}
<1>1. /\ h.end \in Nat /\ a \in Nat /\ a <= h.end /\ e \in Nat /\ a < e
      /\ h \in Heaps /\ a \in Addresses /\ h.end \in Addresses /\ 0 \in Addresses
      /\ h.end <= Limit - 2 /\ Limit \in Nat
  BY TilesFacts
<1>2. e \in Addresses /\ e - a > 0 /\ a <= e
  BY <1>1 DEF Addresses
<1>3. /\ f \in Heaps /\ f.end = e /\ f.nf = h.nf /\ f.ftr = h.ftr
      /\ f.hdr[e] = PACK(0, ALLOC)
      /\ \A x \in Addresses : x # e => f.hdr[x] = h.hdr[x]
  BY <1>1, <1>2, SentinelIs
<1>9. g = Mark(f, a, e - a, FREE)
  OBVIOUS
<1> HIDE DEF f
<1>4. /\ g \in Heaps /\ g.end = f.end /\ g.nf = f.nf
      /\ g.hdr[a] = PACK(e - a, FREE) /\ g.ftr[e] = PACK(e - a, FREE)
      /\ g.hdr[a].size = e - a /\ After(g, a) = e
      /\ \A x \in Addresses : x # a => g.hdr[x] = f.hdr[x]
      /\ \A x \in Addresses : x # e => g.ftr[x] = f.ftr[x]
  <2>1. FREE \in {FREE, ALLOC} /\ f \in Heaps
    BY <1>3
  <2>2. Marked(g, f, a, e, FREE)
    BY <1>1, <1>2, <1>9, <2>1, MarkTo
  <2> QED
    BY <2>2 DEF Marked
<1>5. /\ g.end = e /\ g.nf = h.nf /\ g.hdr[e] = PACK(0, ALLOC)
      /\ \A x \in Addresses : x # a /\ x # e => g.hdr[x] = h.hdr[x]
      /\ \A x \in Addresses : x # e => g.ftr[x] = h.ftr[x]
  <2>1. e # a
    BY <1>1
  <2>2. g.end = e /\ g.nf = h.nf
    BY <1>3, <1>4
  <2>3. g.hdr[e] = f.hdr[e]
    BY <1>2, <1>4, <2>1
  <2>4. ASSUME NEW x \in Addresses, x # a, x # e
        PROVE  g.hdr[x] = h.hdr[x]
    <3>1. g.hdr[x] = f.hdr[x] /\ f.hdr[x] = h.hdr[x]
      BY <1>3, <1>4, <2>4
    <3> QED
      BY <3>1
  <2>5. ASSUME NEW x \in Addresses, x # e
        PROVE  g.ftr[x] = h.ftr[x]
    <3>1. g.ftr[x] = f.ftr[x] /\ f.ftr[x] = h.ftr[x]
      BY <1>3, <1>4, <2>5
    <3> QED
      BY <3>1
  <2> QED
    BY <1>3, <2>2, <2>3, <2>4, <2>5
<1>6. Tiles(g, C)
  <2>1. g.end \in 0 .. Limit - 2 /\ C \subseteq 0 .. g.end - 1
    <3>1. g.end = e
      BY <1>5
    <3>2. e \in 0 .. Limit - 2 /\ a \in 0 .. e - 1
      BY <1>1
    <3>3. \A b \in B : b \in 0 .. e - 1
      BY <1>1, TilesFacts
    <3> QED
      BY <3>1, <3>2, <3>3
  <2>2. 0 \in C
    <3>1. h.end > 0 => 0 \in B
      BY DEF Tiles
    <3> QED
      BY <1>1, <3>1
  <2>3. g.ftr[0] = PACK(0, ALLOC) /\ g.hdr[g.end] = PACK(0, ALLOC)
    BY <1>1, <1>5 DEF Tiles
  <2>4. ASSUME NEW b \in C, b # a
        PROVE  /\ g.hdr[b].size > 0
               /\ After(g, b) \in C \cup {g.end}
               /\ g.ftr[After(g, b)] = g.hdr[b]
               /\ \A c \in C : c <= b \/ After(g, b) <= c
    <3>1. /\ b \in B /\ b \in Addresses /\ b \in Nat /\ b < h.end
          /\ After(h, b) \in Addresses /\ After(h, b) \in Nat /\ After(h, b) <= h.end
      BY <2>4, TilesFacts
    <3>2. g.hdr[b] = h.hdr[b] /\ After(g, b) = After(h, b)
      BY <1>1, <1>5, <2>4, <3>1 DEF After
    <3>3. /\ h.hdr[b].size > 0 /\ After(h, b) \in B \cup {h.end} /\ h.ftr[After(h, b)] = h.hdr[b]
          /\ \A c \in B : c <= b \/ After(h, b) <= c
      BY <3>1 DEF Tiles
    <3>4. g.ftr[After(h, b)] = h.ftr[After(h, b)]
      BY <1>1, <1>5, <3>1
    <3>5. After(h, b) <= a
      <4>1. CASE a = h.end
        BY <3>1, <4>1
      <4>2. CASE a \in B
        <5>1. b <= a /\ b # a
          BY <2>4, <3>1
        <5> QED
          BY <1>1, <3>1, <3>3, <4>2, <5>1
      <4> QED
        BY <4>1, <4>2
    <3>6. After(h, b) \in C
      <4>1. CASE After(h, b) = h.end
        BY <1>1, <3>1, <3>5, <4>1
      <4> QED
        BY <3>3, <4>1
    <3> QED
      BY <3>2, <3>3, <3>4, <3>5, <3>6
  <2>5. /\ g.hdr[a].size > 0
        /\ After(g, a) \in C \cup {g.end}
        /\ g.ftr[After(g, a)] = g.hdr[a]
        /\ \A c \in C : c <= a \/ After(g, a) <= c
    BY <1>1, <1>2, <1>4, <1>5
  <2> HIDE DEF C
  <2>6. \A b \in C : /\ g.hdr[b].size > 0
                     /\ After(g, b) \in C \cup {g.end}
                     /\ g.ftr[After(g, b)] = g.hdr[b]
                     /\ \A c \in C : c <= b \/ After(g, b) <= c
    BY <2>4, <2>5
  <2> QED
    BY <1>4, <2>1, <2>2, <2>3, <2>6 DEF Tiles
<1>7. \A x \in B : x \in Addresses /\ x # e
  BY <1>1, TilesFacts
<1> QED
  BY <1>1, <1>4, <1>5, <1>6, <1>7 DEF Grown

\* The last block is given back.
Trimmed(g, h, B, a) ==
  /\ Tiles(g, B \ {a})
  /\ g \in Heaps /\ g.end = a /\ g.nf = h.nf
  /\ g.hdr[a] = PACK(0, ALLOC)
  /\ \A x \in B : x # a => g.hdr[x] = h.hdr[x]

\* A heap that is trimmed loses the free block at its end.
LEMMA TrimTiles ==
  ASSUME NEW h, NEW B, Tiles(h, B), NEW a \in B, After(h, a) = h.end,
         NEW g, g = EndSentinel(h, a)
  PROVE  Trimmed(g, h, B, a)
<1> DEFINE C == B \ {a}
<1>1. /\ h.end \in Nat /\ a \in Nat /\ a < h.end /\ h \in Heaps /\ a \in Addresses
      /\ h.end <= Limit - 2 /\ Limit \in Nat
  BY TilesFacts
<1>2. /\ g \in Heaps /\ g.end = a /\ g.nf = h.nf /\ g.ftr = h.ftr
      /\ g.hdr[a] = PACK(0, ALLOC)
      /\ \A x \in Addresses : x # a => g.hdr[x] = h.hdr[x]
  BY <1>1, SentinelIs
<1>3. ASSUME NEW b \in C
      PROVE  /\ b \in Nat /\ b < a /\ g.hdr[b] = h.hdr[b]
             /\ g.hdr[b].size > 0
             /\ After(g, b) \in C \cup {g.end}
             /\ g.ftr[After(g, b)] = g.hdr[b]
             /\ \A c \in C : c <= b \/ After(g, b) <= c
  <2>1. b \in B /\ b # a /\ b \in Nat /\ b \in Addresses /\ b < h.end /\ After(h, b) <= h.end
        /\ After(h, b) \in Nat
    BY TilesFacts
  <2>2. b < a
    <3>1. b <= a \/ After(h, a) <= b
      BY <2>1 DEF Tiles
    <3> QED
      BY <1>1, <2>1, <3>1
  <2>3. g.hdr[b] = h.hdr[b] /\ After(g, b) = After(h, b)
    BY <1>2, <2>1 DEF After
  <2>4. /\ h.hdr[b].size > 0 /\ After(h, b) \in B \cup {h.end} /\ h.ftr[After(h, b)] = h.hdr[b]
        /\ \A c \in B : c <= b \/ After(h, b) <= c
    BY <2>1 DEF Tiles
  <2>5. After(h, b) <= a
    BY <1>1, <2>1, <2>2, <2>4
  <2>6. After(h, b) \in C \cup {a}
    BY <1>1, <2>1, <2>4, <2>5
  <2> QED
    BY <1>2, <2>1, <2>2, <2>3, <2>4, <2>6
<1>4. Tiles(g, C)
  <2>1. g.end \in 0 .. Limit - 2 /\ C \subseteq 0 .. g.end - 1
    BY <1>1, <1>2, <1>3
  <2>2. g.end > 0 => 0 \in C
    BY <1>1, <1>2 DEF Tiles
  <2>3. g.ftr[0] = PACK(0, ALLOC) /\ g.hdr[g.end] = PACK(0, ALLOC)
    BY <1>2 DEF Tiles
  <2> HIDE DEF C
  <2> QED
    BY <1>2, <1>3, <2>1, <2>2, <2>3 DEF Tiles
<1>5. \A x \in B : x # a => g.hdr[x] = h.hdr[x]
  BY <1>2, TilesFacts
<1> QED
  BY <1>2, <1>4, <1>5 DEF Trimmed

-----------------------------------------------------------------------------
(* Allocating.                                                             *)

\* The heap between two calls.
Sound(h, B) == Tiles(h, B) /\ NoPair(h, B) /\ h.nf \in {NULL, 0} \cup Used(h, B)

\* Block b of n units has come to the blocks in use, none of which changed.
Gained(h, B, g, C, b, n) ==
  /\ b \notin Used(h, B) /\ b \in C /\ g.hdr[b] = PACK(n, ALLOC)
  /\ Used(g, C) = Used(h, B) \cup {b}
  /\ \A x \in Used(h, B) : g.hdr[x] = h.hdr[x]

\* Block b has gone from them.
Lost(h, B, g, C, b) ==
  /\ Used(g, C) = Used(h, B) \ {b}
  /\ \A x \in Used(g, C) : g.hdr[x] = h.hdr[x]

\* Block b has n units now.
Resized(h, B, g, C, b, n) ==
  /\ Used(g, C) = Used(h, B) /\ g.hdr[b] = PACK(n, ALLOC)
  /\ \A x \in Used(h, B) : x # b => g.hdr[x] = h.hdr[x]

\* The values of the status, and NULL, are different.
LEMMA TagStates == FREE # ALLOC /\ NULL # 0 /\ ~(NULL \in Nat)
  BY DEF FREE, ALLOC, NULL

\* The least number of a set, or NULL.
LEMMA LowestIs ==
  ASSUME NEW S \in SUBSET Nat
  PROVE  (S = {} => Lowest(S) = NULL) /\ (S # {} => Lowest(S) \in S)
<1>1. S # {} => \E b \in S : \A c \in S : b <= c
  BY LeastNumber
<1> QED
  BY <1>1, Zenon DEF Lowest

\* The greatest, or NULL.
LEMMA HighestIs ==
  ASSUME NEW N \in Nat, NEW S \in SUBSET (0 .. N)
  PROVE  (S = {} => Highest(S) = NULL) /\ (S # {} => Highest(S) \in S)
<1>1. S # {} => \E b \in S : \A c \in S : c <= b
  BY GreatestNumber
<1> QED
  BY <1>1, Zenon DEF Highest

\* What a search finds fits, and it finds something if anything fits.
Found(h, B, n, r) ==
  /\ r.block = NULL \/ (r.block \in B /\ Fits(h, r.block, n))
  /\ r.block = NULL => \A b \in B : ~Fits(h, b, n)
  /\ r.nf \in {h.nf, 0, r.block}

\* Each policy finds a free block that is large enough, or none, and leaves
\* nf_curr where a walk may start.
LEMMA SearchFinds ==
  ASSUME NEW h, NEW B, Sound(h, B), ap \in Policies, NEW n
  PROVE  Found(h, B, n, get_free_block(h, n))
<1> DEFINE S == {b \in B : Fits(h, b, n)}
<1>1. Walk(h)[0] = B /\ Tiles(h, B)
  BY WalkAll DEF Sound
<1>2. h.end \in Nat /\ \A b \in B : b \in Nat /\ b \in 0 .. h.end
  BY <1>1, TilesFacts
<1>3. S \in SUBSET Nat /\ S \in SUBSET (0 .. h.end) /\ NULL \notin S
  BY <1>2, TagStates
<1>4. CASE ap = "FirstFit"
  <2>1. get_free_block(h, n) = [block |-> Lowest(S), nf |-> h.nf]
    BY <1>1, <1>4 DEF get_free_block, ff_get_free_block
  <2>2. (S = {} => Lowest(S) = NULL) /\ (S # {} => Lowest(S) \in S)
    BY <1>3, LowestIs
  <2> DEFINE r == get_free_block(h, n)
             found == Lowest(S)
  <2>3. r.block = found /\ r.nf = h.nf
    BY <2>1
  <2>4. (S = {} => found = NULL) /\ (S # {} => found \in S)
    BY <2>2
  <2> HIDE DEF r, found
  <2>5. Found(h, B, n, r)
    BY <1>3, <2>3, <2>4 DEF Found
  <2> QED
    BY <2>5 DEF r
<1>5. CASE ap = "BestFit"
  <2>1. get_free_block(h, n) = [block |-> Highest(S), nf |-> h.nf]
    BY <1>1, <1>5 DEF get_free_block, bf_get_free_block
  <2>2. (S = {} => Highest(S) = NULL) /\ (S # {} => Highest(S) \in S)
    BY <1>2, <1>3, HighestIs
  <2> DEFINE r == get_free_block(h, n)
             found == Highest(S)
  <2>3. r.block = found /\ r.nf = h.nf
    BY <2>1
  <2>4. (S = {} => found = NULL) /\ (S # {} => found \in S)
    BY <2>2
  <2> HIDE DEF r, found
  <2>5. Found(h, B, n, r)
    BY <1>3, <2>3, <2>4 DEF Found
  <2> QED
    BY <2>5 DEF r
<1>6. CASE ap = "NextFit"
  <2> DEFINE start  == IF h.nf = NULL \/ h.nf >= h.end THEN 0 ELSE h.nf
             behind == {b \in Walk(h)[start] : Fits(h, b, n)}
             before == {b \in Walk(h)[0] : Fits(h, b, n) /\ b < start}
             T      == IF behind # {} THEN behind ELSE before
             found  == Lowest(T)
  <2>1. get_free_block(h, n) = [block |-> found, nf |-> IF found = NULL THEN start ELSE found]
    BY <1>6 DEF get_free_block, nf_get_free_block
  <2>2. start \in {h.nf, 0} /\ start \in B \cup {0, h.end} /\ start \in Nat
    <3>1. h.nf \in {NULL, 0} \cup B
      BY DEF Sound, Used
    <3> QED
      BY <1>2, <3>1, TagStates
  <2>3. Walk(h)[start] = {c \in B : start <= c}
    BY <1>1, <2>2, WalkBlocks
  <2> HIDE DEF start
  <2>4. S = behind \cup before
    <3>1. behind = {b \in B : start <= b /\ Fits(h, b, n)}
      BY <2>3
    <3>2. before = {b \in B : Fits(h, b, n) /\ b < start}
      BY <1>1
    <3>3. \A b \in B : start <= b \/ b < start
      BY <1>2, <2>2
    <3> HIDE DEF behind, before
    <3> QED
      BY <3>1, <3>2, <3>3
  <2>5. T \subseteq S /\ (S # {} => T # {})
    BY <2>4
  <2> HIDE DEF T
  <2>6. (T = {} => found = NULL) /\ (T # {} => found \in T)
    <3>1. T \in SUBSET Nat
      BY <1>3, <2>5
    <3> QED
      BY <3>1, LowestIs
  <2> HIDE DEF found
  <2>7. /\ found = NULL \/ found \in S
        /\ found = NULL => S = {}
        /\ (IF found = NULL THEN start ELSE found) \in {h.nf, 0, found}
    BY <1>3, <2>2, <2>5, <2>6
  <2> DEFINE r == get_free_block(h, n)
  <2>8. r.block = found /\ r.nf = IF found = NULL THEN start ELSE found
    BY <2>1
  <2> HIDE DEF r
  <2>9. Found(h, B, n, r)
    BY <2>7, <2>8 DEF Found
  <2> QED
    BY <2>9 DEF r
<1>7. ap \in {"FirstFit", "NextFit", "BestFit"}
  BY HeapAssumption
<1> QED
  BY <1>4, <1>5, <1>6, <1>7

\* What stays of the heap around a stretch that is written anew.
LEMMA OthersStay ==
  ASSUME NEW h, NEW B, Tiles(h, B), NEW a \in B, NEW e \in B \cup {h.end}, a < e,
         NEW g, \A x \in Addresses : x < a \/ e <= x => g.hdr[x] = h.hdr[x]
  PROVE  /\ \A x \in Others(B, a, e) :
              /\ x \in B /\ x \notin a .. e - 1 /\ g.hdr[x] = h.hdr[x]
              /\ After(g, x) = After(h, x)
              /\ After(h, x) = a \/ g.hdr[After(h, x)] = h.hdr[After(h, x)]
         /\ g.hdr[e] = h.hdr[e]
<1>1. /\ h.end \in Nat /\ a \in Nat /\ a < h.end /\ e \in Nat /\ e <= h.end /\ e \in Addresses
  BY TilesFacts
<1>2. ASSUME NEW x \in Others(B, a, e)
      PROVE  /\ x \in B /\ x \notin a .. e - 1 /\ g.hdr[x] = h.hdr[x]
             /\ After(g, x) = After(h, x)
             /\ After(h, x) = a \/ g.hdr[After(h, x)] = h.hdr[After(h, x)]
  <2>1. x \in B /\ (x < a \/ e <= x) /\ x \in Addresses /\ x \in Nat
    BY TilesFacts DEF Others
  <2>2. g.hdr[x] = h.hdr[x] /\ After(g, x) = After(h, x)
    BY <2>1 DEF After
  <2>3. After(h, x) \in Nat /\ x < After(h, x) /\ After(h, x) \in Addresses
    BY <2>1, TilesFacts
  <2>4. x < a => After(h, x) <= a
    <3>1. a <= x \/ After(h, x) <= a
      BY <2>1 DEF Tiles
    <3> QED
      BY <1>1, <2>1, <3>1
  <2>5. After(h, x) # a => After(h, x) < a \/ e <= After(h, x)
    BY <1>1, <2>1, <2>3, <2>4
  <2> QED
    BY <1>1, <2>1, <2>2, <2>3, <2>5
<1> QED
  BY <1>1, <1>2

\* A free block that is split has its first n units in use.
LEMMA PlaceGains ==
  ASSUME NEW h, NEW B, Tiles(h, B), NoPair(h, B), NEW b \in B, h.hdr[b].status = FREE,
         NEW n \in Nat \ {0}, n <= h.hdr[b].size, NEW g, g = Place(h, b, n)
  PROVE  \E C : Tiles(g, C) /\ NoPair(g, C) /\ g.nf = h.nf /\ g.end = h.end
                /\ Gained(h, B, g, C, b, n)
<1> DEFINE e == After(h, b)
           m == b + n
           O == Others(B, b, e)
<1>1. /\ b \in Nat /\ b \in Addresses /\ h.hdr[b].size \in Nat /\ e \in Nat /\ b < e
      /\ e - b = h.hdr[b].size /\ e \in Addresses
  BY TilesFacts
<1>2. e \in B \cup {h.end} /\ \A c \in B : c <= b \/ e <= c
  BY DEF Tiles
<1>3. m \in Nat /\ b < m /\ m <= e /\ m - b = n /\ h.hdr[b].size - n = e - m
  BY <1>1
<1>4. h.hdr[e].status = ALLOC
  BY DEF NoPair
<1>5. ALLOC \in {FREE, ALLOC} /\ FREE \in {FREE, ALLOC}
  OBVIOUS
<1>6. Used(h, B) \subseteq O /\ b \notin Used(h, B)
  <2>1. \A x \in Used(h, B) : x \in B /\ x # b
    BY TagStates DEF Used
  <2>2. \A x \in B : x \in Nat
    BY TilesFacts
  <2>3. \A x \in B : x # b => x < b \/ e <= x
    BY <1>1, <1>2, <2>2
  <2> QED
    BY <2>1, <2>3 DEF Others
<1>7. \A x \in O : x \in B /\ x # b
  BY <1>1, TilesFacts DEF Others
<1>8. ASSUME NEW x \in O, h.hdr[x].status = FREE
      PROVE  h.hdr[After(h, x)].status = ALLOC /\ After(h, x) # b
  BY <1>7, <1>8, TagStates DEF NoPair
<1>9. CASE m = e
  <2> DEFINE C == O \cup {b}
  <2>1. g = Mark(h, b, e - b, ALLOC)
    BY <1>1, <1>3, <1>9 DEF Place
  <2>2. /\ Tiles(g, C) /\ g.end = h.end /\ g.nf = h.nf
        /\ g.hdr[b] = PACK(e - b, ALLOC) /\ After(g, b) = e
        /\ \A x \in Addresses : x # b => g.hdr[x] = h.hdr[x]
    <3>1. OneMade(g, h, B, b, e, ALLOC)
      BY <1>1, <1>2, <1>5, <2>1, OneBlock
    <3> QED
      BY <3>1 DEF OneMade
  <2>3. g.hdr[b] = PACK(n, ALLOC) /\ g.hdr[b].status = ALLOC
    BY <1>3, <1>9, <2>2 DEF PACK
  <2>4. \A x \in Addresses : x < b \/ e <= x => g.hdr[x] = h.hdr[x]
    <3>1. \A x \in Addresses : x < b \/ e <= x => x # b
      BY <1>1
    <3> QED
      BY <2>2, <3>1
  <2>5. \A x \in O : /\ g.hdr[x] = h.hdr[x] /\ After(g, x) = After(h, x)
                     /\ After(h, x) = b \/ g.hdr[After(h, x)] = h.hdr[After(h, x)]
    BY <1>1, <1>2, <2>4, OthersStay
  <2>6. NoPair(g, C)
    <3>1. \A x \in O : g.hdr[x].status = FREE => g.hdr[After(g, x)].status = ALLOC
      BY <1>8, <2>5
    <3> QED
      BY <2>3, <3>1, TagStates DEF NoPair
  <2>7. Used(g, C) = Used(h, B) \cup {b}
    BY <1>6, <1>7, <2>3, <2>5 DEF Used
  <2>8. Gained(h, B, g, C, b, n)
    BY <1>6, <2>3, <2>5, <2>7 DEF Gained
  <2> QED
    BY <2>2, <2>6, <2>8
<1>10. CASE m # e
  <2> DEFINE C == O \cup {b, m}
  <2>0. m < e /\ m \in Addresses /\ m # b /\ m # e /\ m \in Int
    <3>1. Limit \in Nat
      BY HeapAssumption
    <3> HIDE DEF m, e
    <3> QED
      BY <1>1, <1>3, <1>10, <3>1 DEF Addresses
  <2>1. g = Mark(Mark(h, b, m - b, ALLOC), m, e - m, FREE)
    <3> DEFINE s == h.hdr[b].size
    <3>1. s - n > 0 /\ s - n = e - m /\ n = m - b
      BY <1>1, <1>3, <2>0
    <3>2. g = IF s - n > 0 THEN Mark(Mark(h, b, n, ALLOC), m, s - n, FREE) ELSE Mark(h, b, n, ALLOC)
      BY DEF Place
    <3> HIDE DEF m, e, s
    <3> QED
      BY <3>1, <3>2
  <2>2. /\ Tiles(g, C) /\ g.end = h.end /\ g.nf = h.nf
        /\ g.hdr[b] = PACK(m - b, ALLOC) /\ After(g, b) = m
        /\ g.hdr[m] = PACK(e - m, FREE) /\ After(g, m) = e
        /\ \A x \in Addresses : x # b /\ x # m => g.hdr[x] = h.hdr[x]
    <3>1. TwoMade(g, h, B, b, m, e, ALLOC, FREE)
      BY <1>2, <1>3, <1>5, <2>0, <2>1, TwoBlocks
    <3> QED
      BY <3>1 DEF TwoMade
  <2>3. /\ g.hdr[b] = PACK(n, ALLOC) /\ g.hdr[b].status = ALLOC
        /\ g.hdr[m].status = FREE
    BY <1>3, <2>2 DEF PACK
  <2>4. \A x \in Addresses : x < b \/ e <= x => g.hdr[x] = h.hdr[x]
    BY <1>1, <1>3, <2>0, <2>2
  <2>5. /\ \A x \in O : /\ g.hdr[x] = h.hdr[x] /\ After(g, x) = After(h, x)
                        /\ After(h, x) = b \/ g.hdr[After(h, x)] = h.hdr[After(h, x)]
        /\ g.hdr[e] = h.hdr[e]
    BY <1>1, <1>2, <2>4, OthersStay
  <2>6. NoPair(g, C)
    <3>1. \A x \in O : g.hdr[x].status = FREE => g.hdr[After(g, x)].status = ALLOC
      BY <1>8, <2>5
    <3>2. g.hdr[After(g, m)].status = ALLOC
      BY <1>4, <2>2, <2>5
    <3> QED
      BY <2>3, <3>1, <3>2, TagStates DEF NoPair
  <2>7. Used(g, C) = Used(h, B) \cup {b}
    <3>1. \A x \in O : x \in Used(g, C) <=> x \in Used(h, B)
      BY <1>7, <2>5 DEF Used
    <3>2. b \in Used(g, C) /\ m \notin Used(g, C)
      BY <2>3, TagStates DEF Used
    <3>3. Used(g, C) \subseteq C
      BY DEF Used
    <3> QED
      BY <1>6, <3>1, <3>2, <3>3
  <2>8. Gained(h, B, g, C, b, n)
    BY <1>6, <2>3, <2>5, <2>7 DEF Gained
  <2> QED
    BY <2>2, <2>6, <2>8
<1> QED
  BY <1>9, <1>10
\* The blocks do not depend on nf_curr.
LEMMA NfTiles ==
  ASSUME NEW h, NEW B, Tiles(h, B), NoPair(h, B), NEW n \in Int,
         NEW g, g = [h EXCEPT !.nf = n]
  PROVE  /\ Tiles(g, B) /\ NoPair(g, B) /\ g.nf = n /\ g.end = h.end
         /\ g.hdr = h.hdr /\ g.ftr = h.ftr /\ Used(g, B) = Used(h, B)
<1>1. h \in Heaps
  BY TilesFacts
<1>2. g \in Heaps /\ g.end = h.end /\ g.nf = n /\ g.hdr = h.hdr /\ g.ftr = h.ftr
  BY <1>1, NfIs
<1>3. \A x : After(g, x) = After(h, x)
  BY <1>2 DEF After
<1>4. Tiles(g, B)
  BY <1>2, <1>3 DEF Tiles
<1>5. NoPair(g, B) /\ Used(g, B) = Used(h, B)
  BY <1>2, <1>3 DEF NoPair, Used
<1> QED
  BY <1>2, <1>4, <1>5

\* A heap in which nothing fits grows by a block that does.
LEMMA GrowFits ==
  ASSUME NEW h, NEW B, Tiles(h, B), NoPair(h, B), NEW n \in Nat \ {0},
         \A b \in B : ~Fits(h, b, n), Sbrk(h.end, Growth(h, n)) # h.end,
         NEW g, g = Grow(h, n)
  PROVE  /\ Tiles(g, B \cup {g.end - n}) /\ NoPair(g, B \cup {g.end - n}) /\ g.nf = h.nf
         /\ g.hdr[g.end - n] = PACK(n, FREE)
         /\ Used(g, B \cup {g.end - n}) = Used(h, B)
         /\ \A x \in Used(h, B) : g.hdr[x] = h.hdr[x]
<1> DEFINE last == h.ftr[h.end]
           s == IF last.status = FREE THEN last.size ELSE 0
           e == Sbrk(h.end, n - s)
           a == h.end - s
           C == B \cup {a}
<1>1. /\ h.end \in Nat /\ Limit \in Nat /\ h.end <= Limit - 2 /\ last \in Tag /\ h \in Heaps
  BY TilesFacts
<1>2. /\ s \in Nat /\ s < n /\ a \in B \cup {h.end} /\ \A c \in B : c <= a
      /\ \A x \in B : After(h, x) = a => h.hdr[x].status = ALLOC
      /\ a \in B => h.hdr[a].status = FREE
  <2>1. CASE last.status = FREE
    <3>1. h.end # 0
      BY <2>1, TagStates DEF Tiles, PACK
    <3>2. PICK b \in B : After(h, b) = h.end /\ h.hdr[b] = last /\ b = h.end - last.size
      BY <3>1, Before
    <3>3. a = b /\ s = h.hdr[b].size
      BY <2>1, <3>2
    <3>4. s \in Nat /\ b \in Nat /\ b < h.end /\ \A c \in B : c \in Nat /\ c < h.end
      BY <3>2, <3>3, TilesFacts
    <3>5. s < n
      BY <2>1, <3>2, <3>3, <3>4 DEF Fits
    <3>6. \A c \in B : c <= b
      BY <1>1, <3>2, <3>4 DEF Tiles
    <3>7. ASSUME NEW x \in B, After(h, x) = b
          PROVE  h.hdr[x].status = ALLOC
      <4>1. h.hdr[x].status \in {FREE, ALLOC}
        BY TilesFacts
      <4> QED
        BY <2>1, <3>2, <3>7, <4>1, TagStates DEF NoPair
    <3> HIDE DEF s, a
    <3> QED
      BY <2>1, <3>2, <3>3, <3>4, <3>5, <3>6, <3>7
  <2>2. CASE last.status # FREE
    <3>1. s = 0 /\ a = h.end
      BY <1>1, <2>2
    <3>2. ASSUME NEW x \in B
          PROVE  x <= h.end /\ x # h.end /\ (After(h, x) = h.end => h.hdr[x].status = ALLOC)
      <4>1. x \in Nat /\ x < h.end /\ h.hdr[x].status \in {FREE, ALLOC}
        BY TilesFacts
      <4>2. h.ftr[After(h, x)] = h.hdr[x]
        BY DEF Tiles
      <4> QED
        BY <1>1, <2>2, <4>1, <4>2
    <3> HIDE DEF s, a
    <3> QED
      BY <3>1, <3>2
  <2> QED
    BY <2>1, <2>2
<1>3. Growth(h, n) = n - s
  BY DEF Growth
<1>4. e = h.end + (n - s) /\ e \in Int /\ h.end < e /\ e <= Limit - 2 /\ e - n = a /\ e - a = n
  <2>1. n - s \in Int /\ n - s > 0
    BY <1>2
  <2>2. e = h.end + (n - s) /\ h.end + (n - s) + 1 < Limit
    BY <1>3 DEF Sbrk
  <2> HIDE DEF s, e
  <2> QED
    BY <1>1, <1>2, <2>1, <2>2
<1>5. g = Mark(EndSentinel(h, e), a, e - a, FREE)
  <2>1. g = Mark(EndSentinel(h, e), e - n, n, FREE)
    BY <1>3 DEF Grow
  <2> HIDE DEF e, a
  <2> QED
    BY <1>4, <2>1
<1> HIDE DEF e, a, s
<1>6. Grown(g, h, B, a, e)
  BY <1>2, <1>4, <1>5, GrowTiles
<1>7. /\ Tiles(g, C) /\ g.end = e /\ g.nf = h.nf
      /\ g.hdr[a] = PACK(n, FREE) /\ After(g, a) = e
      /\ \A x \in B : x # a => g.hdr[x] = h.hdr[x]
  BY <1>4, <1>6 DEF Grown
<1>8. g.end - n = a
  BY <1>4, <1>7
<1>9. g.hdr[a].status = FREE
  BY <1>7 DEF PACK
<1>10. NoPair(g, C)
  <2>1. ASSUME NEW x \in B, x # a, g.hdr[x].status = FREE
        PROVE  g.hdr[After(g, x)].status = ALLOC
    <3>1. h.hdr[x].status = FREE /\ After(g, x) = After(h, x)
      BY <1>7, <2>1 DEF After
    <3>2. h.hdr[After(h, x)].status = ALLOC /\ After(h, x) \in B \cup {h.end} /\ After(h, x) # a
      BY <1>2, <3>1, TagStates DEF NoPair, Tiles
    <3>3. After(h, x) \in B
      <4>1. CASE After(h, x) = h.end
        <5>1. a \in B
          BY <1>2, <3>2, <4>1
        <5>2. a <= x \/ After(h, x) <= a
          BY <5>1 DEF Tiles
        <5>3. x <= a
          BY <1>2
        <5>4. a \in Nat /\ a < h.end /\ x \in Nat
          BY <5>1, TilesFacts
        <5> QED
          BY <1>1, <2>1, <4>1, <5>2, <5>3, <5>4
      <4> QED
        BY <3>2, <4>1
    <3> QED
      BY <1>7, <3>1, <3>2, <3>3
  <2>2. g.hdr[After(g, a)].status = ALLOC
    BY <1>7 DEF Tiles, PACK
  <2> QED
    BY <2>1, <2>2 DEF NoPair
<1>11. a \notin Used(h, B)
  BY <1>2, TagStates DEF Used
<1>12. Used(g, C) = Used(h, B)
  BY <1>7, <1>9, <1>11, TagStates DEF Used
<1>13. \A x \in Used(h, B) : g.hdr[x] = h.hdr[x]
  BY <1>7, <1>11 DEF Used
<1> QED
  BY <1>7, <1>8, <1>10, <1>12, <1>13

\* mm_malloc adds a block of n units, whether it was found or made by growing.
LEMMA MallocGains ==
  ASSUME NEW h, NEW B, Sound(h, B), ap \in Policies, NEW n \in Nat \ {0}, Enough(h, n),
         NEW m, m = Malloc(h, n)
  PROVE  \E C : Sound(m.heap, C) /\ Gained(h, B, m.heap, C, m.block, n)
<1> DEFINE search == get_free_block(h, n)
           looked == [h EXCEPT !.nf = search.nf]
           grown  == Grow(looked, n)
<1>1. Tiles(h, B) /\ NoPair(h, B) /\ h.nf \in {NULL, 0} \cup Used(h, B)
  BY DEF Sound
<1>2. /\ search.block = NULL \/ (search.block \in B /\ Fits(h, search.block, n))
      /\ search.block = NULL => \A b \in B : ~Fits(h, b, n)
      /\ search.nf \in {h.nf, 0, search.block}
  BY SearchFinds DEF Found
<1>3. m = IF search.block # NULL
          THEN [block |-> search.block, heap |-> Place(looked, search.block, n)]
          ELSE [block |-> grown.end - n, heap |-> Place(grown, grown.end - n, n)]
  BY DEF Malloc
<1>4. search.block # NULL \/ Sbrk(h.end, Growth(h, n)) # h.end
  BY DEF Enough
<1> HIDE DEF search
<1>5. search.nf \in Int
  BY <1>1, <1>2, TilesFacts DEF NULL
<1>6. /\ Tiles(looked, B) /\ NoPair(looked, B) /\ looked.nf = search.nf /\ looked.end = h.end
      /\ looked.hdr = h.hdr /\ looked.ftr = h.ftr /\ Used(looked, B) = Used(h, B)
  BY <1>1, <1>5, NfTiles
<1> HIDE DEF looked
<1>7. CASE search.block # NULL
  <2> DEFINE b == search.block
             g == m.heap
  <2>1. m.block = b /\ g = Place(looked, b, n) /\ b \in B
    BY <1>2, <1>3, <1>7
  <2>2. looked.hdr[b].status = FREE /\ n <= looked.hdr[b].size
    <3>1. h.hdr[b].size \in Nat /\ Fits(h, b, n)
      BY <1>1, <1>2, <1>7, <2>1, TilesFacts
    <3> QED
      BY <1>6, <3>1 DEF Fits
  <2> HIDE DEF b, g
  <2>3. PICK C : /\ Tiles(g, C) /\ NoPair(g, C) /\ g.nf = looked.nf
                 /\ Gained(looked, B, g, C, b, n)
    BY <1>6, <2>1, <2>2, PlaceGains
  <2>4. Gained(h, B, g, C, b, n)
    BY <1>6, <2>3 DEF Gained
  <2>5. g.nf \in {NULL, 0} \cup Used(g, C)
    <3>1. g.nf \in {h.nf, 0, b} /\ Used(g, C) = Used(h, B) \cup {b}
      BY <1>2, <1>6, <2>3, <2>4 DEF b, Gained
    <3> QED
      BY <1>1, <3>1
  <2>6. Sound(g, C)
    BY <2>3, <2>5 DEF Sound
  <2> QED
    BY <2>1, <2>4, <2>6 DEF g
<1>8. CASE search.block = NULL
  <2> DEFINE b == grown.end - n
             g == m.heap
             D == B \cup {b}
  <2>1. m.block = b /\ g = Place(grown, b, n)
    BY <1>3, <1>8
  <2>2. \A x \in B : ~Fits(looked, x, n)
    BY <1>2, <1>6, <1>8 DEF Fits
  <2>3. Sbrk(looked.end, Growth(looked, n)) # looked.end
    BY <1>4, <1>6, <1>8 DEF Growth
  <2> HIDE DEF grown
  <2>4. /\ Tiles(grown, D) /\ NoPair(grown, D) /\ grown.nf = looked.nf
        /\ grown.hdr[b] = PACK(n, FREE)
        /\ Used(grown, D) = Used(looked, B)
        /\ \A x \in Used(looked, B) : grown.hdr[x] = looked.hdr[x]
    BY <1>6, <2>2, <2>3, GrowFits DEF grown
  <2>5. grown.hdr[b].status = FREE /\ n <= grown.hdr[b].size /\ b \in D
    BY <2>4 DEF PACK
  <2> HIDE DEF b, g, D
  <2>6. PICK C : /\ Tiles(g, C) /\ NoPair(g, C) /\ g.nf = grown.nf
                 /\ Gained(grown, D, g, C, b, n)
    BY <2>1, <2>4, <2>5, PlaceGains
  <2>7. Gained(h, B, g, C, b, n)
    BY <1>6, <2>4, <2>6 DEF Gained
  <2>8. g.nf \in {NULL, 0} \cup Used(g, C)
    <3>1. g.nf \in {h.nf, 0, NULL} /\ Used(g, C) = Used(h, B) \cup {b}
      BY <1>2, <1>6, <1>8, <2>4, <2>6, <2>7 DEF Gained
    <3> QED
      BY <1>1, <3>1
  <2>9. Sound(g, C)
    BY <2>6, <2>8 DEF Sound
  <2> QED
    BY <2>1, <2>7, <2>9 DEF g
<1> QED
  BY <1>7, <1>8
-----------------------------------------------------------------------------
(* Freeing.                                                                *)

\* The stretch that freeing b makes one block: b and its free neighbours.
Merging(h, B, b, a, e) ==
  /\ a \in B /\ e \in B \cup {h.end} /\ a <= b /\ b < e
  /\ \A x \in B : x \in a .. e - 1 => x = b \/ h.hdr[x].status = FREE
  /\ \A x \in B : After(h, x) = a => h.hdr[x].status = ALLOC
  /\ h.hdr[e].status = ALLOC

\* The tags of the neighbours give the stretch that a free leads to.
LEMMA MergedIs ==
  ASSUME NEW h, NEW B, Tiles(h, B), NoPair(h, B), NEW b \in B
  PROVE  LET m == Merged(h, b)
         IN  Merging(h, B, b, m.at, m.at + m.size) /\ m.size \in Nat
<1> DEFINE before == h.ftr[b]
           f == After(h, b)
           after == h.hdr[f]
           a == IF before.status = FREE THEN b - before.size ELSE b
           e == f + (IF after.status = FREE THEN after.size ELSE 0)
           m == Merged(h, b)
<1>1. /\ h.end \in Nat /\ b \in Nat /\ b \in Addresses /\ b < f /\ f \in Nat /\ f \in Addresses
      /\ h.ftr \in [Addresses -> Tag] /\ h.hdr \in [Addresses -> Tag]
  BY TilesFacts
<1>2. f \in B \cup {h.end} /\ \A x \in B : x <= b \/ f <= x
  BY DEF Tiles
<1>3. before.status \in {FREE, ALLOC} /\ after.status \in {FREE, ALLOC}
  BY <1>1 DEF Tag
<1>4. /\ a \in B /\ a <= b
      /\ \A x \in B : x \in a .. b - 1 => h.hdr[x].status = FREE
      /\ \A x \in B : After(h, x) = a => h.hdr[x].status = ALLOC
  <2>1. CASE before.status = FREE
    <3>1. b # 0
      BY <2>1, TagStates DEF Tiles, PACK
    <3>2. PICK p \in B : After(h, p) = b /\ h.hdr[p] = before /\ p = b - before.size
      BY <3>1, Before
    <3>3. a = p
      BY <2>1, <3>2
    <3>4. p < b /\ p \in Nat
      BY <3>2, TilesFacts
    <3>5. ASSUME NEW x \in B, x \in p .. b - 1
          PROVE  h.hdr[x].status = FREE
      <4>1. x <= p \/ b <= x
        BY <3>2 DEF Tiles
      <4>2. x = p
        BY <1>1, <3>4, <3>5, <4>1
      <4> QED
        BY <2>1, <3>2, <4>2
    <3>6. ASSUME NEW x \in B, After(h, x) = p
          PROVE  h.hdr[x].status = ALLOC
      <4>1. h.hdr[x].status \in {FREE, ALLOC}
        BY TilesFacts
      <4> QED
        BY <2>1, <3>2, <3>6, <4>1, TagStates DEF NoPair
    <3> HIDE DEF a
    <3> QED
      BY <1>1, <3>2, <3>3, <3>4, <3>5, <3>6
  <2>2. CASE before.status = ALLOC
    <3>1. a = b
      BY <2>2, TagStates
    <3>2. \A x \in B : After(h, x) = b => h.hdr[x] = before
      BY DEF Tiles
    <3>3. \A x : x \notin b .. b - 1
      BY <1>1
    <3>4. b <= b
      BY <1>1
    <3> HIDE DEF a, before
    <3> QED
      BY <2>2, <3>1, <3>2, <3>3, <3>4
  <2> QED
    BY <1>3, <2>1, <2>2
<1>5. /\ e \in B \cup {h.end} /\ f <= e /\ h.hdr[e].status = ALLOC
      /\ \A x \in B : x \in f .. e - 1 => h.hdr[x].status = FREE
  <2>1. CASE after.status = FREE
    <3>1. f \in B
      <4>1. f # h.end
        BY <2>1, TagStates DEF Tiles, PACK
      <4> QED
        BY <1>2, <4>1
    <3>2. e = After(h, f)
      BY <2>1 DEF After
    <3>3. e \in B \cup {h.end} /\ \A x \in B : x <= f \/ e <= x
      BY <3>1, <3>2 DEF Tiles
    <3>4. h.hdr[e].status = ALLOC
      BY <2>1, <3>1, <3>2 DEF NoPair
    <3>5. f < e /\ e \in Nat
      BY <3>1, <3>2, TilesFacts
    <3>6. ASSUME NEW x \in B, x \in f .. e - 1
          PROVE  h.hdr[x].status = FREE
      <4>1. x = f
        BY <1>1, <3>3, <3>5, <3>6
      <4> QED
        BY <2>1, <4>1
    <3> HIDE DEF e
    <3> QED
      BY <1>1, <3>3, <3>4, <3>5, <3>6
  <2>2. CASE after.status = ALLOC
    <3>1. e = f
      BY <1>1, <2>2, TagStates
    <3> HIDE DEF e
    <3> QED
      BY <1>1, <1>2, <2>2, <3>1
  <2> QED
    BY <1>3, <2>1, <2>2
<1>6. m.at = a /\ m.size = e - a
  BY DEF Merged, After
<1> HIDE DEF a, e, m
<1>7. a \in Nat /\ e \in Nat
  BY <1>1, <1>4, <1>5, TilesFacts
<1>8. Merging(h, B, b, a, e)
  <2>1. b < e
    BY <1>1, <1>5, <1>7
  <2>2. ASSUME NEW x \in B, x \in a .. e - 1
        PROVE  x = b \/ h.hdr[x].status = FREE
    <3>1. x <= b \/ f <= x
      BY <1>2
    <3>2. x \in a .. b - 1 \/ x = b \/ x \in f .. e - 1
      BY <1>1, <1>7, <2>2, <3>1
    <3> QED
      BY <1>4, <1>5, <3>2
  <2> QED
    BY <1>4, <1>5, <2>1, <2>2 DEF Merging
<1>9. m.at + m.size = e /\ m.size \in Nat
  BY <1>1, <1>4, <1>5, <1>6, <1>7
<1> QED
  BY <1>6, <1>8, <1>9 DEF m

\* g is h with a free block from a to e, whatever is inside it.
Freed(g, h, a, e) ==
  /\ g \in Heaps /\ g.end = h.end /\ g.nf = h.nf
  /\ g.hdr[a] = PACK(e - a, FREE) /\ g.ftr[e] = PACK(e - a, FREE)
  /\ g.hdr[a].size = e - a /\ After(g, a) = e
  /\ \A x \in Addresses : x < a \/ e <= x => g.hdr[x] = h.hdr[x]
  /\ \A x \in Addresses : x <= a \/ e < x => g.ftr[x] = h.ftr[x]

\* What the stores of mm_free come to.
LEMMA CoalesceIs ==
  ASSUME NEW h \in Heaps, NEW b \in Addresses, NEW a \in Addresses, NEW e \in Addresses,
         NEW f \in Addresses, a <= b, b < f, f <= e, f = After(h, b),
         Merged(h, b).at = a, Merged(h, b).size = e - a
  PROVE  Freed(Coalesce(h, b), h, a, e)
<1> DEFINE alone  == Mark(h, b, f - b, FREE)
           joined == Mark(alone, a, f - a, FREE)
           g      == Mark(joined, a, e - a, FREE)
<1>1. a \in Int /\ b \in Int /\ e \in Int /\ f \in Int /\ FREE \in {FREE, ALLOC}
  BY HeapAssumption DEF Addresses
<1>2. Coalesce(h, b) = g
  BY DEF Coalesce, After
<1>3. Marked(alone, h, b, f, FREE)
  BY <1>1, MarkTo
<1>4. alone \in Heaps
  BY <1>3 DEF Marked
<1> HIDE DEF alone
<1>5. Marked(joined, alone, a, f, FREE)
  BY <1>1, <1>4, MarkTo
<1>6. joined \in Heaps
  BY <1>5 DEF Marked
<1> HIDE DEF joined
<1>7. Marked(g, joined, a, e, FREE)
  BY <1>1, <1>6, MarkTo
<1> HIDE DEF g
<1>8. \A x \in Addresses : x < a \/ e <= x => g.hdr[x] = h.hdr[x]
  <2> SUFFICES ASSUME NEW x \in Addresses, x < a \/ e <= x
               PROVE  g.hdr[x] = h.hdr[x]
    OBVIOUS
  <2>1. x # a /\ x # b
    BY <1>1 DEF Addresses
  <2> QED
    BY <1>3, <1>5, <1>7, <2>1 DEF Marked
<1>9. \A x \in Addresses : x <= a \/ e < x => g.ftr[x] = h.ftr[x]
  <2> SUFFICES ASSUME NEW x \in Addresses, x <= a \/ e < x
               PROVE  g.ftr[x] = h.ftr[x]
    OBVIOUS
  <2>1. x # f /\ x # e
    BY <1>1 DEF Addresses
  <2> QED
    BY <1>3, <1>5, <1>7, <2>1 DEF Marked
<1> QED
  BY <1>2, <1>3, <1>5, <1>7, <1>8, <1>9 DEF Marked, Freed

\* mm_free removes one block and no other, and takes nf_curr off it.
LEMMA FreeLoses ==
  ASSUME NEW h, NEW B, Sound(h, B), NEW b \in Used(h, B), NEW g, g = Free(h, b)
  PROVE  \E C : Sound(g, C) /\ Lost(h, B, g, C, b)
<1> DEFINE free == Merged(h, b)
           a == free.at
           e == a + free.size
           f == Coalesce(h, b)
           t == Trim(f, free)
           O == Others(B, a, e)
<1>1. /\ Tiles(h, B) /\ NoPair(h, B) /\ h.nf \in {NULL, 0} \cup Used(h, B)
      /\ b \in B /\ h.hdr[b].status = ALLOC
  BY DEF Sound, Used
<1>2. Merging(h, B, b, a, e) /\ free.size \in Nat
  BY <1>1, MergedIs
<1>3. g = Recall(t, free)
  BY DEF Free
<1> HIDE DEF free
<1>4. a \in Nat /\ e \in Nat /\ free.size = e - a /\ h.end \in Nat /\ e <= h.end /\ a < e
      /\ b \in Nat /\ a \in Addresses /\ e \in Addresses
  <2>1. a \in Nat /\ a \in Addresses /\ b \in Nat /\ h.end \in Nat
    BY <1>1, <1>2, TilesFacts DEF Merging
  <2>2. e \in Nat /\ e <= h.end /\ e \in Addresses
    BY <1>1, <1>2, TilesFacts DEF Merging
  <2>3. free.size = e - a
    BY <1>2, <2>1
  <2>4. a <= b /\ b < e
    BY <1>2 DEF Merging
  <2> HIDE DEF a, e
  <2> QED
    BY <2>1, <2>2, <2>3, <2>4
<1>5. Freed(f, h, a, e)
  <2>1. h \in Heaps /\ b \in Addresses /\ After(h, b) \in Addresses /\ b < After(h, b)
    BY <1>1, TilesFacts
  <2>2. a <= b /\ After(h, b) <= e
    <3>1. a <= b /\ b < e /\ e \in B \cup {h.end}
      BY <1>2 DEF Merging
    <3>2. After(h, b) <= h.end /\ \A x \in B : x <= b \/ After(h, b) <= x
      BY <1>1, TilesFacts DEF Tiles
    <3> HIDE DEF a, e
    <3>3. CASE e = h.end
      BY <3>1, <3>2, <3>3
    <3>4. CASE e \in B
      BY <1>4, <3>1, <3>2, <3>4
    <3> QED
      BY <3>1, <3>3, <3>4
  <2>3. Merged(h, b).at = a /\ Merged(h, b).size = e - a
    BY <1>4 DEF free
  <2> HIDE DEF a, e
  <2> QED
    BY <1>4, <2>1, <2>2, <2>3, CoalesceIs
<1> HIDE DEF e, f
<1>6. Tiles(f, O \cup {a})
  <2> DEFINE S == {a}
  <2>1. a \in B /\ e \in B \cup {h.end}
    BY <1>2 DEF Merging
  <2>2. \A x \in B \cup {0, h.end} : x \in Addresses /\ x \in Nat
    BY <1>1, TilesFacts
  <2> HIDE DEF a
  <2>3. S \subseteq a .. e - 1 /\ a \in S
    BY <1>4
  <2>4. \A x \in S : /\ f.hdr[x].size > 0 /\ After(f, x) \in S \cup {e}
                     /\ f.ftr[After(f, x)] = f.hdr[x]
                     /\ \A y \in S : y <= x \/ After(f, x) <= y
    BY <1>4, <1>5 DEF Freed
  <2> HIDE DEF S
  <2>5. Retiled(f, h, B, a, e, S)
    BY <1>4, <1>5, <2>2, <2>3, <2>4 DEF Freed, Retiled
  <2>6. Tiles(f, O \cup S)
    BY <1>1, <2>1, <2>5, Retile
  <2> QED
    BY <2>6 DEF S
<1>7. /\ Tiles(f, O \cup {a}) /\ f.end = h.end /\ f.nf = h.nf
      /\ f.hdr[a] = PACK(e - a, FREE) /\ After(f, a) = e
      /\ \A x \in Addresses : x < a \/ e <= x => f.hdr[x] = h.hdr[x]
  BY <1>5, <1>6 DEF Freed
<1>8. /\ \A x \in O : /\ x \in B /\ x \notin a .. e - 1 /\ f.hdr[x] = h.hdr[x]
                      /\ After(f, x) = After(h, x)
                      /\ After(h, x) = a \/ f.hdr[After(h, x)] = h.hdr[After(h, x)]
      /\ f.hdr[e] = h.hdr[e]
  <2>1. a \in B /\ e \in B \cup {h.end}
    BY <1>2 DEF Merging
  <2> HIDE DEF a
  <2> QED
    BY <1>1, <1>4, <1>7, <2>1, OthersStay
<1>9. Used(h, B) \ {b} = {x \in O : f.hdr[x].status = ALLOC}
  <2>1. ASSUME NEW x \in B
        PROVE  x \in O \/ x = b \/ h.hdr[x].status = FREE
    <3>1. x \in Nat
      BY <1>1, TilesFacts
    <3>2. x \in O \/ x \in a .. e - 1
      BY <1>4, <3>1 DEF Others
    <3> QED
      BY <1>2, <3>2 DEF Merging
  <2>2. b \notin O
    BY <1>2, <1>4 DEF Others, Merging
  <2> QED
    BY <1>8, <2>1, <2>2, TagStates DEF Used
<1>10. ASSUME NEW x \in O, f.hdr[x].status = FREE
       PROVE  After(f, x) # a /\ f.hdr[After(f, x)].status = ALLOC
  BY <1>1, <1>2, <1>8, <1>10, TagStates DEF Merging, NoPair
<1>11. f.hdr[a].status = FREE
  BY <1>7 DEF PACK
\* The heap after Trim, and its blocks.
<1>12. PICK C : /\ Tiles(t, C) /\ NoPair(t, C) /\ t.nf = h.nf /\ t.end <= h.end
                /\ Used(t, C) = Used(h, B) \ {b}
                /\ \A x \in Used(t, C) : t.hdr[x] = h.hdr[x]
  <2>1. CASE e = f.end
    <3> DEFINE C == O
    <3>1. t = EndSentinel(f, a)
      <4>1. t = EndSentinel(f, Sbrk(f.end, -free.size))
        BY <2>1 DEF Trim, e
      <4>2. f.end + (-free.size) = a
        BY <1>4, <2>1
      <4>3. a + 1 < Limit /\ 0 <= a + 2
        BY <1>1, <1>4, TilesFacts
      <4> HIDE DEF a, t
      <4>4. Sbrk(f.end, -free.size) = a
        BY <4>2, <4>3 DEF Sbrk
      <4> QED
        BY <4>1, <4>4
    <3> HIDE DEF a, t
    <3>2. a \notin O
      BY <1>4 DEF Others
    <3>3. Trimmed(t, f, O \cup {a}, a)
      BY <1>7, <2>1, <3>1, TrimTiles
    <3>4. (O \cup {a}) \ {a} = O
      BY <3>2
    <3>5. /\ Tiles(t, O) /\ t.end = a /\ t.nf = h.nf
          /\ \A x \in O : t.hdr[x] = f.hdr[x]
      BY <1>7, <3>2, <3>3, <3>4 DEF Trimmed
    <3>6. NoPair(t, O)
      <4>1. ASSUME NEW x \in O, t.hdr[x].status = FREE
            PROVE  t.hdr[After(t, x)].status = ALLOC
        <5>1. f.hdr[x].status = FREE /\ After(t, x) = After(f, x)
          BY <3>5, <4>1 DEF After
        <5>2. After(f, x) # a /\ f.hdr[After(f, x)].status = ALLOC
          BY <1>10, <5>1
        <5>3. After(t, x) \in O \cup {a}
          BY <3>5 DEF Tiles
        <5> QED
          BY <3>5, <5>1, <5>2, <5>3
      <4> QED
        BY <4>1 DEF NoPair
    <3>7. Used(t, O) = Used(h, B) \ {b}
      BY <1>9, <3>5 DEF Used
    <3>8. \A x \in Used(t, O) : t.hdr[x] = h.hdr[x]
      BY <1>8, <3>5 DEF Used
    <3> QED
      BY <1>4, <3>5, <3>6, <3>7, <3>8
  <2>2. CASE e # f.end
    <3>1. t = f
      BY <2>2 DEF Trim, e
    <3>2. NoPair(f, O \cup {a})
      BY <1>2, <1>7, <1>8, <1>10 DEF NoPair, Merging
    <3>3. Used(f, O \cup {a}) = Used(h, B) \ {b}
      BY <1>9, <1>11, TagStates DEF Used
    <3>4. \A x \in Used(f, O \cup {a}) : f.hdr[x] = h.hdr[x]
      BY <1>8, <1>11, TagStates DEF Used
    <3> DEFINE D == O \cup {a}
    <3>5. f.end <= h.end /\ Tiles(f, D) /\ f.nf = h.nf
      BY <1>4, <1>7
    <3>6. NoPair(f, D) /\ Used(f, D) = Used(h, B) \ {b} /\ \A x \in Used(f, D) : f.hdr[x] = h.hdr[x]
      BY <3>2, <3>3, <3>4
    <3> HIDE DEF a, t, D
    <3> QED
      BY <3>1, <3>5, <3>6
  <2> QED
    BY <2>1, <2>2
<1> HIDE DEF t
<1> DEFINE back == t.nf # NULL /\ (t.nf >= t.end \/ t.nf \in a .. e - 1)
<1>13. g = IF back THEN [t EXCEPT !.nf = 0] ELSE t
  <2> DEFINE l == a + free.size - 1
  <2>1. l = e - 1
    BY <1>4
  <2>2. g = IF t.nf # NULL /\ (t.nf >= t.end \/ t.nf \in a .. l) THEN [t EXCEPT !.nf = 0] ELSE t
    BY <1>3 DEF Recall
  <2> HIDE DEF l, a
  <2> QED
    BY <2>1, <2>2
<1>14. CASE ~back /\ g = t
  <2>1. t.nf # b \/ t.nf = NULL
    <3>1. b \in a .. e - 1
      BY <1>2, <1>4 DEF Merging
    <3> QED
      BY <1>14, <3>1
  <2>2. b # NULL
    BY <1>4, TagStates
  <2>3. t.nf \in {NULL, 0} \cup Used(t, C)
    BY <1>1, <1>12, <2>1, <2>2
  <2>4. Sound(g, C)
    BY <1>12, <1>14, <2>3 DEF Sound
  <2> QED
    BY <1>12, <1>14, <2>4 DEF Lost
<1>15. CASE back /\ g = [t EXCEPT !.nf = 0]
  <2>1. /\ Tiles(g, C) /\ NoPair(g, C) /\ g.nf = 0 /\ g.hdr = t.hdr
        /\ Used(g, C) = Used(t, C)
    BY <1>12, <1>15, NfTiles
  <2>2. Sound(g, C)
    BY <2>1 DEF Sound
  <2> QED
    BY <1>12, <2>1, <2>2 DEF Lost
<1> HIDE DEF back
<1> QED
  BY <1>13, <1>14, <1>15

\* What mm_realloc keeps of a block that ends at e, or that a free one up to e
\* follows.
LEMMA CutResizes ==
  ASSUME NEW h, NEW B, Sound(h, B), NEW b \in Used(h, B),
         NEW e \in B \cup {h.end}, b < e,
         \A x \in B : x \in b + 1 .. e - 1 => h.hdr[x].status = FREE,
         NEW n \in Nat \ {0}, b + n <= e, NEW g, g = Cut(h, b, n, e)
  PROVE  \E C : Sound(g, C) /\ Resized(h, B, g, C, b, n)
<1> DEFINE O == Others(B, b, e)
           m == b + n
<1>1. /\ Tiles(h, B) /\ NoPair(h, B) /\ h.nf \in {NULL, 0} \cup Used(h, B)
      /\ b \in B /\ h.hdr[b].status = ALLOC
  BY DEF Sound, Used
<1>2. /\ b \in Nat /\ e \in Nat /\ b \in Addresses /\ e \in Addresses /\ Limit \in Nat
      /\ h.end \in Nat /\ e <= h.end
  BY <1>1, TilesFacts
<1>3. m \in Nat /\ b < m /\ m - b = n /\ m <= e
  BY <1>2
<1>4. ALLOC \in {FREE, ALLOC}
  OBVIOUS
<1>5. \A x \in Used(h, B) : x = b \/ x \in O
  <2>1. ASSUME NEW x \in Used(h, B), x # b
        PROVE  x \in O
    <3>1. x \in B /\ x \in Nat /\ h.hdr[x].status = ALLOC
      BY <1>1, TilesFacts DEF Used
    <3>2. x \notin b + 1 .. e - 1
      BY <3>1, TagStates
    <3> QED
      BY <1>2, <2>1, <3>1, <3>2 DEF Others
  <2> QED
    BY <2>1
<1>6. \A x \in O : x \in B /\ x # b
  BY <1>2 DEF Others
<1>7. CASE m = e
  <2> DEFINE C == O \cup {b}
  <2>1. g = Mark(h, b, e - b, ALLOC)
    BY <1>3, <1>7 DEF Cut
  <2>2. OneMade(g, h, B, b, e, ALLOC)
    BY <1>1, <1>2, <1>4, <2>1, OneBlock
  <2>3. /\ Tiles(g, C) /\ g.end = h.end /\ g.nf = h.nf
        /\ g.hdr[b] = PACK(n, ALLOC) /\ After(g, b) = e
        /\ \A x \in Addresses : x # b => g.hdr[x] = h.hdr[x]
    BY <1>3, <1>7, <2>2 DEF OneMade
  <2>4. g.hdr[b].status = ALLOC
    BY <2>3 DEF PACK
  <2>5. \A x \in O : /\ g.hdr[x] = h.hdr[x] /\ After(g, x) = After(h, x)
                     /\ After(h, x) = b \/ g.hdr[After(h, x)] = h.hdr[After(h, x)]
    <3>1. \A x \in Addresses : x < b \/ e <= x => g.hdr[x] = h.hdr[x]
      BY <1>2, <2>3
    <3> QED
      BY <1>1, <3>1, OthersStay
  <2>6. NoPair(g, C)
    <3>1. ASSUME NEW x \in O, g.hdr[x].status = FREE
          PROVE  g.hdr[After(g, x)].status = ALLOC
      <4>1. h.hdr[After(h, x)].status = ALLOC
        BY <1>1, <1>6, <2>5, <3>1 DEF NoPair
      <4> QED
        BY <2>4, <2>5, <4>1
    <3> QED
      BY <2>4, <3>1, TagStates DEF NoPair
  <2>7. Used(g, C) = Used(h, B)
    BY <1>1, <1>5, <1>6, <2>4, <2>5 DEF Used
  <2>8. Sound(g, C)
    BY <1>1, <2>3, <2>6, <2>7 DEF Sound
  <2>9. Resized(h, B, g, C, b, n)
    BY <1>5, <2>3, <2>5, <2>7 DEF Resized
  <2> QED
    BY <2>8, <2>9
<1>8. CASE m # e
  <2> DEFINE C == O \cup {b, m}
             f == Mark(Mark(h, b, n, ALLOC), m, e - m, ALLOC)
  <2>0. m < e /\ m \in Addresses /\ m \in Int /\ b # m
    BY <1>2, <1>3, <1>8 DEF Addresses
  <2>1. g = Free(f, m)
    BY <1>8 DEF Cut
  <2>2. f = Mark(Mark(h, b, m - b, ALLOC), m, e - m, ALLOC)
    BY <1>3
  <2> HIDE DEF f
  <2>3. TwoMade(f, h, B, b, m, e, ALLOC, ALLOC)
    BY <1>1, <1>3, <1>4, <2>0, <2>2, TwoBlocks
  <2>4. /\ Tiles(f, C) /\ f.end = h.end /\ f.nf = h.nf
        /\ f.hdr[b] = PACK(n, ALLOC) /\ After(f, b) = m
        /\ f.hdr[m] = PACK(e - m, ALLOC) /\ After(f, m) = e
        /\ \A x \in Addresses : x # b /\ x # m => f.hdr[x] = h.hdr[x]
    BY <1>3, <2>3 DEF TwoMade
  <2>5. f.hdr[b].status = ALLOC /\ f.hdr[m].status = ALLOC
    BY <2>4 DEF PACK
  <2>6. \A x \in O : /\ f.hdr[x] = h.hdr[x] /\ After(f, x) = After(h, x)
                     /\ After(h, x) = b \/ f.hdr[After(h, x)] = h.hdr[After(h, x)]
    <3>1. \A x \in Addresses : x < b \/ e <= x => f.hdr[x] = h.hdr[x]
      BY <1>2, <1>3, <2>0, <2>4
    <3> QED
      BY <1>1, <3>1, OthersStay
  <2>7. NoPair(f, C)
    <3>1. ASSUME NEW x \in O, f.hdr[x].status = FREE
          PROVE  f.hdr[After(f, x)].status = ALLOC
      <4>1. h.hdr[After(h, x)].status = ALLOC
        BY <1>1, <1>6, <2>6, <3>1 DEF NoPair
      <4> QED
        BY <2>5, <2>6, <4>1
    <3> QED
      BY <2>5, <3>1, TagStates DEF NoPair
  <2>8. m \notin O
    BY <1>2, <1>3, <2>0 DEF Others
  <2>9. Used(f, C) = Used(h, B) \cup {m} /\ m \notin Used(h, B)
    <3>1. \A x \in O : x \in Used(f, C) <=> x \in Used(h, B)
      BY <1>6, <2>6 DEF Used
    <3>2. b \in Used(f, C) /\ m \in Used(f, C) /\ Used(f, C) \subseteq C
      BY <2>5 DEF Used
    <3> QED
      BY <1>5, <2>0, <2>8, <3>1, <3>2
  <2>10. Sound(f, C)
    BY <1>1, <2>4, <2>7, <2>9 DEF Sound
  <2>11. PICK D : Sound(g, D) /\ Lost(f, C, g, D, m)
    BY <2>1, <2>9, <2>10, FreeLoses
  <2>12. Used(g, D) = Used(h, B)
    BY <2>9, <2>11 DEF Lost
  <2>13. Resized(h, B, g, D, b, n)
    BY <1>5, <2>4, <2>6, <2>11, <2>12 DEF Lost, Resized
  <2> QED
    BY <2>11, <2>13
<1> QED
  BY <1>7, <1>8
-----------------------------------------------------------------------------
(* The interface.                                                          *)

\* Every request needs at least one unit.
LEMMA SizeIsPositive ==
  ASSUME NEW bytes \in Requests
  PROVE  BlockSize(bytes) \in Nat \ {0}
<1>1. bytes \in Nat \ {0}
  BY HeapAssumption
<1> QED
  BY <1>1 DEF BlockSize

\* The client's data in a block it holds change no tag.
LEMMA FillSound ==
  ASSUME NEW h, NEW B, Sound(h, B), NEW b \in B, NEW n, h.hdr[b] = PACK(n, ALLOC),
         NEW g, g = Fill(h, b, n)
  PROVE  Sound(g, B) /\ Used(g, B) = Used(h, B) /\ \A x \in B : g.hdr[x] = h.hdr[x]
<1>1. Tiles(h, B) /\ NoPair(h, B) /\ h.nf \in {NULL, 0} \cup Used(h, B)
  BY DEF Sound
<1>2. h.hdr[b].size = n
  BY DEF PACK
<1>3. /\ Tiles(g, B) /\ g.end = h.end /\ g.nf = h.nf
      /\ \A x \in B : g.hdr[x] = h.hdr[x] /\ After(g, x) = After(h, x)
      /\ g.hdr[h.end] = h.hdr[h.end]
  BY <1>1, <1>2, FillKeeps
<1>4. NoPair(g, B)
  <2>1. \A x \in B : After(h, x) \in B \cup {h.end}
    BY <1>1 DEF Tiles
  <2> QED
    BY <1>1, <1>3, <2>1 DEF NoPair
<1>5. Used(g, B) = Used(h, B)
  BY <1>3 DEF Used
<1> QED
  BY <1>1, <1>3, <1>4, <1>5 DEF Sound

\* The same of mm_malloc with the client's data in the block.
LEMMA mm_mallocGains ==
  ASSUME NEW h, NEW B, Sound(h, B), ap \in Policies, NEW bytes \in Requests,
         Enough(h, BlockSize(bytes)), NEW m, m = mm_malloc(h, bytes)
  PROVE  \E C : Sound(m.heap, C) /\ Gained(h, B, m.heap, C, m.block, BlockSize(bytes))
<1> DEFINE n == BlockSize(bytes)
           k == Malloc(h, n)
<1>1. n \in Nat \ {0}
  BY SizeIsPositive
<1>2. m.block = k.block /\ m.heap = Fill(k.heap, k.block, n)
  BY DEF mm_malloc
<1> HIDE DEF n
<1>3. PICK C : Sound(k.heap, C) /\ Gained(h, B, k.heap, C, k.block, n)
  BY <1>1, MallocGains DEF n
<1> HIDE DEF k
<1>4. k.block \in C /\ k.heap.hdr[k.block] = PACK(n, ALLOC)
  BY <1>3 DEF Gained
<1>5. /\ Sound(m.heap, C) /\ Used(m.heap, C) = Used(k.heap, C)
      /\ \A x \in C : m.heap.hdr[x] = k.heap.hdr[x]
  BY <1>2, <1>3, <1>4, FillSound
<1>6. Used(h, B) \subseteq C
  BY <1>3 DEF Gained, Used
<1>7. Gained(h, B, m.heap, C, m.block, n)
  BY <1>2, <1>3, <1>5, <1>6 DEF Gained
<1> QED
  BY <1>5, <1>7 DEF n

\* After mm_realloc the blocks in use are those before, less the old one and
\* with the new one, which has the size asked for.
LEMMA mm_reallocMoves ==
  ASSUME NEW h, NEW B, Sound(h, B), ap \in Policies, NEW bytes \in Requests,
         NEW b \in Used(h, B), RoomFor(h, b, bytes),
         NEW r, r = mm_realloc(h, b, bytes)
  PROVE  \E C : /\ Sound(r.heap, C)
                /\ Used(r.heap, C) = (Used(h, B) \ {b}) \cup {r.block}
                /\ r.block \notin Used(h, B) \ {b}
                /\ r.heap.hdr[r.block].size = BlockSize(bytes)
                /\ \A x \in Used(h, B) \ {b} : r.heap.hdr[x].size = h.hdr[x].size
<1> DEFINE n == BlockSize(bytes)
           size == h.hdr[b].size
           f == After(h, b)
           moved == mm_malloc(h, bytes)
<1>1. n \in Nat \ {0} /\ Tiles(h, B) /\ b \in B /\ NoPair(h, B)
  BY SizeIsPositive DEF Sound, Used
<1>2. /\ size \in Nat /\ b \in Nat /\ f = b + size /\ b < f /\ f \in Nat
      /\ f \in B \cup {h.end} /\ \A x \in B : x <= b \/ f <= x
  <2>1. /\ size \in Nat /\ b \in Nat /\ b < f /\ f \in Nat
    BY <1>1, TilesFacts
  <2>2. f \in B \cup {h.end} /\ \A x \in B : x <= b \/ f <= x
    BY <1>1 DEF Tiles
  <2> QED
    BY <2>1, <2>2 DEF After
\* The stretch that can be used in place.
<1>3. PICK e \in B \cup {h.end} :
        /\ e = b + InPlace(h, b) /\ f <= e /\ InPlace(h, b) \in Nat
        /\ \A x \in B : x \in b + 1 .. e - 1 => h.hdr[x].status = FREE
  <2>1. CASE h.hdr[f].status = FREE
    <3>1. f \in B
      <4>1. f # h.end
        BY <1>1, <2>1, TagStates DEF Tiles, PACK
      <4> QED
        BY <1>2, <4>1
    <3>2. InPlace(h, b) = size + h.hdr[f].size
      BY <1>2, <2>1 DEF InPlace
    <3>3. h.hdr[f].size \in Nat /\ After(h, f) = f + h.hdr[f].size
      BY <1>1, <3>1, TilesFacts DEF After
    <3>4. After(h, f) \in B \cup {h.end} /\ \A x \in B : x <= f \/ After(h, f) <= x
      BY <1>1, <3>1 DEF Tiles
    <3>5. After(h, f) = b + InPlace(h, b) /\ f <= After(h, f) /\ InPlace(h, b) \in Nat
      BY <1>2, <3>2, <3>3
    <3>6. ASSUME NEW x \in B, x \in b + 1 .. After(h, f) - 1
          PROVE  h.hdr[x].status = FREE
      <4>1. x = f
        BY <1>2, <3>3, <3>4, <3>6
      <4> QED
        BY <2>1, <4>1
    <3> HIDE DEF f
    <3> QED
      BY <3>4, <3>5, <3>6
  <2>2. CASE h.hdr[f].status # FREE
    <3>1. InPlace(h, b) = size
      BY <1>2, <2>2 DEF InPlace
    <3>2. \A x \in B : x \notin b + 1 .. f - 1
      BY <1>2
    <3>3. f = b + InPlace(h, b) /\ f <= f /\ InPlace(h, b) \in Nat
      BY <1>2, <3>1
    <3> HIDE DEF f
    <3> QED
      BY <1>2, <3>2, <3>3
  <2> QED
    BY <2>1, <2>2
<1>4. r = CASE n = size -> [block |-> b, heap |-> h]
            [] n < size -> [block |-> b, heap |-> Fill(Cut(h, b, n, b + size), b, n)]
            [] n > size /\ n <= InPlace(h, b) ->
                 [block |-> b, heap |-> Fill(Cut(h, b, n, b + InPlace(h, b)), b, n)]
            [] OTHER -> [block |-> moved.block, heap |-> mm_free(moved.heap, b)]
  BY DEF mm_realloc
<1>5. CASE n = size
  <2>1. r.block = b /\ r.heap = h
    <3>1. ~(n < size) /\ ~(n > size)
      BY <1>1, <1>2, <1>5
    <3> HIDE DEF n, size, moved
    <3> QED
      BY <1>4, <1>5, <3>1
  <2>2. /\ Used(r.heap, B) = (Used(h, B) \ {b}) \cup {r.block}
        /\ r.block \notin Used(h, B) \ {b}
        /\ r.heap.hdr[r.block].size = n
        /\ \A x \in Used(h, B) \ {b} : r.heap.hdr[x].size = h.hdr[x].size
        /\ Sound(r.heap, B)
    BY <1>5, <2>1
  <2> HIDE DEF n
  <2> QED
    BY <2>2 DEF n
\* In place: the new end is e or the old one.
<1>6. ASSUME NEW l \in B \cup {h.end}, b < l, b + n <= l,
             \A x \in B : x \in b + 1 .. l - 1 => h.hdr[x].status = FREE,
             r.block = b, r.heap = Fill(Cut(h, b, n, l), b, n)
      PROVE  \E C : /\ Sound(r.heap, C)
                    /\ Used(r.heap, C) = (Used(h, B) \ {b}) \cup {r.block}
                    /\ r.block \notin Used(h, B) \ {b}
                    /\ r.heap.hdr[r.block].size = n
                    /\ \A x \in Used(h, B) \ {b} : r.heap.hdr[x].size = h.hdr[x].size
  <2> DEFINE cut == Cut(h, b, n, l)
             g == r.heap
  <2>1. g = Fill(cut, b, n)
    BY <1>6
  <2> HIDE DEF n
  <2>2. PICK C : Sound(cut, C) /\ Resized(h, B, cut, C, b, n)
    BY <1>1, <1>6, CutResizes
  <2> HIDE DEF cut, g
  <2>3. b \in C /\ cut.hdr[b] = PACK(n, ALLOC) /\ Used(h, B) \subseteq C
    BY <2>2 DEF Resized, Used
  <2>4. /\ Sound(g, C) /\ Used(g, C) = Used(cut, C)
        /\ \A x \in C : g.hdr[x] = cut.hdr[x]
    BY <2>1, <2>2, <2>3, FillSound
  <2>5. g.hdr[b].size = n
    BY <2>3, <2>4 DEF PACK
  <2>6. Used(g, C) = Used(h, B)
    BY <2>2, <2>4 DEF Resized
  <2>7. \A x \in Used(h, B) \ {b} : g.hdr[x].size = h.hdr[x].size
    BY <2>2, <2>3, <2>4 DEF Resized
  <2> QED
    BY <1>6, <2>4, <2>5, <2>6, <2>7 DEF g
<1>7. CASE n < size
  <2>1. r.block = b /\ r.heap = Fill(Cut(h, b, n, f), b, n)
    BY <1>1, <1>2, <1>4, <1>7
  <2>2. b + n <= f /\ \A x \in B : x \notin b + 1 .. f - 1
    BY <1>1, <1>2, <1>7
  <2> HIDE DEF f, n
  <2> QED
    BY <1>2, <1>6, <2>1, <2>2 DEF n
<1>8. CASE n > size /\ n <= InPlace(h, b)
  <2>1. r.block = b /\ r.heap = Fill(Cut(h, b, n, e), b, n)
    BY <1>1, <1>2, <1>3, <1>4, <1>8
  <2>2. b + n <= e /\ b < e
    BY <1>1, <1>2, <1>3, <1>8
  <2> HIDE DEF n
  <2> QED
    BY <1>3, <1>6, <2>1, <2>2 DEF n
<1>9. CASE n > size /\ ~(n <= InPlace(h, b))
  <2> DEFINE g == r.heap
             m == moved.heap
             c == moved.block
  <2>1. r.block = c /\ g = Free(m, b)
    BY <1>1, <1>2, <1>4, <1>9 DEF mm_free
  <2>2. Enough(h, n)
    BY <1>9 DEF RoomFor
  <2>3. PICK D : Sound(m, D) /\ Gained(h, B, m, D, c, n)
    BY <2>2, mm_mallocGains
  <2> HIDE DEF g, m, c, n
  <2>4. b \in Used(m, D) /\ b # c
    BY <2>3 DEF Gained
  <2>5. PICK C : Sound(g, C) /\ Lost(m, D, g, C, b)
    BY <2>1, <2>3, <2>4, FreeLoses
  <2>6. Used(g, C) = (Used(h, B) \ {b}) \cup {c} /\ c \notin Used(h, B) \ {b}
    BY <2>3, <2>4, <2>5 DEF Gained, Lost
  <2>7. g.hdr[c].size = n
    BY <2>3, <2>5, <2>6 DEF Gained, Lost, PACK
  <2>8. \A x \in Used(h, B) \ {b} : g.hdr[x].size = h.hdr[x].size
    BY <2>3, <2>5, <2>6 DEF Gained, Lost
  <2> QED
    BY <2>1, <2>5, <2>6, <2>7, <2>8 DEF g, n
<1>10. n = size \/ n < size \/ n > size
  BY <1>1, <1>2
<1> QED
  BY <1>5, <1>7, <1>8, <1>9, <1>10
-----------------------------------------------------------------------------
(* The block list.                                                         *)

Cell == [prev : Cells \cup {Nil}, next : Cells \cup {Nil}, ptr : Int, size : Int, live : BOOLEAN]

Live(l) == {c \in Cells : l[c].live}

\* The live cells are one chain from the head to the tail, in the order of
\* their addresses: no live cell lies between a cell and its next.
Linked(l, c) ==
  LET s == l[c].next
  IN  /\ s \in Live(l) /\ l[s].prev = c /\ l[c].ptr < l[s].ptr
      /\ \A d \in Live(l) : l[d].ptr <= l[c].ptr \/ l[s].ptr <= l[d].ptr

Chain(l) ==
  /\ l \in [Cells -> Cell]
  /\ Head_ \in Live(l) /\ l[Head_].ptr = -1
  /\ Tail_ \in Live(l) /\ l[Tail_].ptr = Beyond
  /\ \A c \in Live(l) : c \in {Head_, Tail_} \/ (-1 < l[c].ptr /\ l[c].ptr < Beyond)
  /\ \A c, d \in Live(l) : l[c].ptr = l[d].ptr => c = d
  /\ \A c \in Live(l) : c # Tail_ => Linked(l, c)

\* The types of the live cells, and where the sentinels' addresses are.
LEMMA ChainFacts ==
  ASSUME NEW l, Chain(l)
  PROVE  /\ Beyond \in Nat /\ -1 < Beyond /\ Head_ # Tail_
         /\ Head_ \in Cells /\ Tail_ \in Cells /\ Nil \notin Cells
         /\ \A c \in Live(l) : /\ c \in Cells /\ l[c] \in Cell /\ l[c].ptr \in Int
                               /\ c # Head_ => -1 < l[c].ptr
                               /\ c # Tail_ => l[c].ptr < Beyond
<1>1. Beyond \in Nat /\ -1 < Beyond
  BY BeyondAssumption
<1>2. Head_ # Tail_ /\ Head_ \in Cells /\ Tail_ \in Cells
  BY DEF Head_, Tail_, Cells
<1>3. Nil \notin Cells
  BY ListAssumption
<1>4. ASSUME NEW c \in Live(l)
      PROVE  /\ c \in Cells /\ l[c] \in Cell /\ l[c].ptr \in Int
             /\ c # Head_ => -1 < l[c].ptr
             /\ c # Tail_ => l[c].ptr < Beyond
  <2>1. c \in Cells /\ l[c] \in Cell /\ l[c].ptr \in Int
    BY DEF Live, Chain, Cell
  <2>2. CASE c \in {Head_, Tail_}
    BY <1>1, <2>1, <2>2 DEF Chain
  <2>3. CASE c \notin {Head_, Tail_}
    BY <1>1, <2>1, <2>3 DEF Chain
  <2> QED
    BY <2>1, <2>2, <2>3
<1> QED
  BY <1>1, <1>2, <1>3, <1>4

\* How far a walk of the list goes at most.
Steps == Cardinality(Nodes) + 1

\* One step of it.
Move(l, at, k) ==
  IF k = 0 THEN Head_ ELSE IF at[k - 1] = Tail_ THEN Tail_ ELSE l[at[k - 1]].next

\* There are finitely many cells.
LEMMA StepsIsNat == Steps \in Nat /\ Steps > 0 /\ Cardinality(Nodes) \in Nat
  BY ListAssumption, FS_CardinalityType DEF Steps

\* Ahead, a recursive function, is what its equation says.
LEMMA AheadIs ==
  ASSUME NEW l
  PROVE  Ahead(l) = [k \in 0 .. Steps |-> Move(l, Ahead(l), k)]
<1> DEFINE P(n) == \E f : f = [k \in 0 .. n |-> Move(l, f, k)]
           Bad == {n \in 0 .. Steps : ~P(n)}
<1>1. Steps \in Nat
  BY StepsIsNat
<1>2. Bad = {}
  <2> SUFFICES ASSUME Bad # {} PROVE FALSE
    OBVIOUS
  <2>1. PICK n \in Bad : \A m \in Bad : n <= m
    <3> HIDE DEF P
    <3>1. Bad \subseteq Nat
      BY <1>1
    <3> HIDE DEF Bad
    <3> QED
      BY <3>1, LeastNumber
  <2>2. n \in 0 .. Steps /\ ~P(n)
    BY <2>1
  <2>3. CASE n = 0
    <3> DEFINE f == [k \in 0 .. 0 |-> Head_]
    <3>1. f = [k \in 0 .. 0 |-> Move(l, f, k)]
      BY DEF Move
    <3> QED
      BY <2>2, <2>3, <3>1
  <2>4. CASE n # 0
    <3>1. n - 1 \in 0 .. Steps /\ n - 1 \notin Bad
      <4> HIDE DEF Bad
      <4>1. n - 1 \in 0 .. Steps /\ ~(n <= n - 1)
        BY <1>1, <2>2, <2>4
      <4> QED
        BY <2>1, <4>1
    <3>2. PICK f : f = [k \in 0 .. n - 1 |-> Move(l, f, k)]
      BY <3>1
    <3> DEFINE g == [k \in 0 .. n |-> IF k = n THEN Move(l, f, k) ELSE f[k]]
    <3>3. ASSUME NEW k \in 0 .. n
          PROVE  Move(l, f, k) = Move(l, g, k)
      <4>1. k # 0 => g[k - 1] = f[k - 1]
        <5>1. k # 0 => k - 1 \in 0 .. n /\ k - 1 # n
          BY <2>2
        <5> QED
          BY <5>1
      <4> HIDE DEF g
      <4> QED
        BY <4>1 DEF Move
    <3>4. ASSUME NEW k \in 0 .. n
          PROVE  g[k] = Move(l, g, k)
      <4>1. CASE k = n
        BY <3>3, <4>1
      <4>2. CASE k # n
        <5>1. k \in 0 .. n - 1
          BY <2>2, <4>2
        <5>2. g[k] = f[k]
          BY <4>2
        <5> HIDE DEF g
        <5>3. f[k] = Move(l, f, k)
          BY <3>2, <5>1
        <5> QED
          BY <3>3, <5>2, <5>3
      <4> QED
        BY <4>1, <4>2
    <3>5. g = [k \in 0 .. n |-> g[k]]
      OBVIOUS
    <3> HIDE DEF g
    <3>6. g = [k \in 0 .. n |-> Move(l, g, k)]
      BY <3>4, <3>5
    <3>7. P(n)
      BY <3>6
    <3> QED
      BY <2>2, <3>7
  <2> QED
    BY <2>3, <2>4
<1>3. P(Steps)
  BY <1>1, <1>2
<1>4. Ahead(l) = CHOOSE f : f = [k \in 0 .. Steps |-> Move(l, f, k)]
  BY DEF Ahead, Move, Steps
<1> QED
  BY <1>3, <1>4

\* The walk visits live cells, each with a larger address than the one before.
Walking(l, at) ==
  /\ DOMAIN at = 0 .. Steps /\ at[0] = Head_
  /\ \A k \in 0 .. Steps : at[k] \in Live(l)
  /\ \A k \in 1 .. Steps : at[k - 1] = Tail_ => at[k] = Tail_
  /\ \A k \in 1 .. Steps : at[k - 1] # Tail_ =>
       at[k] = l[at[k - 1]].next /\ l[at[k - 1]].ptr < l[at[k]].ptr

\* Following next never leaves the live cells.
LEMMA AheadWalks ==
  ASSUME NEW l, Chain(l)
  PROVE  Walking(l, Ahead(l))
<1> DEFINE at == Ahead(l)
           Bad == {k \in 0 .. Steps : at[k] \notin Live(l)}
<1>1. Steps \in Nat
  BY StepsIsNat
<1>2. DOMAIN at = 0 .. Steps /\ \A k \in 0 .. Steps : at[k] = Move(l, at, k)
  <2>1. at = [k \in 0 .. Steps |-> Move(l, at, k)]
    BY AheadIs
  <2> HIDE DEF at
  <2> QED
    BY <2>1
<1> HIDE DEF at
<1>3. at[0] = Head_
  BY <1>1, <1>2 DEF Move
<1>4. \A k \in 1 .. Steps : k \in 0 .. Steps /\ k - 1 \in 0 .. Steps /\ k # 0
  BY <1>1
<1>5. \A k \in 1 .. Steps : at[k] = IF at[k - 1] = Tail_ THEN Tail_ ELSE l[at[k - 1]].next
  BY <1>2, <1>4 DEF Move
<1>6. Bad = {}
  <2> SUFFICES ASSUME Bad # {} PROVE FALSE
    OBVIOUS
  <2>1. PICK n \in Bad : \A m \in Bad : n <= m
    <3>1. Bad \subseteq Nat
      BY <1>1
    <3> HIDE DEF Bad
    <3> QED
      BY <3>1, LeastNumber
  <2>2. n # 0
    BY <1>3, <2>1 DEF Chain
  <2>3. n \in 1 .. Steps /\ n - 1 \in 0 .. Steps /\ ~(n <= n - 1)
    BY <1>1, <2>1, <2>2
  <2>4. at[n - 1] \in Live(l)
    BY <2>1, <2>3
  <2>5. at[n] \in Live(l)
    BY <1>5, <2>3, <2>4 DEF Chain, Linked
  <2> QED
    BY <2>1, <2>5
<1>7. \A k \in 0 .. Steps : at[k] \in Live(l)
  BY <1>6
<1>8. ASSUME NEW k \in 1 .. Steps, at[k - 1] # Tail_
      PROVE  at[k] = l[at[k - 1]].next /\ l[at[k - 1]].ptr < l[at[k]].ptr
  <2>1. at[k - 1] \in Live(l) /\ at[k] = l[at[k - 1]].next
    BY <1>4, <1>5, <1>7, <1>8
  <2> QED
    BY <1>8, <2>1 DEF Chain, Linked
<1> QED
  BY <1>2, <1>3, <1>5, <1>7, <1>8 DEF Walking, at

\* A later cell has a larger address, up to the tail.
LEMMA WalkRises ==
  ASSUME NEW l, Chain(l), NEW at, Walking(l, at),
         NEW i \in 0 .. Steps, NEW j \in 0 .. Steps, i < j, at[j - 1] # Tail_
  PROVE  l[at[i]].ptr < l[at[j]].ptr
<1> DEFINE Bad == {n \in 0 .. Steps : i < n /\ at[n - 1] # Tail_ /\ ~(l[at[i]].ptr < l[at[n]].ptr)}
<1>1. Steps \in Nat
  BY StepsIsNat
<1>2. Bad = {}
  <2> SUFFICES ASSUME Bad # {} PROVE FALSE
    OBVIOUS
  <2>1. PICK n \in Bad : \A m \in Bad : n <= m
    <3>1. Bad \subseteq Nat
      BY <1>1
    <3> HIDE DEF Bad
    <3> QED
      BY <3>1, LeastNumber
  <2>2. n \in 1 .. Steps /\ n - 1 \in 0 .. Steps /\ ~(n <= n - 1) /\ n - 1 >= i
    BY <1>1, <2>1
  <2>3. at[n] = l[at[n - 1]].next /\ l[at[n - 1]].ptr < l[at[n]].ptr
    BY <2>1, <2>2 DEF Walking
  <2>4. CASE n - 1 = i
    BY <2>1, <2>3, <2>4
  <2>5. CASE n - 1 # i
    <3>1. i < n - 1 /\ n - 1 \in 1 .. Steps
      BY <1>1, <2>2, <2>5
    <3>2. at[(n - 1) - 1] # Tail_
      BY <2>1, <3>1 DEF Walking
    <3>3. n - 1 \notin Bad
      BY <2>1, <2>2
    <3>4. l[at[i]].ptr < l[at[n - 1]].ptr
      BY <2>2, <3>1, <3>2, <3>3
    <3>5. l[at[i]].ptr \in Int /\ l[at[n - 1]].ptr \in Int /\ l[at[n]].ptr \in Int
      <4>1. at[i] \in Live(l) /\ at[n - 1] \in Live(l) /\ at[n] \in Live(l)
        BY <2>1, <2>2 DEF Walking
      <4> QED
        BY <4>1, ChainFacts
    <3> QED
      BY <2>1, <2>3, <3>4, <3>5
  <2> QED
    BY <2>4, <2>5
<1> QED
  BY <1>2

\* The walk is long enough: it ends at the tail.
LEMMA WalkEnds ==
  ASSUME NEW l, Chain(l), NEW at, Walking(l, at)
  PROVE  \E k \in 1 .. Steps : at[k] = Tail_ /\ \A j \in 0 .. k - 1 : at[j] # Tail_
<1> DEFINE S == {k \in 0 .. Steps : at[k] = Tail_}
<1>1. Steps \in Nat /\ Steps = Cardinality(Nodes) + 1 /\ Cardinality(Nodes) \in Nat
  BY StepsIsNat DEF Steps
<1>2. S # {}
  <2> SUFFICES ASSUME \A k \in 0 .. Steps : at[k] # Tail_ PROVE FALSE
    OBVIOUS
  <2>1. ASSUME NEW k \in 1 .. Steps
        PROVE  at[k] \in Nodes
    <3>1. k \in 0 .. Steps /\ 0 \in 0 .. Steps /\ 0 < k /\ k - 1 \in 0 .. Steps
      BY <1>1
    <3>2. l[at[0]].ptr < l[at[k]].ptr
      BY <3>1, WalkRises
    <3>3. at[k] \in Live(l) /\ at[0] = Head_ /\ l[at[k]].ptr \in Int
      BY <3>1, ChainFacts DEF Walking
    <3>4. at[k] # Head_
      BY <3>2, <3>3
    <3> QED
      BY <3>1, <3>3, <3>4 DEF Live, Cells
  <2> DEFINE A == 1 .. Steps
             f == [k \in A |-> at[k]]
  <2>2. f \in [A -> Nodes]
    BY <2>1
  <2>3. IsFiniteSet(A) /\ Cardinality(A) = Steps
    BY <1>1, FS_Interval
  <2>4. Cardinality(Nodes) < Cardinality(A) /\ IsFiniteSet(Nodes)
    BY <1>1, <2>3, ListAssumption
  <2> HIDE DEF A, f
  <2>5. PICK x, y \in A : x # y /\ f[x] = f[y]
    <3>1. \E x, y \in A : x # y /\ f[x] = f[y]
      BY <2>2, <2>3, <2>4, FS_PigeonHole, ZenonT(60)
    <3> QED
      BY <3>1
  <2>6. at[x] = at[y]
    BY <2>5 DEF f, A
  <2>7. ASSUME NEW i \in 1 .. Steps, NEW j \in 1 .. Steps, i < j
        PROVE  at[i] # at[j]
    <3>1. i \in 0 .. Steps /\ j \in 0 .. Steps /\ j - 1 \in 0 .. Steps
      BY <1>1
    <3>2. l[at[i]].ptr < l[at[j]].ptr
      BY <2>7, <3>1, WalkRises
    <3>3. l[at[i]].ptr \in Int
      BY <3>1, ChainFacts DEF Walking
    <3> QED
      BY <3>2, <3>3
  <2>8. x < y \/ y < x
    BY <1>1, <2>5 DEF A
  <2> QED
    BY <2>5, <2>6, <2>7, <2>8 DEF A
<1>3. PICK k \in S : \A j \in S : k <= j
  <2>1. S \subseteq Nat
    BY <1>1
  <2> HIDE DEF S
  <2> QED
    BY <1>2, <2>1, LeastNumber
<1>4. k # 0
  BY <1>3, ChainFacts DEF Walking
<1>5. k \in 1 .. Steps /\ \A j \in 0 .. k - 1 : j \in 0 .. Steps /\ ~(k <= j)
  BY <1>1, <1>3, <1>4
<1> QED
  BY <1>3, <1>5

\* A search that the head does not pass and the tail does finds a cell that
\* passes and is next to one that does not.
LEMMA FirstIs ==
  ASSUME NEW l, Chain(l), NEW S, Tail_ \in S, Head_ \notin S
  PROVE  LET s == FirstOf(l, S)
         IN  /\ s \in S /\ s \in Live(l)
             /\ \E k \in 1 .. Steps : s = Ahead(l)[k]
             /\ \E p \in Live(l) : p \notin S /\ p # Tail_ /\ l[p].next = s
<1> DEFINE at == Ahead(l)
           K == {k \in 0 .. Steps : at[k] \in S}
           s == FirstOf(l, S)
<1>1. Steps \in Nat /\ Walking(l, at)
  BY StepsIsNat, AheadWalks
<1>2. PICK e \in 1 .. Steps : at[e] = Tail_ /\ \A j \in 0 .. e - 1 : at[j] # Tail_
  BY <1>1, WalkEnds
<1> HIDE DEF at
<1>3. PICK m \in K : \A j \in K : m <= j
  <2>1. K \subseteq Nat /\ e \in K
    BY <1>1, <1>2
  <2> HIDE DEF K
  <2> QED
    BY <2>1, LeastNumber
<1> DEFINE Q(k) == at[k] \in S /\ \A j \in 0 .. k - 1 : at[j] \notin S
<1>4. \E k \in DOMAIN at : Q(k)
  <2>1. m \in DOMAIN at /\ at[m] \in S
    BY <1>1, <1>3 DEF Walking
  <2>2. \A j \in 0 .. m - 1 : j \in 0 .. Steps /\ ~(m <= j)
    BY <1>1, <1>3
  <2>3. \A j \in 0 .. m - 1 : at[j] \notin S
    BY <1>3, <2>2
  <2> QED
    BY <2>1, <2>3
<1> DEFINE c == CHOOSE k \in DOMAIN at : Q(k)
<1>5. c \in DOMAIN at /\ Q(c)
  <2> HIDE DEF Q
  <2> QED
    BY <1>4
<1>6. s = at[c]
  BY DEF FirstOf, at
<1> HIDE DEF c, s
<1>7. c \in 0 .. Steps /\ c # 0
  BY <1>1, <1>5 DEF Walking
<1>8. c \in 1 .. Steps /\ c - 1 \in 0 .. Steps /\ c - 1 \in 0 .. c - 1
  BY <1>1, <1>7
<1>9. at[c - 1] \notin S
  BY <1>5, <1>8
<1>10. at[c - 1] \in Live(l) /\ at[c] \in Live(l) /\ (at[c - 1] # Tail_ => at[c] = l[at[c - 1]].next)
  BY <1>1, <1>7, <1>8 DEF Walking
<1> QED
  BY <1>5, <1>6, <1>8, <1>9, <1>10 DEF s, at
\* A live cell is what the search for its address finds.
LEMMA SearchIs ==
  ASSUME NEW l, Chain(l), NEW b \in Nodes, b \in Live(l)
  PROVE  /\ FirstOf(l, {c \in Cells : l[c].ptr >= l[b].ptr}) = b
         /\ \E k \in 1 .. Steps : b = Ahead(l)[k]
         /\ \E p \in Live(l) : l[p].ptr < l[b].ptr /\ p # Tail_ /\ l[p].next = b
<1> DEFINE S == {c \in Cells : l[c].ptr >= l[b].ptr}
           s == FirstOf(l, S)
<1>1. b \notin {Head_, Tail_}
  BY ListAssumption
<1>2. l[b].ptr \in Int /\ -1 < l[b].ptr /\ l[b].ptr < Beyond
  BY <1>1, ChainFacts
<1>3. Tail_ \in S /\ Head_ \notin S
  BY <1>2, ChainFacts DEF Chain
<1> HIDE DEF S
<1>4. /\ s \in S /\ s \in Live(l)
      /\ \E k \in 1 .. Steps : s = Ahead(l)[k]
      /\ \E p \in Live(l) : p \notin S /\ p # Tail_ /\ l[p].next = s
  BY <1>3, FirstIs
<1> HIDE DEF s
<1>5. PICK p \in Live(l) : p \notin S /\ p # Tail_ /\ l[p].next = s
  BY <1>4
<1>6. l[p].ptr < l[b].ptr
  BY <1>2, <1>5, ChainFacts DEF S
<1>7. l[s].ptr = l[b].ptr
  <2>1. l[b].ptr <= l[p].ptr \/ l[s].ptr <= l[b].ptr
    BY <1>5 DEF Chain, Linked
  <2>2. l[s].ptr >= l[b].ptr /\ l[s].ptr \in Int /\ l[p].ptr \in Int
    BY <1>4, ChainFacts DEF S
  <2> QED
    BY <1>2, <1>6, <2>1, <2>2
<1>8. s = b
  BY <1>4, <1>7 DEF Chain
<1> QED
  BY <1>4, <1>5, <1>6, <1>8 DEF S, s

\* The list g is l with the cell b added for the block at x.
Added(g, l, b, x, size) ==
  /\ Chain(g) /\ Live(g) = Live(l) \cup {b}
  /\ g[b].ptr = x /\ g[b].size = size
  /\ \A c \in Live(l) : g[c].ptr = l[c].ptr /\ g[c].size = l[c].size

\* insert_block links a fresh cell in where its address belongs.
LEMMA InsertIs ==
  ASSUME NEW l, Chain(l), NEW b \in Nodes, ~l[b].live,
         NEW x \in Int, -1 < x, x < Beyond, NEW size \in Int,
         \A c \in Live(l) : l[c].ptr # x
  PROVE  Added(insert_block(l, b, x, size), l, b, x, size)
<1> DEFINE S == {c \in Cells : l[c].ptr > x}
           s == FirstOf(l, S)
           g == insert_block(l, b, x, size)
<1>1. b \notin {Head_, Tail_} /\ b \in Cells /\ b \notin Live(l)
  BY ListAssumption DEF Cells, Live
<1>2. Tail_ \in S /\ Head_ \notin S
  BY ChainFacts DEF Chain
<1> HIDE DEF S
<1>3. s \in S /\ s \in Live(l) /\ \E p \in Live(l) : p \notin S /\ p # Tail_ /\ l[p].next = s
  BY <1>2, FirstIs
<1>4. PICK p \in Live(l) : p \notin S /\ p # Tail_ /\ l[p].next = s
  BY <1>3
<1>5. l[s].prev = p /\ \A d \in Live(l) : l[d].ptr <= l[p].ptr \/ l[s].ptr <= l[d].ptr
  BY <1>4 DEF Chain, Linked
<1> DEFINE new == [prev |-> p, next |-> s, ptr |-> x, size |-> size, live |-> TRUE]
<1>6. g = [l EXCEPT ![b] = new, ![s].prev = b, ![p].next = b]
  BY <1>5 DEF insert_block, S
<1> HIDE DEF s, g
<1>7. s \in Cells /\ p \in Cells /\ s # b /\ p # b
  BY <1>1, <1>3, <1>4 DEF Live
<1>8. l[s].ptr \in Int /\ l[p].ptr \in Int /\ l[p].ptr < x /\ x < l[s].ptr
  <2>1. l[s].ptr \in Int /\ l[p].ptr \in Int /\ l[p].ptr # x
    BY <1>3, <1>4, ChainFacts
  <2> QED
    BY <1>3, <1>4, <1>7, <2>1 DEF S
<1>9. p # s
  BY <1>8
<1>10. l \in [Cells -> Cell] /\ new \in Cell
  BY <1>7 DEF Chain, Cell
<1>11. /\ g \in [Cells -> Cell]
       /\ g[b] = new
       /\ \A c \in Cells \ {b} :
            /\ g[c].ptr = l[c].ptr /\ g[c].size = l[c].size /\ g[c].live = l[c].live
            /\ c # p => g[c].next = l[c].next
            /\ c # s => g[c].prev = l[c].prev
       /\ g[p].next = b /\ g[s].prev = b
  <2> HIDE DEF new
  <2>1. g[b] = new /\ g[s] = [l[s] EXCEPT !.prev = b] /\ g[p] = [l[p] EXCEPT !.next = b]
    BY <1>1, <1>6, <1>7, <1>9, <1>10
  <2>2. \A c \in Cells \ {b, s, p} : g[c] = l[c]
    BY <1>6, <1>10
  <2>3. l[s] \in Cell /\ l[p] \in Cell
    BY <1>7, <1>10
  <2>4. /\ g[s] \in Cell /\ g[s].prev = b /\ g[s].next = l[s].next /\ g[s].ptr = l[s].ptr
        /\ g[s].size = l[s].size /\ g[s].live = l[s].live
    BY <1>1, <2>1, <2>3 DEF Cell
  <2>5. /\ g[p] \in Cell /\ g[p].next = b /\ g[p].prev = l[p].prev /\ g[p].ptr = l[p].ptr
        /\ g[p].size = l[p].size /\ g[p].live = l[p].live
    BY <1>1, <2>1, <2>3 DEF Cell
  <2>6. DOMAIN g = Cells /\ g = [c \in Cells |-> g[c]]
    BY <1>6, <1>10
  <2>7. \A c \in Cells : g[c] \in Cell
    BY <1>10, <2>1, <2>2, <2>4, <2>5
  <2> QED
    BY <2>1, <2>2, <2>4, <2>5, <2>6, <2>7
<1>12. g[b].ptr = x /\ g[b].size = size /\ g[b].next = s /\ g[b].prev = p /\ g[b].live
  BY <1>11
<1>13. Live(g) = Live(l) \cup {b}
  BY <1>1, <1>11, <1>12 DEF Live
<1>14. \A c \in Live(l) : c \in Cells \ {b} /\ g[c].ptr = l[c].ptr /\ g[c].size = l[c].size
  BY <1>1, <1>11 DEF Live
<1>15. ASSUME NEW c \in Live(g), c # Tail_
       PROVE  Linked(g, c)
  <2>1. CASE c = b
    <3>1. s \in Live(g) /\ g[s].prev = b /\ g[b].ptr < g[s].ptr
      BY <1>3, <1>8, <1>11, <1>12, <1>13, <1>14
    <3>2. ASSUME NEW d \in Live(g)
          PROVE  g[d].ptr <= g[b].ptr \/ g[s].ptr <= g[d].ptr
      <4>1. CASE d = b
        BY <1>12, <4>1
      <4>2. CASE d # b
        <5>1. d \in Live(l) /\ l[d].ptr \in Int
          BY <1>13, <4>2, ChainFacts
        <5> QED
          BY <1>3, <1>5, <1>8, <1>12, <1>14, <5>1
      <4> QED
        BY <4>1, <4>2
    <3> QED
      BY <1>12, <2>1, <3>1, <3>2 DEF Linked
  <2>2. CASE c = p
    <3>1. b \in Live(g) /\ g[p].next = b /\ g[b].prev = p /\ g[p].ptr < g[b].ptr
      BY <1>4, <1>8, <1>11, <1>12, <1>13, <1>14
    <3>2. ASSUME NEW d \in Live(g)
          PROVE  g[d].ptr <= g[p].ptr \/ g[b].ptr <= g[d].ptr
      <4>1. CASE d = b
        BY <1>12, <4>1
      <4>2. CASE d # b
        <5>1. d \in Live(l) /\ l[d].ptr \in Int
          BY <1>13, <4>2, ChainFacts
        <5> QED
          BY <1>4, <1>5, <1>8, <1>12, <1>14, <5>1
      <4> QED
        BY <4>1, <4>2
    <3> QED
      BY <2>2, <3>1, <3>2 DEF Linked
  <2>3. CASE c # b /\ c # p
    <3> DEFINE t == l[c].next
    <3>1. c \in Live(l) /\ c \in Cells \ {b} /\ g[c].next = t
      BY <1>11, <1>13, <1>14, <2>3
    <3>2. /\ t \in Live(l) /\ l[t].prev = c /\ l[c].ptr < l[t].ptr
          /\ \A d \in Live(l) : l[d].ptr <= l[c].ptr \/ l[t].ptr <= l[d].ptr
      BY <1>15, <3>1 DEF Chain, Linked
    <3> HIDE DEF t
    <3>3. t # s
      BY <1>5, <2>3, <3>2
    <3>4. t \in Live(g) /\ g[t].prev = c /\ g[c].ptr < g[t].ptr
      BY <1>11, <1>13, <1>14, <3>1, <3>2, <3>3
    <3>5. l[c].ptr \in Int /\ l[t].ptr \in Int
      BY <3>1, <3>2, ChainFacts
    <3>6. x <= l[c].ptr \/ l[t].ptr <= x
      <4>1. l[p].ptr <= l[c].ptr \/ l[t].ptr <= l[p].ptr
        BY <1>4, <3>2
      <4>2. l[c].ptr <= l[p].ptr \/ l[s].ptr <= l[c].ptr
        BY <1>5, <3>1
      <4>3. l[p].ptr # l[c].ptr
        BY <1>4, <2>3, <3>1 DEF Chain
      <4> QED
        BY <1>8, <3>5, <4>1, <4>2, <4>3
    <3>7. ASSUME NEW d \in Live(g)
          PROVE  g[d].ptr <= g[c].ptr \/ g[t].ptr <= g[d].ptr
      <4>1. CASE d = b
        BY <1>12, <1>14, <3>1, <3>2, <3>6, <4>1
      <4>2. CASE d # b
        BY <1>13, <1>14, <3>1, <3>2, <4>2
      <4> QED
        BY <4>1, <4>2
    <3> QED
      BY <3>1, <3>4, <3>7 DEF Linked
  <2> QED
    BY <2>1, <2>2, <2>3
<1>16. Head_ \in Live(g) /\ g[Head_].ptr = -1 /\ Tail_ \in Live(g) /\ g[Tail_].ptr = Beyond
  BY <1>13, <1>14 DEF Chain
<1>17. \A c \in Live(g) : c \in {Head_, Tail_} \/ (-1 < g[c].ptr /\ g[c].ptr < Beyond)
  BY <1>12, <1>13, <1>14 DEF Chain
<1>18. \A c, d \in Live(g) : g[c].ptr = g[d].ptr => c = d
  BY <1>12, <1>13, <1>14 DEF Chain
<1>19. Chain(g)
  BY <1>11, <1>15, <1>16, <1>17, <1>18 DEF Chain
<1> QED
  BY <1>12, <1>13, <1>14, <1>19 DEF Added, g

\* The list g is l without the cell b.
Removed(g, l, b) ==
  /\ Chain(g) /\ Live(g) = Live(l) \ {b}
  /\ \A c \in Live(g) : g[c].ptr = l[c].ptr /\ g[c].size = l[c].size

\* delete_block takes out the cell of that address and closes the gap.
LEMMA DeleteIs ==
  ASSUME NEW l, Chain(l), NEW b \in Nodes, b \in Live(l)
  PROVE  Removed(delete_block(l, l[b].ptr), l, b)
<1> DEFINE g == delete_block(l, l[b].ptr)
           n == l[b].next
<1>1. b \notin {Head_, Tail_} /\ b \in Cells /\ b # Nil
  BY ListAssumption DEF Cells
<1>2. PICK p \in Live(l) : l[p].ptr < l[b].ptr /\ p # Tail_ /\ l[p].next = b
  BY SearchIs
<1>3. l[b].prev = p /\ \A d \in Live(l) : l[d].ptr <= l[p].ptr \/ l[b].ptr <= l[d].ptr
  BY <1>2 DEF Chain, Linked
<1>4. /\ n \in Live(l) /\ l[n].prev = b /\ l[b].ptr < l[n].ptr
      /\ \A d \in Live(l) : l[d].ptr <= l[b].ptr \/ l[n].ptr <= l[d].ptr
  BY <1>1 DEF Chain, Linked
<1>5. find_block(l, l[b].ptr) = b
  BY SearchIs DEF find_block
<1>6. g = [l EXCEPT ![p].next = n, ![n].prev = p, ![b] = Blank]
  BY <1>1, <1>3, <1>5 DEF delete_block
<1> HIDE DEF g, n
<1>7. l[p].ptr \in Int /\ l[b].ptr \in Int /\ l[n].ptr \in Int
  BY <1>2, <1>4, ChainFacts
<1>8. p # b /\ n # b /\ n # p /\ p \in Cells /\ n \in Cells
  BY <1>2, <1>4, <1>7 DEF Live
<1>9. l \in [Cells -> Cell] /\ Blank \in Cell
  BY DEF Chain, Cell, Blank
<1>10. /\ g \in [Cells -> Cell]
       /\ ~g[b].live
       /\ \A c \in Cells \ {b} :
            /\ g[c].ptr = l[c].ptr /\ g[c].size = l[c].size /\ g[c].live = l[c].live
            /\ c # p => g[c].next = l[c].next
            /\ c # n => g[c].prev = l[c].prev
       /\ g[p].next = n /\ g[n].prev = p
  <2>1. g[b] = Blank /\ g[n] = [l[n] EXCEPT !.prev = p] /\ g[p] = [l[p] EXCEPT !.next = n]
    BY <1>1, <1>6, <1>8, <1>9
  <2>2. \A c \in Cells \ {b, n, p} : g[c] = l[c]
    BY <1>6, <1>9
  <2>3. l[n] \in Cell /\ l[p] \in Cell
    BY <1>8, <1>9
  <2>4. /\ g[n] \in Cell /\ g[n].prev = p /\ g[n].next = l[n].next /\ g[n].ptr = l[n].ptr
        /\ g[n].size = l[n].size /\ g[n].live = l[n].live
    BY <1>8, <2>1, <2>3 DEF Cell
  <2>5. /\ g[p] \in Cell /\ g[p].next = n /\ g[p].prev = l[p].prev /\ g[p].ptr = l[p].ptr
        /\ g[p].size = l[p].size /\ g[p].live = l[p].live
    BY <1>8, <2>1, <2>3 DEF Cell
  <2>6. DOMAIN g = Cells /\ g = [c \in Cells |-> g[c]]
    BY <1>6, <1>9
  <2>7. \A c \in Cells : g[c] \in Cell
    BY <1>9, <2>1, <2>2, <2>4, <2>5
  <2>8. ~g[b].live
    BY <2>1 DEF Blank
  <2> QED
    BY <2>2, <2>4, <2>5, <2>6, <2>7, <2>8
<1>11. Live(g) = Live(l) \ {b}
  BY <1>10 DEF Live
<1>12. \A c \in Live(g) : c \in Cells \ {b} /\ g[c].ptr = l[c].ptr /\ g[c].size = l[c].size
  BY <1>10, <1>11 DEF Live
<1>13. ASSUME NEW c \in Live(g), c # Tail_
       PROVE  Linked(g, c)
  <2>1. CASE c = p
    <3>1. n \in Live(g) /\ g[p].next = n /\ g[n].prev = p /\ g[p].ptr < g[n].ptr
      BY <1>2, <1>4, <1>7, <1>8, <1>10, <1>11
    <3>2. ASSUME NEW d \in Live(g)
          PROVE  g[d].ptr <= g[p].ptr \/ g[n].ptr <= g[d].ptr
      <4>1. d \in Live(l) /\ d # b /\ l[d].ptr \in Int /\ g[d].ptr = l[d].ptr
        BY <1>11, <1>12, ChainFacts
      <4>2. l[d].ptr # l[b].ptr
        BY <4>1 DEF Chain
      <4>3. l[d].ptr <= l[p].ptr \/ l[n].ptr <= l[d].ptr
        BY <1>3, <1>4, <1>7, <4>1, <4>2
      <4> QED
        BY <1>8, <1>10, <4>1, <4>3
    <3> QED
      BY <2>1, <3>1, <3>2 DEF Linked
  <2>2. CASE c # p
    <3> DEFINE t == l[c].next
    <3>1. c \in Live(l) /\ c # b /\ g[c].next = t /\ g[c].ptr = l[c].ptr
      BY <1>10, <1>11, <1>12, <2>2
    <3>2. /\ t \in Live(l) /\ l[t].prev = c /\ l[c].ptr < l[t].ptr
          /\ \A d \in Live(l) : l[d].ptr <= l[c].ptr \/ l[t].ptr <= l[d].ptr
      BY <1>13, <3>1 DEF Chain, Linked
    <3> HIDE DEF t
    <3>3. t # b /\ t # n
      BY <1>3, <1>4, <2>2, <3>1, <3>2
    <3>4. t \in Live(g) /\ g[t].prev = c /\ g[t].ptr = l[t].ptr
      BY <1>10, <1>11, <1>12, <3>2, <3>3
    <3>5. \A d \in Live(g) : g[d].ptr <= g[c].ptr \/ g[t].ptr <= g[d].ptr
      BY <1>11, <1>12, <3>1, <3>2, <3>4
    <3> QED
      BY <3>1, <3>2, <3>4, <3>5 DEF Linked
  <2> QED
    BY <2>1, <2>2
<1>14. Head_ \in Live(g) /\ g[Head_].ptr = -1 /\ Tail_ \in Live(g) /\ g[Tail_].ptr = Beyond
  BY <1>1, <1>11, <1>12 DEF Chain
<1>15. \A c \in Live(g) : c \in {Head_, Tail_} \/ (-1 < g[c].ptr /\ g[c].ptr < Beyond)
  BY <1>11, <1>12 DEF Chain
<1>16. \A c, d \in Live(g) : g[c].ptr = g[d].ptr => c = d
  BY <1>11, <1>12 DEF Chain
<1>17. Chain(g)
  BY <1>10, <1>13, <1>14, <1>15, <1>16 DEF Chain
<1> QED
  BY <1>11, <1>12, <1>17 DEF Removed, g

\* The array that is made of the list.
LEMMA ArrayIs ==
  ASSUME NEW l, Chain(l)
  PROVE  LET cells == get_block_array(l)
         IN  /\ cells \in Seq(Nodes)
             /\ {cells[i] : i \in DOMAIN cells} = Live(l) \cap Nodes
             /\ \A i, j \in DOMAIN cells : i < j => l[cells[i]].ptr < l[cells[j]].ptr
<1> DEFINE at == Ahead(l)
           cells == get_block_array(l)
<1>1. Steps \in Nat /\ Steps = Cardinality(Nodes) + 1 /\ Cardinality(Nodes) \in Nat
  BY StepsIsNat DEF Steps
<1>2. Walking(l, at)
  BY AheadWalks
<1>3. PICK e \in 1 .. Steps : at[e] = Tail_ /\ \A j \in 0 .. e - 1 : at[j] # Tail_
  BY <1>2, WalkEnds
<1> DEFINE P(n) == at[n + 1] = Tail_ /\ \A m \in 0 .. n - 1 : at[m + 1] # Tail_
<1>4. e - 1 \in 0 .. Cardinality(Nodes) /\ P(e - 1)
  BY <1>1, <1>3
<1>5. ASSUME NEW n \in 0 .. Cardinality(Nodes), P(n)
      PROVE  n = e - 1
  <2>1. n + 1 >= e
    BY <1>1, <1>3, <1>5
  <2>2. ~(e - 1 \in 0 .. n - 1)
    BY <1>3, <1>5
  <2> QED
    BY <1>1, <1>4, <2>1, <2>2
<1>6. num_blocks(l) = e - 1
  <2> HIDE DEF P
  <2>1. (CHOOSE n \in 0 .. Cardinality(Nodes) : P(n)) = e - 1
    BY <1>4, <1>5
  <2> USE DEF P
  <2> QED
    BY <2>1 DEF num_blocks
<1> HIDE DEF at, P
<1>7. ASSUME NEW i \in 1 .. e - 1
      PROVE  find_block_by_index(l, i - 1) = at[i]
  <2>1. (i - 1) + 1 = i /\ i \in 0 .. e - 1
    BY <1>1
  <2> QED
    BY <1>3, <2>1 DEF find_block_by_index, at
<1>8. cells = [i \in 1 .. e - 1 |-> at[i]]
  BY <1>6, <1>7 DEF get_block_array
<1> HIDE DEF cells
<1>9. DOMAIN cells = 1 .. e - 1 /\ \A i \in 1 .. e - 1 : cells[i] = at[i]
  BY <1>8
<1>10. ASSUME NEW i \in 0 .. e - 1, NEW j \in 0 .. e - 1, i < j
       PROVE  l[at[i]].ptr < l[at[j]].ptr
  <2>1. i \in 0 .. Steps /\ j \in 0 .. Steps /\ j - 1 \in 0 .. e - 1
    BY <1>1, <1>10
  <2> QED
    BY <1>2, <1>3, <1>10, <2>1, WalkRises
<1>11. ASSUME NEW i \in 1 .. e - 1
       PROVE  at[i] \in Live(l) \cap Nodes
  <2>1. i \in 0 .. Steps /\ i \in 0 .. e - 1 /\ 0 \in 0 .. e - 1 /\ 0 < i
    BY <1>1
  <2>2. at[i] \in Live(l) /\ at[i] # Tail_ /\ at[0] = Head_
    BY <1>2, <1>3, <2>1 DEF Walking
  <2>3. l[at[0]].ptr < l[at[i]].ptr
    BY <1>10, <2>1
  <2>4. at[i] # Head_
    BY <2>2, <2>3, ChainFacts
  <2> QED
    BY <2>2, <2>4 DEF Live, Cells
<1>12. \A k \in 0 .. Steps : e <= k => at[k] = Tail_
  <2> DEFINE Bad == {k \in 0 .. Steps : e <= k /\ at[k] # Tail_}
  <2> SUFFICES ASSUME Bad # {} PROVE FALSE
    OBVIOUS
  <2>1. PICK n \in Bad : \A m \in Bad : n <= m
    <3>1. Bad \subseteq Nat
      BY <1>1
    <3> HIDE DEF Bad
    <3> QED
      BY <3>1, LeastNumber
  <2>2. n # e
    BY <1>3, <2>1
  <2>3. n \in 1 .. Steps /\ n - 1 \in 0 .. Steps /\ e <= n - 1 /\ ~(n <= n - 1)
    BY <1>1, <2>1, <2>2
  <2>4. at[n - 1] = Tail_
    BY <2>1, <2>3
  <2> QED
    BY <1>2, <2>1, <2>3, <2>4 DEF Walking
<1>13. ASSUME NEW b \in Live(l) \cap Nodes
       PROVE  \E i \in DOMAIN cells : cells[i] = b
  <2>1. PICK k \in 1 .. Steps : b = at[k]
    BY SearchIs DEF at
  <2>2. b # Tail_
    BY ListAssumption
  <2>3. k \in 1 .. e - 1
    BY <1>1, <1>12, <2>1, <2>2
  <2> QED
    BY <1>9, <2>1, <2>3
<1>14. cells \in Seq(Nodes)
  <2>1. e - 1 \in Nat /\ cells \in [1 .. e - 1 -> Nodes]
    BY <1>1, <1>8, <1>11
  <2> QED
    BY <2>1
<1>15. {cells[i] : i \in DOMAIN cells} = Live(l) \cap Nodes
  BY <1>9, <1>11, <1>13
<1>16. \A i, j \in DOMAIN cells : i < j => l[cells[i]].ptr < l[cells[j]].ptr
  BY <1>1, <1>9, <1>10
<1> QED
  BY <1>14, <1>15, <1>16 DEF cells
-----------------------------------------------------------------------------
(* The client: what the list says it holds is what the heap has in use.    *)

Held(h, l, B) ==
  /\ \A b \in Live(l) \cap Nodes :
       /\ l[b].ptr \in Used(h, B) /\ l[b].size \in Requests
       /\ h.hdr[l[b].ptr].size = BlockSize(l[b].size)
  /\ \A x \in Used(h, B) : \E b \in Live(l) \cap Nodes : l[b].ptr = x

Inv ==
  /\ mode \in {"menu", "freeing", "ended"} /\ ap \in Policies
  /\ Sound(heap, Blocks) /\ Chain(list) /\ Held(heap, list, Blocks)
  /\ array \in Seq(Nodes) /\ (mode = "freeing" => Copied(array))

\* The address of a block can go into the list.
LEMMA AddressIs ==
  ASSUME NEW h, NEW B, Sound(h, B), NEW x \in B
  PROVE  x \in Nat /\ -1 < x /\ x < Beyond /\ x < h.end
<1>1. Tiles(h, B)
  BY DEF Sound
<1>2. x \in Nat /\ x < h.end /\ h.end \in Nat /\ h.end <= Limit - 2 /\ Limit \in Nat
  BY <1>1, TilesFacts
<1> QED
  BY <1>2, BeyondAssumption

\* The cells between the sentinels.
LEMMA ListedIs == Listed = Live(list) \cap Nodes
  BY DEF Listed, Live, Cells

\* A block that is not in use is not in the list.
LEMMA NotListed ==
  ASSUME NEW l, Chain(l), NEW x \in Nat, x < Beyond, NEW S, x \notin S,
         \A b \in Live(l) \cap Nodes : l[b].ptr \in S
  PROVE  \A c \in Live(l) : l[c].ptr # x
<1> SUFFICES ASSUME NEW c \in Live(l) PROVE l[c].ptr # x
  OBVIOUS
<1>1. CASE c \in Nodes
  BY <1>1
<1>2. CASE c \notin Nodes
  <2>1. c \in {Head_, Tail_}
    BY <1>2 DEF Live, Cells
  <2> QED
    BY <2>1, ChainFacts DEF Chain
<1> QED
  BY <1>1, <1>2

\* An allocated block and a new cell.
LEMMA HeldMore ==
  ASSUME NEW h, NEW l, NEW B, Held(h, l, B), NEW g, NEW k, NEW C,
         NEW b \in Nodes, b \notin Live(l), NEW x, NEW bytes \in Requests,
         Gained(h, B, g, C, x, BlockSize(bytes)), Added(k, l, b, x, bytes)
  PROVE  Held(g, k, C)
<1>1. /\ x \notin Used(h, B) /\ Used(g, C) = Used(h, B) \cup {x}
      /\ g.hdr[x].size = BlockSize(bytes)
      /\ \A y \in Used(h, B) : g.hdr[y] = h.hdr[y]
  BY DEF Gained, PACK
<1>2. /\ Live(k) \cap Nodes = (Live(l) \cap Nodes) \cup {b}
      /\ k[b].ptr = x /\ k[b].size = bytes
      /\ \A c \in Live(l) : k[c].ptr = l[c].ptr /\ k[c].size = l[c].size
  BY DEF Added
<1>3. ASSUME NEW c \in Live(k) \cap Nodes
      PROVE  /\ k[c].ptr \in Used(g, C) /\ k[c].size \in Requests
             /\ g.hdr[k[c].ptr].size = BlockSize(k[c].size)
  <2>1. CASE c = b
    BY <1>1, <1>2, <2>1
  <2>2. CASE c # b
    <3>1. c \in Live(l) \cap Nodes /\ k[c].ptr = l[c].ptr /\ k[c].size = l[c].size
      BY <1>2, <2>2
    <3> QED
      BY <1>1, <3>1 DEF Held
  <2> QED
    BY <2>1, <2>2
<1>4. ASSUME NEW y \in Used(g, C)
      PROVE  \E c \in Live(k) \cap Nodes : k[c].ptr = y
  <2>1. CASE y = x
    BY <1>2, <2>1
  <2>2. CASE y # x
    <3>1. PICK c \in Live(l) \cap Nodes : l[c].ptr = y
      BY <1>1, <2>2 DEF Held
    <3> QED
      BY <1>2, <3>1
  <2> QED
    BY <2>1, <2>2
<1> QED
  BY <1>3, <1>4 DEF Held

\* A block that is freed and its cell.
LEMMA HeldLess ==
  ASSUME NEW h, NEW l, NEW B, Chain(l), Held(h, l, B), NEW g, NEW k, NEW C,
         NEW b \in Live(l) \cap Nodes,
         Lost(h, B, g, C, l[b].ptr), Removed(k, l, b)
  PROVE  Held(g, k, C)
<1>1. Used(g, C) = Used(h, B) \ {l[b].ptr} /\ \A y \in Used(g, C) : g.hdr[y] = h.hdr[y]
  BY DEF Lost
<1>2. /\ Live(k) = Live(l) \ {b}
      /\ \A c \in Live(k) : k[c].ptr = l[c].ptr /\ k[c].size = l[c].size
  BY DEF Removed
<1>3. ASSUME NEW c \in Live(k) \cap Nodes
      PROVE  /\ k[c].ptr \in Used(g, C) /\ k[c].size \in Requests
             /\ g.hdr[k[c].ptr].size = BlockSize(k[c].size)
  <2>1. c \in Live(l) \cap Nodes /\ c # b /\ k[c].ptr = l[c].ptr /\ k[c].size = l[c].size
    BY <1>2
  <2>2. l[c].ptr # l[b].ptr
    BY <2>1 DEF Chain
  <2> QED
    BY <1>1, <2>1, <2>2 DEF Held
<1>4. ASSUME NEW y \in Used(g, C)
      PROVE  \E c \in Live(k) \cap Nodes : k[c].ptr = y
  <2>1. PICK c \in Live(l) \cap Nodes : l[c].ptr = y
    BY <1>1 DEF Held
  <2>2. c # b
    BY <1>1, <2>1
  <2> QED
    BY <1>2, <2>1, <2>2
<1> QED
  BY <1>3, <1>4 DEF Held

\* A block that is reallocated and its cell, deleted and inserted.
LEMMA HeldMoved ==
  ASSUME NEW h, NEW l, NEW B, Chain(l), Held(h, l, B), NEW g, NEW k, NEW C, NEW d,
         NEW b \in Live(l) \cap Nodes, NEW x, NEW bytes \in Requests,
         Used(g, C) = (Used(h, B) \ {l[b].ptr}) \cup {x}, x \notin Used(h, B) \ {l[b].ptr},
         g.hdr[x].size = BlockSize(bytes),
         \A y \in Used(h, B) \ {l[b].ptr} : g.hdr[y].size = h.hdr[y].size,
         Removed(d, l, b), Added(k, d, b, x, bytes)
  PROVE  Held(g, k, C)
<1>1. /\ Live(d) = Live(l) \ {b}
      /\ \A c \in Live(d) : d[c].ptr = l[c].ptr /\ d[c].size = l[c].size
  BY DEF Removed
<1>2. /\ Live(k) = Live(d) \cup {b}
      /\ k[b].ptr = x /\ k[b].size = bytes
      /\ \A c \in Live(d) : k[c].ptr = d[c].ptr /\ k[c].size = d[c].size
  BY DEF Added
<1>3. ASSUME NEW c \in Live(k) \cap Nodes
      PROVE  /\ k[c].ptr \in Used(g, C) /\ k[c].size \in Requests
             /\ g.hdr[k[c].ptr].size = BlockSize(k[c].size)
  <2>1. CASE c = b
    BY <1>2, <2>1
  <2>2. CASE c # b
    <3>1. /\ c \in Live(l) \cap Nodes /\ c \in Live(d)
          /\ k[c].ptr = l[c].ptr /\ k[c].size = l[c].size
      BY <1>1, <1>2, <2>2
    <3>2. l[c].ptr # l[b].ptr
      BY <2>2, <3>1 DEF Chain
    <3>3. /\ l[c].ptr \in Used(h, B) \ {l[b].ptr} /\ l[c].size \in Requests
          /\ h.hdr[l[c].ptr].size = BlockSize(l[c].size)
      BY <3>1, <3>2 DEF Held
    <3> QED
      BY <3>1, <3>3
  <2> QED
    BY <2>1, <2>2
<1>4. ASSUME NEW y \in Used(g, C)
      PROVE  \E c \in Live(k) \cap Nodes : k[c].ptr = y
  <2>1. CASE y = x
    BY <1>2, <2>1
  <2>2. CASE y # x
    <3>1. y \in Used(h, B) /\ y # l[b].ptr
      BY <2>2
    <3>2. PICK c \in Live(l) \cap Nodes : l[c].ptr = y
      BY <3>1 DEF Held
    <3>3. c \in Live(d) /\ c # b
      BY <1>1, <3>1, <3>2
    <3> QED
      BY <1>1, <1>2, <3>2, <3>3
  <2> QED
    BY <2>1, <2>2
<1> QED
  BY <1>3, <1>4 DEF Held

-----------------------------------------------------------------------------
(* The invariant.                                                          *)

\* ds_allocate and mm_init leave one free block of CHUNKSIZE.
LEMMA InitSound ==
  ASSUME HeapInit
  PROVE  Sound(heap, {0}) /\ Used(heap, {0}) = {}
<1> DEFINE none == [b \in Addresses |-> PACK(0, FREE)]
           blank == [hdr |-> none, ftr |-> none, end |-> Chunk, nf |-> NULL]
           start == [blank EXCEPT !.ftr[0] = PACK(0, ALLOC)]
           f == Mark(start, 0, Chunk - 0, FREE)
<1>1. /\ Chunk \in Nat /\ Chunk > 0 /\ Limit \in Nat /\ Chunk <= Limit - 2
      /\ 0 \in Addresses /\ Chunk \in Addresses /\ Chunk - 0 = Chunk
  BY HeapAssumption DEF Addresses
<1>2. start \in Heaps /\ start.ftr[0] = PACK(0, ALLOC) /\ start.nf = NULL
  <2> DEFINE ftr == [none EXCEPT ![0] = PACK(0, ALLOC)]
  <2>1. PACK(0, FREE) \in Tag /\ PACK(0, ALLOC) \in Tag /\ NULL \in Int
    BY DEF PACK, Tag, NULL
  <2>2. none \in [Addresses -> Tag]
    BY <2>1
  <2>3. ftr \in [Addresses -> Tag] /\ ftr[0] = PACK(0, ALLOC)
    BY <1>1, <2>1
  <2> HIDE DEF none
  <2>4. start = [hdr |-> none, ftr |-> ftr, end |-> Chunk, nf |-> NULL]
    OBVIOUS
  <2> HIDE DEF ftr, start
  <2> QED
    BY <1>1, <2>1, <2>2, <2>3, <2>4 DEF Heaps
<1>3. heap = EndSentinel(f, Chunk)
  BY <1>1 DEF HeapInit
<1> HIDE DEF start
<1>4. Marked(f, start, 0, Chunk, FREE)
  BY <1>1, <1>2, MarkTo DEF FREE
<1> HIDE DEF f
<1>5. /\ f \in Heaps /\ f.nf = NULL /\ f.ftr[0] = PACK(0, ALLOC)
      /\ f.hdr[0] = PACK(Chunk, FREE) /\ f.ftr[Chunk] = PACK(Chunk, FREE)
  BY <1>1, <1>2, <1>4 DEF Marked
<1>6. /\ heap \in Heaps /\ heap.end = Chunk /\ heap.nf = NULL
      /\ heap.ftr[0] = PACK(0, ALLOC) /\ heap.hdr[Chunk] = PACK(0, ALLOC)
      /\ heap.hdr[0] = PACK(Chunk, FREE) /\ heap.ftr[Chunk] = PACK(Chunk, FREE)
  BY <1>1, <1>3, <1>5, SentinelIs
<1>7. heap.hdr[0].size = Chunk /\ heap.hdr[0].status = FREE /\ After(heap, 0) = Chunk
  BY <1>1, <1>6 DEF PACK, After
<1>8. Tiles(heap, {0})
  BY <1>1, <1>6, <1>7 DEF Tiles
<1>9. NoPair(heap, {0})
  BY <1>6, <1>7 DEF NoPair, PACK
<1>10. Used(heap, {0}) = {}
  BY <1>7, TagStates DEF Used
<1> QED
  BY <1>6, <1>8, <1>9, <1>10 DEF Sound

\* init_blocklist leaves the two sentinels.
LEMMA InitChain ==
  Chain(init_blocklist) /\ Live(init_blocklist) = {Head_, Tail_}
<1> DEFINE l == init_blocklist
           head == [Blank EXCEPT !.next = Tail_, !.live = TRUE]
           tail == [Blank EXCEPT !.prev = Head_, !.ptr = Beyond, !.live = TRUE]
<1>1. Head_ # Tail_ /\ Head_ \in Cells /\ Tail_ \in Cells
  BY DEF Head_, Tail_, Cells
<1>2. Beyond \in Int /\ -1 < Beyond
  BY BeyondAssumption
<1>3. /\ head.next = Tail_ /\ head.ptr = -1 /\ head.live
      /\ tail.prev = Head_ /\ tail.ptr = Beyond /\ tail.live
  BY DEF Blank
<1>4. Blank \in Cell /\ head \in Cell /\ tail \in Cell
  <2>1. Blank \in Cell
    BY DEF Blank, Cell
  <2>2. head \in Cell
    BY <1>1, <1>2, <2>1 DEF Cell
  <2>3. tail \in Cell
    BY <1>1, <1>2, <2>1 DEF Cell
  <2> QED
    BY <2>1, <2>2, <2>3
<1>5. ~Blank.live
  BY DEF Blank
<1> HIDE DEF head, tail
<1>6. l[Head_] = head /\ l[Tail_] = tail /\ \A c \in Cells \ {Head_, Tail_} : l[c] = Blank
  BY <1>1 DEF init_blocklist, head, tail
<1>7. l \in [Cells -> Cell]
  <2>1. l = [c \in Cells |-> l[c]]
    BY DEF init_blocklist
  <2> HIDE DEF l
  <2>2. \A c \in Cells : l[c] \in Cell
    BY <1>4, <1>6
  <2> QED
    BY <2>1, <2>2
<1> HIDE DEF l
<1>8. Live(l) = {Head_, Tail_}
  <2>1. l[Head_].live /\ l[Tail_].live
    BY <1>3, <1>6
  <2> QED
    BY <1>1, <1>5, <1>6, <2>1 DEF Live
<1>9. l[Head_].ptr = -1 /\ l[Tail_].ptr = Beyond /\ l[Head_].next = Tail_ /\ l[Tail_].prev = Head_
  BY <1>3, <1>6
<1>10. Chain(l)
  BY <1>1, <1>2, <1>7, <1>8, <1>9 DEF Chain, Linked
<1> QED
  BY <1>8, <1>10 DEF l

\* The invariant holds at first.
LEMMA InvInit == Init => Inv
<1> SUFFICES ASSUME Init PROVE Inv
  OBVIOUS
<1>1. HeapInit /\ list = init_blocklist /\ array = <<>> /\ mode = "menu"
  BY DEF Init
<1>2. Sound(heap, {0}) /\ Used(heap, {0}) = {} /\ Chain(list) /\ Live(list) = {Head_, Tail_}
  BY <1>1, InitSound, InitChain
<1>3. Blocks = {0}
  BY <1>2, WalkAll DEF Blocks, Sound
<1>4. Live(list) \cap Nodes = {}
  BY <1>2, ListAssumption
<1>5. Held(heap, list, {0})
  BY <1>2, <1>4 DEF Held
<1>6. ap \in Policies
  BY <1>1 DEF HeapInit
<1> QED
  BY <1>1, <1>2, <1>3, <1>5, <1>6 DEF Inv

\* The parts of the invariant that a step of the heap and the list disturbs.
LEMMA InvFrom ==
  ASSUME NEW C, Sound(heap', C), Chain(list'), Held(heap', list', C),
         mode' \in {"menu", "freeing", "ended"}, ap' \in Policies,
         array' \in Seq(Nodes), mode' = "freeing" => Copied(array)'
  PROVE  Inv'
<1>1. Walk(heap')[0] = C
  BY WalkAll DEF Sound
<1>2. Blocks' = C
  BY <1>1 DEF Blocks
<1> QED
  BY <1>2 DEF Inv

\* It is kept by an allocation,
LEMMA do_mallocKeeps ==
  ASSUME Inv, NEW bytes \in Requests, do_malloc(bytes)
  PROVE  Inv'
<1> DEFINE m == mm_malloc(heap, bytes)
           B == Blocks
<1>1. /\ Sound(heap, B) /\ Chain(list) /\ Held(heap, list, B) /\ ap \in Policies
      /\ array \in Seq(Nodes)
  BY DEF Inv
<1>2. mode = "menu" /\ mode' = mode /\ ap' = ap /\ array' = array /\ RoomFor(heap, NULL, bytes)
  BY DEF do_malloc
<1>3. heap' = m.heap
  BY DEF do_malloc
<1>4. PICK b \in Nodes : ~list[b].live /\ list' = insert_block(list, b, m.block, bytes)
  BY DEF do_malloc
<1>5. Enough(heap, BlockSize(bytes))
  BY <1>2 DEF RoomFor
<1> HIDE DEF B
<1>6. PICK C : Sound(m.heap, C) /\ Gained(heap, B, m.heap, C, m.block, BlockSize(bytes))
  BY <1>1, <1>5, mm_mallocGains
<1> HIDE DEF m
<1>7. m.block \in C /\ m.block \notin Used(heap, B)
  BY <1>6 DEF Gained
<1>8. m.block \in Nat /\ -1 < m.block /\ m.block < Beyond
  BY <1>6, <1>7, AddressIs
<1>9. \A c \in Live(list) : list[c].ptr # m.block
  <2>1. \A c \in Live(list) \cap Nodes : list[c].ptr \in Used(heap, B)
    BY <1>1 DEF Held
  <2> QED
    BY <1>1, <1>7, <1>8, <2>1, NotListed
<1>10. bytes \in Int /\ b \notin Live(list)
  BY <1>4, HeapAssumption DEF Live
<1>11. Added(list', list, b, m.block, bytes)
  BY <1>1, <1>4, <1>8, <1>9, <1>10, InsertIs
<1>12. Held(m.heap, list', C)
  BY <1>1, <1>6, <1>10, <1>11, HeldMore
<1>13. Chain(list')
  BY <1>11 DEF Added
<1> QED
  BY <1>1, <1>2, <1>3, <1>6, <1>12, <1>13, InvFrom

\* by a free from do_free's copy of the list,
LEMMA FreeIndexKeeps ==
  ASSUME Inv, NEW index, FreeIndex(index)
  PROVE  Inv'
<1> DEFINE b == array[index]
           B == Blocks
<1>1. /\ Sound(heap, B) /\ Chain(list) /\ Held(heap, list, B) /\ ap \in Policies
      /\ array \in Seq(Nodes) /\ (mode = "freeing" => Copied(array))
  BY DEF Inv
<1>2. /\ mode = "freeing" /\ mode' = mode /\ ap' = ap /\ array' = array
      /\ index \in DOMAIN array /\ list[b].live
      /\ heap' = Free(heap, list[b].ptr) /\ list' = delete_block(list, list[b].ptr)
  BY DEF FreeIndex, mm_free
<1>3. b \in Nodes /\ b \in Live(list)
  <2>1. b \in Nodes
    BY <1>1, <1>2
  <2> QED
    BY <1>2, <2>1 DEF Live, Cells
<1> HIDE DEF b, B
<1>4. list[b].ptr \in Used(heap, B)
  BY <1>1, <1>3 DEF Held
<1>5. PICK C : Sound(heap', C) /\ Lost(heap, B, heap', C, list[b].ptr)
  BY <1>1, <1>2, <1>4, FreeLoses
<1>6. Removed(list', list, b)
  BY <1>1, <1>2, <1>3, DeleteIs
<1>7. Chain(list') /\ Live(list') = Live(list) \ {b}
      /\ \A c \in Live(list') : list'[c].ptr = list[c].ptr
  BY <1>6 DEF Removed
<1>8. Held(heap', list', C)
  BY <1>1, <1>3, <1>5, <1>6, HeldLess
<1>9. Copied(array)'
  <2>1. Listed' \subseteq Listed /\ \A c \in Listed' : list'[c].ptr = list[c].ptr
    <3>1. Listed' = Live(list') \cap Nodes /\ Listed = Live(list) \cap Nodes
      BY DEF Listed, Live, Cells
    <3> QED
      BY <1>7, <3>1
  <2>2. Copied(array)
    BY <1>1, <1>2
  <2>3. Listed' \subseteq {array[i] : i \in DOMAIN array}
    BY <2>1, <2>2 DEF Copied
  <2>4. ASSUME NEW i \in DOMAIN array, NEW j \in DOMAIN array, i < j,
               array[i] \in Listed', array[j] \in Listed'
        PROVE  list'[array[i]].ptr < list'[array[j]].ptr
    <3>1. list[array[i]].ptr < list[array[j]].ptr
      BY <2>1, <2>2, <2>4 DEF Copied
    <3> QED
      BY <2>1, <2>4, <3>1
  <2> QED
    BY <1>2, <2>3, <2>4 DEF Copied
<1> QED
  BY <1>1, <1>2, <1>5, <1>7, <1>8, <1>9, InvFrom

\* by a reallocation, in place or not,
LEMMA DriverReallocKeeps ==
  ASSUME Inv, NEW b \in Nodes, NEW bytes \in Requests, DriverRealloc(b, bytes)
  PROVE  Inv'
<1> DEFINE r == mm_realloc(heap, list[b].ptr, bytes)
           d == delete_block(list, list[b].ptr)
           B == Blocks
           y == list[b].ptr
<1>1. /\ Sound(heap, B) /\ Chain(list) /\ Held(heap, list, B) /\ ap \in Policies
      /\ array \in Seq(Nodes)
  BY DEF Inv
<1>2. /\ mode = "menu" /\ mode' = mode /\ ap' = ap /\ array' = array
      /\ list[b].live /\ RoomFor(heap, y, bytes)
      /\ heap' = r.heap /\ list' = insert_block(d, b, r.block, bytes)
  BY DEF DriverRealloc
<1>3. b \in Live(list)
  BY <1>2 DEF Live, Cells
<1> HIDE DEF B
<1>4. y \in Used(heap, B)
  BY <1>1, <1>3 DEF Held
<1>5. PICK C : /\ Sound(r.heap, C)
               /\ Used(r.heap, C) = (Used(heap, B) \ {y}) \cup {r.block}
               /\ r.block \notin Used(heap, B) \ {y}
               /\ r.heap.hdr[r.block].size = BlockSize(bytes)
               /\ \A x \in Used(heap, B) \ {y} : r.heap.hdr[x].size = heap.hdr[x].size
  BY <1>1, <1>2, <1>4, mm_reallocMoves
<1>6. Removed(d, list, b)
  BY <1>1, <1>3, DeleteIs
<1> HIDE DEF r, d
<1>7. /\ Chain(d) /\ Live(d) = Live(list) \ {b}
      /\ \A c \in Live(d) : d[c].ptr = list[c].ptr
  BY <1>6 DEF Removed
<1>8. r.block \in C
  BY <1>5 DEF Used
<1>9. r.block \in Nat /\ -1 < r.block /\ r.block < Beyond
  BY <1>5, <1>8, AddressIs
<1>10. ASSUME NEW c \in Live(d) \cap Nodes
       PROVE  d[c].ptr \in Used(heap, B) \ {y}
  <2>1. c \in Live(list) \cap Nodes /\ c # b /\ d[c].ptr = list[c].ptr
    BY <1>7
  <2>2. list[c].ptr # y
    BY <1>1, <1>3, <2>1 DEF Chain
  <2> QED
    BY <1>1, <2>1, <2>2 DEF Held
<1>11. \A c \in Live(d) : d[c].ptr # r.block
  BY <1>5, <1>7, <1>9, <1>10, NotListed
<1>12. bytes \in Int /\ ~d[b].live
  <2>1. b \in Cells /\ b \notin Live(d)
    BY <1>7 DEF Cells
  <2> QED
    BY <2>1, HeapAssumption DEF Live
<1>13. Added(list', d, b, r.block, bytes)
  BY <1>2, <1>7, <1>9, <1>11, <1>12, InsertIs
<1>14. Held(r.heap, list', C)
  BY <1>1, <1>3, <1>5, <1>6, <1>13, HeldMoved
<1>15. Chain(list')
  BY <1>13 DEF Added
<1> QED
  BY <1>1, <1>2, <1>5, <1>14, <1>15, InvFrom

\* and by every step.
LEMMA InvNext == Inv /\ [Next]_vars => Inv'
<1> SUFFICES ASSUME Inv, [Next]_vars PROVE Inv'
  OBVIOUS
<1> USE DEF Inv
<1>1. CASE do_free
  <2>1. /\ array' = get_block_array(list) /\ mode' = "freeing"
        /\ heap' = heap /\ ap' = ap /\ list' = list
    BY <1>1 DEF do_free
  <2>2. /\ array' \in Seq(Nodes)
        /\ {array'[i] : i \in DOMAIN array'} = Live(list) \cap Nodes
        /\ \A i, j \in DOMAIN array' : i < j => list[array'[i]].ptr < list[array'[j]].ptr
    BY <2>1, ArrayIs
  <2>3. Listed' = Live(list) \cap Nodes
    BY <2>1 DEF Listed, Live, Cells
  <2>4. Copied(array)'
    BY <2>1, <2>2, <2>3 DEF Copied
  <2> QED
    BY <2>1, <2>2, <2>4, InvFrom
<1>2. CASE EndOfLine
  <2>1. array' = <<>> /\ mode' = "menu" /\ heap' = heap /\ ap' = ap /\ list' = list
    BY <1>2 DEF EndOfLine
  <2> QED
    BY <2>1, InvFrom
<1>3. CASE Quit
  <2>1. mode' = "ended" /\ heap' = heap /\ ap' = ap /\ list' = list /\ array' = array
    BY <1>3 DEF Quit
  <2> QED
    BY <2>1, InvFrom
<1>4. ASSUME NEW bytes \in Requests, do_malloc(bytes)
      PROVE  Inv'
  BY <1>4, do_mallocKeeps
<1>5. ASSUME NEW index, FreeIndex(index)
      PROVE  Inv'
  BY <1>5, FreeIndexKeeps
<1>6. ASSUME NEW index, FreeIndexAgain(index)
      PROVE  Inv'
  <2>1. mode' = "ended" /\ heap' = heap /\ ap' = ap /\ list' = list /\ array' = array
    BY <1>6 DEF FreeIndexAgain
  <2> QED
    BY <2>1, InvFrom
<1>7. ASSUME NEW b \in Nodes, NEW bytes \in Requests, DriverRealloc(b, bytes)
      PROVE  Inv'
  BY <1>7, DriverReallocKeeps
<1>8. CASE UNCHANGED vars
  <2>1. mode' = mode /\ heap' = heap /\ ap' = ap /\ list' = list /\ array' = array
    BY <1>8 DEF vars
  <2>2. Copied(array)' = Copied(array)
    BY <2>1 DEF Copied, Listed
  <2> QED
    BY <2>1, <2>2, InvFrom
<1> QED
  BY <1>1, <1>2, <1>3, <1>4, <1>5, <1>6, <1>7, <1>8 DEF Next

\* It holds in every state of every behaviour.
LEMMA InvAlways == Spec => []Inv
  BY InvInit, InvNext, PTL DEF Spec

-----------------------------------------------------------------------------
(* What follows from it.                                                   *)

\* What the parts of the invariant say of a listed cell and its block.
LEMMA ListedHas ==
  ASSUME Inv, NEW b \in Listed
  PROVE  LET x == list[b].ptr
         IN  /\ x \in Blocks /\ x \in Used(heap, Blocks) /\ list[b].size \in Requests
             /\ x \in Nat /\ x \in Addresses
             /\ heap.hdr[x].status = ALLOC /\ heap.hdr[x].size = Units(b)
             /\ Units(b) \in Nat /\ Units(b) > 0
             /\ After(heap, x) = x + Units(b) /\ x + Units(b) <= heap.end
             /\ heap.end \in Nat
<1> DEFINE x == list[b].ptr
<1>1. b \in Live(list) \cap Nodes
  BY ListedIs
<1>2. /\ x \in Used(heap, Blocks) /\ list[b].size \in Requests
      /\ heap.hdr[x].size = Units(b)
  BY <1>1 DEF Inv, Held, Units
<1>3. x \in Blocks /\ heap.hdr[x].status = ALLOC
  BY <1>2 DEF Used
<1>4. Tiles(heap, Blocks)
  BY DEF Inv, Sound
<1> HIDE DEF x
<1>5. /\ x \in Nat /\ x \in Addresses /\ heap.hdr[x].size \in Nat
      /\ x < After(heap, x) /\ After(heap, x) <= heap.end /\ heap.end \in Nat
  BY <1>3, <1>4, TilesFacts
<1>6. After(heap, x) = x + Units(b) /\ Units(b) \in Nat /\ Units(b) > 0
  <2>1. After(heap, x) = x + Units(b) /\ Units(b) \in Nat
    BY <1>2, <1>5 DEF After
  <2> QED
    BY <1>5, <2>1
<1> QED
  BY <1>2, <1>3, <1>5, <1>6 DEF x

\* The five properties are parts of it, in the words of the code.
LEMMA TypeFollows == Inv => TypeOK
<1> SUFFICES ASSUME Inv PROVE TypeOK
  OBVIOUS
<1>1. Tiles(heap, Blocks) /\ heap.nf \in {NULL, 0} \cup Used(heap, Blocks)
  BY DEF Inv, Sound
<1>2. /\ heap.end \in 0 .. Limit - 2
      /\ heap.hdr \in [Addresses -> Tag] /\ heap.ftr \in [Addresses -> Tag]
  BY <1>1, TilesFacts DEF Tiles
<1>3. heap.nf \in {NULL} \cup 0 .. Limit - 2
  <2>1. Limit \in Nat /\ 0 \in 0 .. Limit - 2
    BY HeapAssumption
  <2>2. \A x \in Used(heap, Blocks) : x \in Nat /\ x < heap.end
    BY <1>1, TilesFacts DEF Used
  <2>3. \A x \in Used(heap, Blocks) : x \in 0 .. Limit - 2
    BY <1>2, <2>1, <2>2
  <2> QED
    BY <1>1, <2>1, <2>3
<1>4. \A b \in Listed : list[b].ptr \in Addresses /\ list[b].size \in Requests
  BY ListedHas
<1> QED
  BY <1>2, <1>3, <1>4 DEF TypeOK, Inv

\* Blocks that follow each other do not overlap.
LEMMA DisjointFollows == Inv => BlocksDisjoint
<1> SUFFICES ASSUME Inv PROVE BlocksDisjoint
  OBVIOUS
<1>1. ASSUME NEW b \in Listed
      PROVE  Extent(b) \subseteq 0 .. heap.end - 1
  <2>1. list[b].ptr \in Nat /\ Units(b) \in Nat /\ heap.end \in Nat
        /\ list[b].ptr + Units(b) <= heap.end
    BY ListedHas
  <2> QED
    BY <2>1 DEF Extent
<1>2. ASSUME NEW b \in Listed, NEW c \in Listed, b # c
      PROVE  Extent(b) \cap Extent(c) = {}
  <2> DEFINE x == list[b].ptr
             y == list[c].ptr
  <2>1. x # y
    BY <1>2, ListedIs DEF Inv, Chain
  <2>2. /\ x \in Blocks /\ x \in Nat /\ Units(b) \in Nat /\ After(heap, x) = x + Units(b)
        /\ y \in Blocks /\ y \in Nat /\ Units(c) \in Nat /\ After(heap, y) = y + Units(c)
    BY ListedHas
  <2> HIDE DEF x, y
  <2>3. (y <= x \/ x + Units(b) <= y) /\ (x <= y \/ y + Units(c) <= x)
    BY <2>2 DEF Inv, Sound, Tiles
  <2>4. x + Units(b) <= y \/ y + Units(c) <= x
    BY <2>1, <2>2, <2>3
  <2>5. Extent(b) = x .. x + Units(b) - 1 /\ Extent(c) = y .. y + Units(c) - 1
    BY DEF Extent, x, y
  <2> QED
    BY <2>2, <2>4, <2>5
<1> QED
  BY <1>1, <1>2 DEF BlocksDisjoint

\* Tiles and NoPair are what mm_check and the header of memmgr.c ask for.
LEMMA CoherentFollows == Inv => Coherent
<1> SUFFICES ASSUME Inv PROVE Coherent
  OBVIOUS
<1>1. Tiles(heap, Blocks) /\ NoPair(heap, Blocks)
  BY DEF Inv, Sound
<1>2. heap.ftr[0] = PACK(0, ALLOC) /\ heap.hdr[heap.end] = PACK(0, ALLOC)
  BY <1>1 DEF Tiles
<1>3. mm_check(heap)
  <2>1. ASSUME NEW b \in Blocks
        PROVE  /\ heap.hdr[b].size > 0 /\ b + heap.hdr[b].size <= heap.end
               /\ heap.ftr[b + heap.hdr[b].size] = heap.hdr[b]
    <3>1. /\ heap.hdr[b].size > 0 /\ After(heap, b) <= heap.end
          /\ heap.ftr[After(heap, b)] = heap.hdr[b]
      BY <1>1, TilesFacts DEF Tiles
    <3> QED
      BY <3>1 DEF After
  <2> QED
    BY <2>1 DEF mm_check, Blocks
<1>4. {<<b, heap.hdr[b].size>> : b \in {c \in Blocks : heap.hdr[c].status = ALLOC}}
        = {<<list[b].ptr, Units(b)>> : b \in Listed}
  <2> DEFINE L == {<<x, heap.hdr[x].size>> : x \in Used(heap, Blocks)}
             R == {<<list[b].ptr, Units(b)>> : b \in Listed}
  <2>1. ASSUME NEW x \in Used(heap, Blocks)
        PROVE  <<x, heap.hdr[x].size>> \in R
    <3>1. PICK b \in Listed : list[b].ptr = x
      BY ListedIs DEF Inv, Held
    <3>2. heap.hdr[x].size = Units(b)
      BY <3>1, ListedHas
    <3> QED
      BY <3>1, <3>2
  <2>2. ASSUME NEW b \in Listed
        PROVE  <<list[b].ptr, Units(b)>> \in L
    <3>1. list[b].ptr \in Used(heap, Blocks) /\ heap.hdr[list[b].ptr].size = Units(b)
      BY ListedHas
    <3> QED
      BY <3>1
  <2>3. L = R
    BY <2>1, <2>2
  <2> QED
    BY <2>3 DEF Used
<1>5. ASSUME NEW b \in Blocks, heap.hdr[b].status = FREE
      PROVE  heap.hdr[b + heap.hdr[b].size].status = ALLOC
  BY <1>1, <1>5 DEF NoPair, After
<1> QED
  BY <1>2, <1>3, <1>4, <1>5 DEF Coherent

\* A block in use is a listed one.
LEMMA NextFitFollows == Inv => NextFitOnBlock
<1> SUFFICES ASSUME Inv PROVE NextFitOnBlock
  OBVIOUS
<1>1. \A x \in Used(heap, Blocks) : \E b \in Listed : list[b].ptr = x
  BY ListedIs DEF Inv, Held
<1>2. heap.nf \in {NULL, 0} \cup Used(heap, Blocks)
  BY DEF Inv, Sound
<1> QED
  BY <1>1, <1>2 DEF NextFitOnBlock

\* The array made of the list is the list.
LEMMA LinkedFollows == Inv => ListIsLinked
<1> SUFFICES ASSUME Inv PROVE ListIsLinked
  OBVIOUS
<1> DEFINE cells == get_block_array(list)
<1>1. Chain(list) /\ (mode = "freeing" => Copied(array))
  BY DEF Inv
<1>2. /\ {cells[i] : i \in DOMAIN cells} = Listed
      /\ \A i, j \in DOMAIN cells : i < j => list[cells[i]].ptr < list[cells[j]].ptr
  BY <1>1, ArrayIs, ListedIs
<1>3. \A c \in Cells : c # Tail_ /\ list[c].live => list[list[c].next].prev = c
  BY <1>1 DEF Chain, Linked, Live
<1> HIDE DEF cells
<1> QED
  BY <1>1, <1>2, <1>3 DEF ListIsLinked, cells

\* Whatever is allocated, freed and reallocated, heap_end stays inside the data
\* segment and what is kept as an address is one (memmgr.c, all functions).
THEOREM TypeAlways == Spec => []TypeOK
  BY InvAlways, TypeFollows, PTL

\* mm_malloc and mm_realloc hand out blocks that lie within the heap and do not
\* overlap, under each of the three policies, for requests of any size.
THEOREM DisjointAlways == Spec => []BlocksDisjoint
  BY InvAlways, DisjointFollows, PTL

\* Header and footer of every block agree from the one sentinel to the other,
\* the blocks in use are those the client was given, with the sizes it asked
\* for, and free neighbours are always merged (mm_malloc, mm_free, mm_realloc).
THEOREM CoherentAlways == Spec => []Coherent
  BY InvAlways, CoherentFollows, PTL

\* No free, merge, split or realloc leaves nf_curr inside a block or behind the
\* end of the heap: nf_get_free_block starts at heap_start or a block in use.
THEOREM NextFitAlways == Spec => []NextFitOnBlock
  BY InvAlways, NextFitFollows, PTL

\* insert_block and delete_block keep the list one chain in both directions, in
\* the order of the addresses, and do_free's copy of it still has all the cells
\* that this line has not freed.
THEOREM LinkedAlways == Spec => []ListIsLinked
  BY InvAlways, LinkedFollows, PTL

=============================================================================
