-------------------------------- MODULE Heap --------------------------------
(***************************************************************************)
(* The dynamic memory manager of Lab 3 (memmgr.c) on its simulated data    *)
(* segment (dataseg.c): an implicit free list with boundary tags, the      *)
(* three placement policies, as functions of the heap's memory.  MMTest    *)
(* composes it with a client that holds the pointers.                      *)
(*                                                                         *)
(* Addresses count blocks of BS = 32 bytes from heap_start.  Address b has *)
(* two words next to it that can be tags: hdr[b], the word at b, and       *)
(* ftr[b], the word before it.  They are memory: a tag that is overwritten *)
(* by a client or left behind by a merge is what a stray pointer reads.    *)
(* The client fills its blocks with the word Payload.                      *)
(***************************************************************************)
EXTENDS Integers, FiniteSets

CONSTANTS
  Chunk,          \* CHUNKSIZE: heap_end after mm_init
  Limit,          \* ds_heap_end
  Requests,       \* sizes in bytes it asks for
  Policies,       \* policies mm_init is called with
  Payload         \* what the client's data look like, read as a tag

FREE == 0
ALLOC == 1
NULL == -2
Tag == [size : Nat, status : {FREE, ALLOC}]

ASSUME HeapAssumption ==
  /\ Chunk \in Nat \ {0} /\ Limit \in Nat /\ Chunk + 1 < Limit
  /\ \A bytes \in Requests : bytes \in Nat \ {0}
  /\ Policies \subseteq {"FirstFit", "NextFit", "BestFit"}
  /\ Payload \in Tag

\* heap_start is one block after ds_heap_start.
Addresses == -1 .. Limit

VARIABLES
  heap,      \* [hdr, ftr, end, nf]: the tags, heap_end, nf_curr
  ap         \* the policy

(***************************************************************************)
(* Tags.                                                                   *)
(***************************************************************************)
PACK(size, flag) == [size |-> size, status |-> flag]

\* Header and footer of the block of that size at b.
Mark(h, b, size, flag) ==
  [h EXCEPT !.hdr[b] = PACK(size, flag), !.ftr[b + size] = PACK(size, flag)]

EndSentinel(h, end) == [h EXCEPT !.end = end, !.hdr[end] = PACK(0, ALLOC)]

\* Block size, in units of BS, for a request in bytes: two tags and rounding.
BlockSize(bytes) == (bytes + 2 * 8 - 1) \div 32 + 1

\* ds_sbrk: the brk is one block behind heap_end; out of range it stays.
Sbrk(end, increment) ==
  IF 0 <= end + increment + 2 /\ end + increment + 1 < Limit
  THEN end + increment ELSE end

(***************************************************************************)
(* The placement policies.                                                 *)
(***************************************************************************)

\* The blocks a walk by header sizes visits from each address on.
Walk(h) ==
  LET visits[b \in 0 .. h.end] ==
        LET next == b + h.hdr[b].size
        IN  IF b = h.end THEN {}
            ELSE IF next = b \/ next >= h.end THEN {b} ELSE {b} \cup visits[next]
  IN  visits

\* Slip in Fits: one block short.
FitsAlmost(h, b, n) == h.hdr[b].status = FREE /\ h.hdr[b].size + 1 >= n

Fits(h, b, n) == h.hdr[b].status = FREE /\ h.hdr[b].size >= n

Lowest(S)  == IF S = {} THEN NULL ELSE CHOOSE b \in S : \A c \in S : b <= c
Highest(S) == IF S = {} THEN NULL ELSE CHOOSE b \in S : \A c \in S : c <= b

\* Each search returns the block and what nf_curr is afterwards.
ff_get_free_block(h, n) ==
  [block |-> Lowest({b \in Walk(h)[0] : Fits(h, b, n)}), nf |-> h.nf]

\* best_size is set to the size wanted, not to the size found: the last block
\* that fits is taken.
bf_get_free_block(h, n) ==
  [block |-> Highest({b \in Walk(h)[0] : Fits(h, b, n)}), nf |-> h.nf]

nf_get_free_block(h, n) ==
  LET start  == IF h.nf = NULL \/ h.nf >= h.end THEN 0 ELSE h.nf
      behind == {b \in Walk(h)[start] : Fits(h, b, n)}
      before == {b \in Walk(h)[0] : Fits(h, b, n) /\ b < start}
      found  == Lowest(IF behind # {} THEN behind ELSE before)
  IN  [block |-> found, nf |-> IF found = NULL THEN start ELSE found]

get_free_block(h, n) ==
  CASE ap = "FirstFit" -> ff_get_free_block(h, n)
    [] ap = "BestFit"  -> bf_get_free_block(h, n)
    [] ap = "NextFit"  -> nf_get_free_block(h, n)

(***************************************************************************)
(* Allocating and freeing a block of n units, as functions of the heap.    *)
(***************************************************************************)

\* What ds_sbrk is asked for: a free block at the end is used up first.
Growth(h, n) == n - (IF h.ftr[h.end].status = FREE THEN h.ftr[h.end].size ELSE 0)

\* The heap with a free block of n units at its end, wherever that end is.
Grow(h, n) ==
  LET end == Sbrk(h.end, Growth(h, n))
  IN  Mark(EndSentinel(h, end), end - n, n, FREE)

\* Slip in Place: the rest of a block that is split gets no footer.
PlaceNoFooter(h, b, n) ==
  LET rest == h.hdr[b].size - n
      placed == Mark(h, b, n, ALLOC)
  IN  IF rest > 0 THEN [placed EXCEPT !.hdr[b + n] = PACK(rest, FREE)] ELSE placed

\* Splits the free block at b.
Place(h, b, n) ==
  LET rest == h.hdr[b].size - n
      placed == Mark(h, b, n, ALLOC)
  IN  IF rest > 0 THEN Mark(placed, b + n, rest, FREE) ELSE placed

\* The block mm_malloc returns, and the heap after it.
Malloc(h, n) ==
  LET search == get_free_block(h, n)
      looked == [h EXCEPT !.nf = search.nf]
      grown  == Grow(looked, n)
  IN  IF search.block # NULL
      THEN [block |-> search.block, heap |-> Place(looked, search.block, n)]
      ELSE [block |-> grown.end - n, heap |-> Place(grown, grown.end - n, n)]

\* The heap is large enough for Malloc(h, n).
Enough(h, n) ==
  get_free_block(h, n).block # NULL \/ Sbrk(h.end, Growth(h, n)) # h.end

\* Slip in Merged: the block before is not looked at.
MergedForward(h, b) ==
  LET after == h.hdr[b + h.hdr[b].size]
      size  == h.hdr[b].size + (IF after.status = FREE THEN after.size ELSE 0)
  IN  [at |-> b, size |-> size]

\* The free block that freeing b leads to.
Merged(h, b) ==
  LET before == h.ftr[b]
      after  == h.hdr[b + h.hdr[b].size]
      at     == IF before.status = FREE THEN b - before.size ELSE b
      end    == b + h.hdr[b].size + (IF after.status = FREE THEN after.size ELSE 0)
  IN  [at |-> at, size |-> end - at]

\* Slip in Trim: one block too many is given back.
TrimTooMuch(h, free) ==
  IF free.at + free.size = h.end
  THEN EndSentinel(h, Sbrk(h.end, -free.size - 1))
  ELSE h

\* A free block at the end of the heap is given back.
Trim(h, free) ==
  IF free.at + free.size = h.end
  THEN EndSentinel(h, Sbrk(h.end, -free.size))
  ELSE h

\* Slip in Recall: only a pointer to the freed block itself is reset.
RecallExact(h, free) == IF h.nf = free.at THEN [h EXCEPT !.nf = 0] ELSE h

\* nf_curr is reset when it points into the free block or behind the heap.
Recall(h, free) ==
  IF h.nf # NULL /\ (h.nf >= h.end \/ h.nf \in free.at .. free.at + free.size - 1)
  THEN [h EXCEPT !.nf = 0] ELSE h

\* The tags mm_free writes: those of b, of b with the block before it, and of
\* all three; where blocks met, the tags of the smaller ones stay behind.
Coalesce(h, b) ==
  LET free == Merged(h, b)
      next == b + h.hdr[b].size
      alone == Mark(h, b, next - b, FREE)
      joined == Mark(alone, free.at, next - free.at, FREE)
  IN  Mark(joined, free.at, free.size, FREE)

Free(h, b) ==
  LET free == Merged(h, b)
  IN  Recall(Trim(Coalesce(h, b), free), free)

\* The block at b with only its first n units; the rest, up to end, is freed.
Cut(h, b, n, end) ==
  LET kept == Mark(h, b, n, ALLOC)
  IN  IF b + n = end THEN kept
      ELSE Free(Mark(kept, b + n, end - (b + n), ALLOC), b + n)

(***************************************************************************)
(* The interface.                                                          *)
(***************************************************************************)

\* ds_allocate and mm_init with any policy.
HeapInit ==
  /\ ap \in Policies
  /\ LET blank == [hdr |-> [b \in Addresses |-> PACK(0, FREE)],
                   ftr |-> [b \in Addresses |-> PACK(0, FREE)],
                   end |-> Chunk, nf |-> NULL]
         start == [blank EXCEPT !.ftr[0] = PACK(0, ALLOC)]
     IN  heap = EndSentinel(Mark(start, 0, Chunk, FREE), Chunk)

\* The client's data are all words of the block but its header and footer.
Fill(h, b, n) ==
  [h EXCEPT !.hdr = [a \in Addresses |-> IF a \in b + 1 .. b + n - 1 THEN Payload ELSE @[a]],
            !.ftr = [a \in Addresses |-> IF a \in b + 1 .. b + n - 1 THEN Payload ELSE @[a]]]

\* mm_malloc, mm_calloc, and mm_realloc of NULL: the block, filled.
mm_malloc(h, bytes) ==
  LET n == BlockSize(bytes)
      m == Malloc(h, n)
  IN  [block |-> m.block, heap |-> Fill(m.heap, m.block, n)]

\* mm_free, and mm_realloc to size 0.
mm_free(h, b) == Free(h, b)

\* What mm_realloc can use in place: the block and a free one behind it.
InPlace(h, b) ==
  LET size == h.hdr[b].size
      next == h.hdr[b + size]
  IN  size + (IF next.status = FREE THEN next.size ELSE 0)

\* The block is large enough already, and what is left over is freed; or it
\* grows into the free block behind it; or it moves: mm_malloc, memcpy, mm_free.
mm_realloc(h, b, bytes) ==
  LET n == BlockSize(bytes)
      size == h.hdr[b].size
      moved == mm_malloc(h, bytes)
  IN  CASE n = size -> [block |-> b, heap |-> h]
        [] n < size -> [block |-> b, heap |-> Fill(Cut(h, b, n, b + size), b, n)]
        [] n > size /\ n <= InPlace(h, b) ->
             [block |-> b, heap |-> Fill(Cut(h, b, n, b + InPlace(h, b)), b, n)]
        [] OTHER -> [block |-> moved.block, heap |-> mm_free(moved.heap, b)]

\* The data segment has room for the request, should b be reallocated, or for
\* a new block, when b is NULL.
RoomFor(h, b, bytes) ==
  LET n == BlockSize(bytes)
  IN  Enough(h, n) \/ (b # NULL /\ n <= InPlace(h, b))

\* mm_check prints "Block structure coherent.": its walk by headers meets no
\* block of size 0, no footer that differs, and ends at heap_end.
mm_check(h) ==
  \A b \in Walk(h)[0] :
    LET size == h.hdr[b].size
    IN  /\ size > 0
        /\ b + size <= h.end
        /\ h.ftr[b + size] = h.hdr[b]

=============================================================================
