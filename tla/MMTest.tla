------------------------------- MODULE MMTest -------------------------------
(***************************************************************************)
(* The menu of mm_test.c: the memory manager (Heap) and the list of what   *)
(* the user has allocated (BlockList), which must never disagree.  The     *)
(* numbers a user types in one line are taken one at a time; do_free works *)
(* on a copy of the list made before the first of them.  The driver of the *)
(* lab, which exists as object files only, keeps its blocks in the same    *)
(* list and calls mm_realloc as well: DriverRealloc.                       *)
(***************************************************************************)
EXTENDS Heap, BlockList

ASSUME BeyondAssumption == Beyond \in Nat /\ Limit < Beyond

VARIABLES
  list,      \* the block list
  array,     \* do_free's copy of it
  mode       \* "menu", "freeing" inside do_free, "ended"

vars == <<heap, ap, list, array, mode>>

Init ==
  /\ HeapInit
  /\ list = init_blocklist
  /\ array = <<>>
  /\ mode = "menu"

\* One size of the line.  The bounds: cells, and room in the data segment.
do_malloc(bytes) ==
  /\ mode = "menu" /\ RoomFor(heap, NULL, bytes)
  /\ LET m == mm_malloc(heap, bytes)
     IN /\ heap' = m.heap
        /\ \E b \in Nodes : ~list[b].live /\ list' = insert_block(list, b, m.block, bytes)
  /\ UNCHANGED <<ap, array, mode>>

do_free ==
  /\ mode = "menu"
  /\ array' = get_block_array(list)
  /\ mode' = "freeing"
  /\ UNCHANGED <<heap, ap, list>>

\* One index of the line; one that is too large changes nothing.
FreeIndex(index) ==
  /\ mode = "freeing" /\ index \in DOMAIN array /\ list[array[index]].live
  /\ heap' = mm_free(heap, list[array[index]].ptr)
  /\ list' = delete_block(list, list[array[index]].ptr)
  /\ UNCHANGED <<ap, array, mode>>

\* An index named before in this line: b->ptr is read from a cell that has been
\* freed.  The behaviour is undefined and the model ends.
FreeIndexAgain(index) ==
  /\ mode = "freeing" /\ index \in DOMAIN array /\ ~list[array[index]].live
  /\ mode' = "ended"
  /\ UNCHANGED <<heap, ap, list, array>>

EndOfLine ==
  /\ mode = "freeing"
  /\ array' = <<>>
  /\ mode' = "menu"
  /\ UNCHANGED <<heap, ap, list>>

\* 'q'.
Quit == mode = "menu" /\ mode' = "ended" /\ UNCHANGED <<heap, ap, list, array>>

DriverRealloc(b, bytes) ==
  /\ mode = "menu" /\ list[b].live
  /\ RoomFor(heap, list[b].ptr, bytes)
  /\ LET r == mm_realloc(heap, list[b].ptr, bytes)
     IN /\ heap' = r.heap
        /\ list' = insert_block(delete_block(list, list[b].ptr), b, r.block, bytes)
  /\ UNCHANGED <<ap, array, mode>>

Next ==
  \/ do_free \/ EndOfLine \/ Quit
  \/ \E bytes \in Requests : do_malloc(bytes)
  \/ \E index \in 1 .. Cardinality(Nodes) : FreeIndex(index) \/ FreeIndexAgain(index)
  \/ \E b \in Nodes, bytes \in Requests : DriverRealloc(b, bytes)

Spec == Init /\ [][Next]_vars

-----------------------------------------------------------------------------
(* Properties.                                                             *)

Listed == {b \in Nodes : list[b].live}
Units(b) == BlockSize(list[b].size)
Extent(b) == list[b].ptr .. list[b].ptr + Units(b) - 1
Blocks == Walk(heap)[0]

\* heap_end stays inside the data segment, and what is kept as a block's
\* address or in nf_curr is an address (memmgr.c, all functions).
TypeOK ==
  /\ heap.end \in 0 .. Limit - 2
  /\ heap.hdr \in [Addresses -> Tag] /\ heap.ftr \in [Addresses -> Tag]
  /\ heap.nf \in {NULL} \cup 0 .. Limit - 2
  /\ \A b \in Listed : list[b].ptr \in Addresses /\ list[b].size \in Requests
  /\ array \in Seq(Nodes)
  /\ mode \in {"menu", "freeing", "ended"}

\* "The entire allocated block must lie within the heap region and must not
\* overlap with any other block" (README.md of the lab, on mm_malloc), with
\* the sizes the user asked for and not those in the tags.
BlocksDisjoint ==
  /\ \A b \in Listed : Extent(b) \subseteq 0 .. heap.end - 1
  /\ \A b, c \in Listed : b # c => Extent(b) \cap Extent(c) = {}

\* The tags tell what the client was given.  mm_check finds the structure
\* coherent between the two sentinels; the allocated blocks it walks over are
\* those of the block list; and no two free blocks are neighbours ("immediate
\* coalescing upon free", memmgr.c, header), whatever mm_free, mm_realloc and
\* the splits leave behind.
Coherent ==
  /\ heap.ftr[0] = PACK(0, ALLOC) /\ heap.hdr[heap.end] = PACK(0, ALLOC)
  /\ mm_check(heap)
  /\ {<<b, heap.hdr[b].size>> : b \in {c \in Blocks : heap.hdr[c].status = ALLOC}}
       = {<<list[b].ptr, Units(b)>> : b \in Listed}
  /\ \A b \in Blocks :
       LET next == b + heap.hdr[b].size
       IN  heap.hdr[b].status = FREE /\ next < heap.end => heap.hdr[next].status = ALLOC

\* nf_curr, read by the next search, is heap_start or a block that is in use:
\* no free, merge or realloc leaves it inside a block, where the tags it would
\* read are the client's data or left behind by a merge.
NextFitOnBlock == heap.nf \in {NULL, 0} \cup {list[b].ptr : b \in Listed}

\* The array holds all that is listed, in the order of the list.
Copied(cells) ==
  /\ Listed \subseteq {cells[i] : i \in DOMAIN cells}
  /\ \A i, j \in DOMAIN cells :
       i < j /\ {cells[i], cells[j]} \subseteq Listed => list[cells[i]].ptr < list[cells[j]].ptr

\* The list is one chain in both directions through all its cells, in the
\* order of the addresses; and what this line has not freed is in do_free's
\* copy, in that order still: an index means the block the user saw.
ListIsLinked ==
  LET cells == get_block_array(list)
  IN  /\ {cells[i] : i \in DOMAIN cells} = Listed
      /\ \A c \in Cells : c # Tail_ /\ list[c].live => list[list[c].next].prev = c
      /\ \A i, j \in DOMAIN cells : i < j => list[cells[i]].ptr < list[cells[j]].ptr
      /\ mode = "freeing" => Copied(array)

=============================================================================
