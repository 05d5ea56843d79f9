----------------------------- MODULE BlockList ------------------------------
(***************************************************************************)
(* The list in which a client of the memory manager of Lab 3 keeps what it *)
(* holds (blocklist.c): cells linked both ways between two sentinels and   *)
(* sorted by the address of their blocks.  A list is a function from cells *)
(* to their fields; every function of blocklist.c is an operator on it.    *)
(* The flags of a block are always 1 and left out.                         *)
(***************************************************************************)
EXTENDS Integers, Sequences, FiniteSets

CONSTANTS
  Nodes,   \* the memory calloc has for cells
  Nil,     \* a NULL pointer to a cell
  Beyond   \* (void *)-1, larger than every address

Head_ == "head"
Tail_ == "tail"
Cells == Nodes \cup {Head_, Tail_}

ASSUME ListAssumption ==
  /\ IsFiniteSet(Nodes) /\ Nodes \cap {Head_, Tail_} = {} /\ Nil \notin Cells

Blank == [prev |-> Nil, next |-> Nil, ptr |-> -1, size |-> 0, live |-> FALSE]

init_blocklist ==
  [c \in Cells |->
     CASE c = Head_ -> [Blank EXCEPT !.next = Tail_, !.live = TRUE]
       [] c = Tail_ -> [Blank EXCEPT !.prev = Head_, !.ptr = Beyond, !.live = TRUE]
       [] OTHER -> Blank]

\* The cells that following next from the head leads to.
Ahead(l) ==
  LET at[k \in 0 .. Cardinality(Nodes) + 1] ==
        IF k = 0 THEN Head_
        ELSE IF at[k - 1] = Tail_ THEN Tail_ ELSE l[at[k - 1]].next
  IN  at

\* The searches: from the head to the first of the cells that pass.  The tail,
\* whose ptr is beyond every address, always does.
FirstOf(l, passing) ==
  LET at == Ahead(l)
  IN  at[CHOOSE k \in DOMAIN at : at[k] \in passing /\ \A j \in 0 .. k - 1 : at[j] \notin passing]

\* Slip in insert_block: the cell behind keeps its link to the one before.
InsertForward(l, b, ptr, size) ==
  LET s == FirstOf(l, {c \in Cells : l[c].ptr > ptr})
      p == l[s].prev
  IN  [l EXCEPT ![b] = [prev |-> p, next |-> s, ptr |-> ptr, size |-> size, live |-> TRUE],
                ![p].next = b]

\* Into a fresh cell b, before the first cell with a larger address.
insert_block(l, b, ptr, size) ==
  LET s == FirstOf(l, {c \in Cells : l[c].ptr > ptr})
      p == l[s].prev
  IN  [l EXCEPT ![b] = [prev |-> p, next |-> s, ptr |-> ptr, size |-> size, live |-> TRUE],
                ![s].prev = b, ![p].next = b]

find_block(l, ptr) ==
  LET b == FirstOf(l, {c \in Cells : l[c].ptr >= ptr})
  IN  IF l[b].ptr = ptr THEN b ELSE Nil

\* The cell is unlinked and freed; a pointer to it dangles from now on.
delete_block(l, ptr) ==
  LET b == find_block(l, ptr)
  IN  IF b = Nil THEN l
      ELSE [l EXCEPT ![l[b].prev].next = l[b].next,
                     ![l[b].next].prev = l[b].prev,
                     ![b] = Blank]

\* Indices count from 0.
find_block_by_index(l, idx) ==
  LET b == Ahead(l)[idx + 1]
  IN  IF b = Tail_ THEN Nil ELSE b

num_blocks(l) ==
  CHOOSE n \in 0 .. Cardinality(Nodes) :
    Ahead(l)[n + 1] = Tail_ /\ \A m \in 0 .. n - 1 : Ahead(l)[m + 1] # Tail_

\* The array of pointers to the cells, without the NULL behind them.
get_block_array(l) ==
  [i \in 1 .. num_blocks(l) |-> find_block_by_index(l, i - 1)]

=============================================================================
