---------------------------- MODULE OrderService ----------------------------
(***************************************************************************)
(* What the McDonald's server promises its customers, without threads,     *)
(* nodes or locks: orders are taken from the line in the order they were   *)
(* placed, each is cooked once, and a burger is handed over only to the    *)
(* customer whose order has been cooked.  Operation 4 to 8 of the Lab 5    *)
(* README; mcdonalds.c implements it (see McDonalds).                      *)
(***************************************************************************)
EXTENDS Naturals, Sequences

CONSTANT Customers

VARIABLES
  phase,   \* how far each customer's order has come
  line     \* the customers whose orders nobody has taken yet, first come first

Phases == {"none", "queued", "cooking", "cooked", "served"}

OrderTypeOK ==
  /\ phase \in [Customers -> Phases]
  /\ line \in Seq(Customers)

Init ==
  /\ phase = [c \in Customers |-> "none"]
  /\ line = <<>>

Move(c, from, to) ==
  /\ phase[c] = from
  /\ phase' = [phase EXCEPT ![c] = to]

Place(c) == line' = Append(line, c) /\ Move(c, "none", "queued")

Take ==
  /\ line # <<>>
  /\ line' = Tail(line)
  /\ Move(Head(line), "queued", "cooking")

Finish(c) == Move(c, "cooking", "cooked") /\ UNCHANGED line

Serve(c) == Move(c, "cooked", "served") /\ UNCHANGED line

Next == Take \/ \E c \in Customers : Place(c) \/ Finish(c) \/ Serve(c)

Spec == Init /\ [][Next]_<<phase, line>>

=============================================================================
