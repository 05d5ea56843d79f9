-------------------------- MODULE McDonaldsProofs --------------------------
(***************************************************************************)
(* The seats: total_queueing counts those occupied and stays within        *)
(* CUSTOMER_MAX, for every number of customers, kitchens and nodes, and    *)
(* also when nodes are allocated again after free and when waits end       *)
(* without a signal.                                                       *)
(*                                                                         *)
(* The order list and the way of an order through it, for every number of  *)
(* customers and kitchens, as long as malloc returns fresh memory and no   *)
(* wait ends without a signal.                                             *)
(*                                                                         *)
(* On the same condition, that the server keeps the promise of             *)
(* OrderService: each of its steps places, takes, finishes or hands over   *)
(* one order, in the order they were placed, or is invisible to the        *)
(* customers. And that the statistics count, of each kind, the burgers the *)
(* customers were sent.                                                    *)
(***************************************************************************)
EXTENDS McDonalds, FiniteSetTheorems, SequenceTheorems, TLAPS

(***************************************************************************)
(* Seats.                                                                  *)
(***************************************************************************)

MainInHand ==
  /\ mpc = "admit" => conn \in Customers /\ serve[conn] = "accepted"
  /\ mpc = "spawn" => conn \in Customers /\ serve[conn] = "seated"

\* The inductive invariant: main is the only thread that takes a seat, and
\* the connection it does so for is in nobody else's hands.
SeatsInv ==
  /\ mpc \in {"accept", "admit", "spawn", "returned"}
  /\ serve \in [Customers -> ServePoints]
  /\ total_queueing \in Nat
  /\ MainInHand
  /\ SeatsAccounted

\* The seated customers are finitely many, as all customers are.
LEMMA SeatedFinite == IsFiniteSet(SeatedCustomers)
  BY ConstantsAssumption, FS_Subset DEF ConstantsAssumption, SeatedCustomers

\* A thread that moves between two seated points keeps its seat.
LEMMA SeatKept ==
  ASSUME serve \in [Customers -> ServePoints],
         NEW c \in Customers, NEW p \in ServePoints,
         Goto(c, p), p \in Seated <=> serve[c] \in Seated
  PROVE  SeatedCustomers' = SeatedCustomers
  BY DEF Goto, SeatedCustomers

\* Taking a seat adds one to their number.
LEMMA SeatTaken ==
  ASSUME serve \in [Customers -> ServePoints],
         NEW c \in Customers, NEW p \in Seated,
         Goto(c, p), serve[c] \notin Seated
  PROVE  Cardinality(SeatedCustomers') = Cardinality(SeatedCustomers) + 1
<1>1. SeatedCustomers' = SeatedCustomers \cup {c}
  BY DEF Goto, SeatedCustomers
<1>2. c \notin SeatedCustomers
  BY DEF SeatedCustomers
<1> QED
  BY <1>1, <1>2, SeatedFinite, FS_AddElement

\* Giving one back takes one off it, and there was one.
LEMMA SeatReturned ==
  ASSUME serve \in [Customers -> ServePoints],
         NEW c \in Customers, NEW p \in ServePoints,
         Goto(c, p), serve[c] \in Seated, p \notin Seated
  PROVE  /\ Cardinality(SeatedCustomers') = Cardinality(SeatedCustomers) - 1
         /\ Cardinality(SeatedCustomers) \in Nat \ {0}
<1>1. SeatedCustomers' = SeatedCustomers \ {c}
  BY DEF Goto, SeatedCustomers
<1>2. c \in SeatedCustomers
  BY DEF SeatedCustomers
<1>3. Cardinality(SeatedCustomers) # 0
  BY <1>2, SeatedFinite, FS_EmptySet
<1> QED
  BY <1>1, <1>2, <1>3, SeatedFinite, FS_RemoveElement, FS_CardinalityType

\* No step of a serving thread before its last disturbs the seats.
LEMMA SeatsInvKept ==
  ASSUME SeatsInv, NEW c \in Customers, NEW p \in ServePoints,
         Goto(c, p), p \in Seated <=> serve[c] \in Seated,
         serve[c] \notin {"accepted", "seated"},
         UNCHANGED <<mainVars, total_queueing>>
  PROVE  SeatsInv'
<1>1. SeatedCustomers' = SeatedCustomers
  BY SeatKept DEF SeatsInv
<1>2. serve' \in [Customers -> ServePoints]
  BY DEF SeatsInv, Goto
<1>3. MainInHand'
  BY DEF SeatsInv, MainInHand, Goto, mainVars
<1> QED
  BY <1>1, <1>2, <1>3 DEF SeatsInv, SeatsAccounted, mainVars

LEMMA SeatsInvInit == Init => SeatsInv
<1> SUFFICES ASSUME Init PROVE SeatsInv
  OBVIOUS
<1>1. SeatedCustomers = {}
  BY DEF Init, SeatedCustomers, Seated, Ordering
<1>2. Cardinality(SeatedCustomers) = 0
  BY <1>1, FS_EmptySet
<1> QED
  BY <1>2, ConstantsAssumption
  DEF Init, SeatsInv, MainInHand, SeatsAccounted, ServePoints,
      ConstantsAssumption

LEMMA SeatsInvNext == SeatsInv /\ [Next]_vars => SeatsInv'
<1> SUFFICES ASSUME SeatsInv, [Next]_vars PROVE SeatsInv'
  OBVIOUS
<1> USE DEF ServePoints, Seated, Ordering
<1>1. CASE UNCHANGED <<mainVars, serve, total_queueing>>
  BY <1>1
  DEF SeatsInv, MainInHand, SeatsAccounted, SeatedCustomers, mainVars
<1>2. CASE Accept
  <2>1. ASSUME NEW c \in Customers, serve[c] = "backlog",
               serve' = [serve EXCEPT ![c] = "accepted"],
               mpc' = "admit", conn' = c, UNCHANGED total_queueing
        PROVE  SeatsInv'
    <3>1. SeatedCustomers' = SeatedCustomers
      BY <2>1, SeatKept DEF SeatsInv, Goto
    <3>2. serve' \in [Customers -> ServePoints] /\ MainInHand'
      BY <2>1 DEF SeatsInv, MainInHand
    <3> QED
      BY <2>1, <3>1, <3>2 DEF SeatsInv, SeatsAccounted
  <2>2. ASSUME mpc' = "returned", UNCHANGED <<conn, serve, total_queueing>>
        PROVE  SeatsInv'
    BY <2>2 DEF SeatsInv, MainInHand, SeatsAccounted, SeatedCustomers
  <2> QED
    BY <1>2, <2>1, <2>2 DEF Accept, counters
<1>3. CASE Admit
  <2>1. conn \in Customers /\ serve[conn] = "accepted"
    BY <1>3 DEF Admit, SeatsInv, MainInHand
  <2>2. CASE total_queueing >= CustomerMax
    <3>1. Goto(conn, "declined") /\ mpc' = "accept" /\ UNCHANGED total_queueing
      BY <1>3, <2>2, ConstantsAssumption
      DEF Admit, Goto, SeatsInv, ConstantsAssumption
    <3>2. SeatedCustomers' = SeatedCustomers
      BY <2>1, <3>1, SeatKept DEF SeatsInv
    <3>3. serve' \in [Customers -> ServePoints]
      BY <3>1 DEF SeatsInv, Goto
    <3> QED
      BY <3>1, <3>2, <3>3 DEF SeatsInv, SeatsAccounted, MainInHand
  <2>3. CASE total_queueing < CustomerMax
    <3>1. /\ Goto(conn, "seated") /\ mpc' = "spawn" /\ conn' = conn
          /\ total_queueing' = total_queueing + 1
      BY <1>3, <2>3, ConstantsAssumption
      DEF Admit, Goto, SeatsInv, ConstantsAssumption
    <3>2. Cardinality(SeatedCustomers') = Cardinality(SeatedCustomers) + 1
      BY <2>1, <3>1, SeatTaken DEF SeatsInv
    <3>3. serve' \in [Customers -> ServePoints] /\ MainInHand'
      BY <2>1, <3>1 DEF SeatsInv, MainInHand, Goto
    <3>4. total_queueing + 1 <= CustomerMax
      BY <2>3, ConstantsAssumption DEF SeatsInv, ConstantsAssumption
    <3> QED
      BY <3>1, <3>2, <3>3, <3>4 DEF SeatsInv, SeatsAccounted
  <2> QED
    BY <1>3, <2>2, <2>3 DEF Admit
<1>4. CASE Spawn
  <2>1. conn \in Customers /\ serve[conn] = "seated"
    BY <1>4 DEF Spawn, SeatsInv, MainInHand
  <2>2. ASSUME Goto(conn, "visit"), mpc' = "accept", UNCHANGED total_queueing
        PROVE  SeatsInv'
    <3>1. SeatedCustomers' = SeatedCustomers
      BY <2>1, <2>2, SeatKept DEF SeatsInv
    <3>2. serve' \in [Customers -> ServePoints]
      BY <2>2 DEF SeatsInv, Goto
    <3> QED
      BY <2>2, <3>1, <3>2 DEF SeatsInv, SeatsAccounted, MainInHand
  <2>3. ASSUME Goto(conn, "dropped"), mpc' = "returned",
               total_queueing' = total_queueing - 1
        PROVE  SeatsInv'
    <3>1. /\ Cardinality(SeatedCustomers') = Cardinality(SeatedCustomers) - 1
          /\ Cardinality(SeatedCustomers) \in Nat \ {0}
      BY <2>1, <2>3, SeatReturned DEF SeatsInv
    <3>2. serve' \in [Customers -> ServePoints]
      BY <2>3 DEF SeatsInv, Goto
    <3> QED
      BY <2>3, <3>1, <3>2, ConstantsAssumption
      DEF SeatsInv, SeatsAccounted, MainInHand, ConstantsAssumption
  <2> QED
    BY <1>4, <2>2, <2>3 DEF Spawn, Goto
<1>5. ASSUME NEW c \in Customers, Leave(c)
      PROVE  SeatsInv'
  <2>1. serve[c] = "leave" /\ Goto(c, "left") /\ UNCHANGED mainVars
    BY <1>5 DEF Leave, ServeAt
  <2>2. /\ Cardinality(SeatedCustomers') = Cardinality(SeatedCustomers) - 1
        /\ Cardinality(SeatedCustomers) \in Nat \ {0}
    BY <2>1, SeatReturned DEF SeatsInv
  <2>3. serve' \in [Customers -> ServePoints] /\ MainInHand'
    BY <2>1 DEF SeatsInv, MainInHand, Goto, mainVars
  <2> QED
    BY <1>5, <2>1, <2>2, <2>3, ConstantsAssumption
    DEF Leave, SeatsInv, SeatsAccounted, mainVars, ConstantsAssumption
<1>6. ASSUME NEW c \in Customers,
             \/ Connect(c) \/ Visit(c) \/ Welcome(c) \/ ReadOrder(c)
             \/ Allocate(c) \/ AppendOrder(c) \/ CheckReady(c) \/ Block(c)
             \/ WakeSpuriously(c) \/ Recheck(c) \/ HandBurger(c) \/ Release(c)
      PROVE  SeatsInv'
  <2>1. UNCHANGED <<mainVars, total_queueing>>
    BY <1>6
    DEF Connect, Visit, Welcome, ReadOrder, Allocate, AppendOrder, CheckReady,
        Block, WakeSpuriously, Recheck, HandBurger, Release, counters
  <2>2. \E p \in ServePoints :
          /\ Goto(c, p)
          /\ p \in Seated <=> serve[c] \in Seated
          /\ serve[c] \notin {"accepted", "seated"}
    BY <1>6
    DEF Connect, Visit, Welcome, ReadOrder, Allocate, AppendOrder, CheckReady,
        Block, WakeSpuriously, Recheck, HandBurger, Release, ServeAt, Goto
  <2> QED
    BY <2>1, <2>2, SeatsInvKept
<1>7. ASSUME NEW k \in Kitchens, Signal(k)
      PROVE  SeatsInv'
  <2>1. UNCHANGED <<mainVars, total_queueing>>
    BY <1>7 DEF Signal, counters
  <2>2. CASE UNCHANGED serve
    BY <1>1, <2>1, <2>2
  <2>3. ASSUME NEW c \in Waiters(plate[k]), Goto(c, "woken")
        PROVE  SeatsInv'
    BY <2>1, <2>3, SeatsInvKept DEF Waiters
  <2> QED
    BY <1>7, <2>2, <2>3 DEF Signal
<1>8. CASE ReturnFromMain \/ Sigint \/ Stopped
  BY <1>1, <1>8
  DEF ReturnFromMain, Sigint, Stopped, vars, serveVars, counters
<1>9. ASSUME NEW c \in Customers, AppendToFreed(c)
      PROVE  SeatsInv'
  BY <1>1, <1>9 DEF AppendToFreed, Crash, serveVars, counters
<1>10. ASSUME NEW k \in Kitchens, KitchenStep(k), ~Signal(k)
       PROVE  SeatsInv'
  BY <1>1, <1>10
  DEF KitchenStep, Loop, FindNothing, GetOrder, TakeHead, GetFromFreed, Nap,
      Cook, CookFreed, Tally, MarkReady, Crash, serveVars, counters
<1>11. CASE UNCHANGED vars
  BY <1>1, <1>11 DEF vars, serveVars, counters
<1> QED
  BY <1>2, <1>3, <1>4, <1>5, <1>6, <1>7, <1>8, <1>9, <1>10, <1>11
  DEF Next, MainStep, ServeStep, KitchenStep

\* total_queueing is the number of connections holding a seat and never
\* exceeds CUSTOMER_MAX (lines 300, 344-352, 357), whatever memory the order
\* nodes get and however waits end.
THEOREM SeatLimit == Spec => []SeatsAccounted
<1>1. SeatsInv => SeatsAccounted
  BY DEF SeatsInv
<1> QED
  BY SeatsInvInit, SeatsInvNext, <1>1, PTL DEF Spec

(***************************************************************************)
(* Orders.                                                                 *)
(***************************************************************************)

Faultless == ~Reuse /\ ~SpuriousWakeups

Waiting == {"check", "block", "wait"}

\* The order node a is allocated, not cooked, and its customer waits for it.
Entrusted(a) ==
  /\ a \in Nodes
  /\ mem[a] = "live" /\ ~is_ready[a]
  /\ customerID[a] \in Customers
  /\ order[customerID[a]] = a
  /\ serve[customerID[a]] \in Waiting

Owns(c) ==
  /\ order[c] \in Nodes
  /\ mem[order[c]] = "live"
  /\ customerID[order[c]] = c
  /\ type[order[c]] \in Burgers

Unlisted(a) == ~is_ready[a] /\ ~InQueue(a) /\ ~Held(a)

\* What each control point of serve_client knows of its order.
CustomersInv ==
  \A c \in Customers :
    /\ serve[c] \in Ordering \cup {"append"} => Owns(c)
    /\ serve[c] = "append" => Unlisted(order[c])
    /\ serve[c] = "issue" => want[c] \in Burgers
    /\ serve[c] \in {"woken", "hand", "release"} => is_ready[order[c]]
    /\ serve[c] = "release" => c \in served

\* What each control point of kitchen_task knows of the order in its hands.
KitchensInv ==
  \A k \in Kitchens :
    /\ kitchen[k] \in {"cook", "tally", "ready"} => Entrusted(plate[k])
    /\ kitchen[k] = "tally" => burger[k] \in Burgers
    /\ kitchen[k] = "signal" =>
         /\ plate[k] \in Nodes
         /\ mem[plate[k]] # "fresh" /\ is_ready[plate[k]]

QueueInv == \A i \in 1..Len(queue) : Entrusted(queue[i])

OrdersInv ==
  /\ TypeOK
  /\ CustomersInv
  /\ KitchensInv
  /\ QueueInv
  /\ ListWellFormed
  /\ OrdersInOnePlace

orderVars == <<order, want, kitchenVars, mem, fields, list, served>>

LEMMA OrdersInvInit == Init => OrdersInv
  BY ConstantsAssumption
  DEF Init, OrdersInv, TypeOK, CustomersInv, KitchensInv, QueueInv,
      ListWellFormed, OrdersInOnePlace, InQueue, Held, Holding, ServePoints,
      KitchenPoints, Ordering, Seated, ConstantsAssumption

-----------------------------------------------------------------------------
(* Types.                                                                  *)

\* With SeatsInv keeping total_queueing above zero and ListWellFormed count,
\* every step keeps the types.
LEMMA TypeNext ==
  ASSUME OrdersInv, SeatsInv, SeatsInv', [Next]_vars
  PROVE  TypeOK'
<1> USE DEF OrdersInv, TypeOK, vars, mainVars, serveVars, kitchenVars, fields,
            list, counters, process
<1>1. CASE UNCHANGED vars
  BY <1>1
<1>2. CASE Accept \/ MainStep \/ Sigint \/ Stopped
  BY <1>2
  DEF Accept, MainStep, Admit, Spawn, ReturnFromMain, Sigint, Stopped,
      ServePoints, Seated, SeatsInv, MainInHand
<1>3. ASSUME NEW c \in Customers, Connect(c) \/ Visit(c) \/ Welcome(c) \/
             CheckReady(c) \/ Block(c) \/ WakeSpuriously(c) \/ Recheck(c) \/
             HandBurger(c) \/ Leave(c)
      PROVE  TypeOK'
  BY <1>3
  DEF Connect, Visit, Welcome, CheckReady, Block, WakeSpuriously, Recheck,
      HandBurger, Leave, ServePoints, Seated, Ordering, Goto, SeatsInv
<1>4. ASSUME NEW c \in Customers, ReadOrder(c)
      PROVE  TypeOK'
  <2>1. serve' \in [Customers -> ServePoints]
    BY <1>4 DEF ReadOrder, Goto, ServePoints, Seated
  <2>2. want' \in [Customers -> Burgers \cup {Null}]
    BY <1>4 DEF ReadOrder
  <2> QED
    BY <1>4, <2>1, <2>2 DEF ReadOrder
<1>5. ASSUME NEW c \in Customers, Allocate(c)
      PROVE  TypeOK'
  <2>1. PICK a \in Nodes :
          /\ mem' = [mem EXCEPT ![a] = "live"]
          /\ order' = [order EXCEPT ![c] = a]
          /\ next' = [next EXCEPT ![a] = Null]
          /\ customerID' = [customerID EXCEPT ![a] = c]
          /\ type' = [type EXCEPT ![a] = want[c]]
          /\ is_ready' = [is_ready EXCEPT ![a] = FALSE]
    BY <1>5 DEF Allocate
  <2>2. /\ mem' \in [Nodes -> {"fresh", "live", "freed"}]
        /\ order' \in [Customers -> Nodes \cup {Null}]
        /\ next' \in [Nodes -> Nodes \cup {Null}]
    BY <2>1
  <2>3. /\ customerID' \in [Nodes -> Customers \cup {Null}]
        /\ type' \in [Nodes -> Burgers \cup {Null}]
        /\ is_ready' \in [Nodes -> BOOLEAN]
    BY <2>1
  <2>4. serve' \in [Customers -> ServePoints]
    BY <1>5 DEF Allocate, Goto, ServePoints, Seated
  <2> QED
    BY <1>5, <2>2, <2>3, <2>4 DEF Allocate
<1>6. ASSUME NEW c \in Customers, AppendOrder(c)
      PROVE  TypeOK'
  <2>1. order[c] \in Nodes
    BY <1>6 DEF AppendOrder, ServeAt, CustomersInv, Owns
  <2>2. /\ next' \in [Nodes -> Nodes \cup {Null}]
        /\ head' \in Nodes \cup {Null}
    BY <1>6, <2>1 DEF AppendOrder
  <2>3. queue' \in Seq(Nodes)
    BY <1>6, <2>1 DEF AppendOrder
  <2>4. serve' \in [Customers -> ServePoints]
    BY <1>6 DEF AppendOrder, Goto, ServePoints, Seated, Ordering
  <2> QED
    BY <1>6, <2>1, <2>2, <2>3, <2>4 DEF AppendOrder
<1>7. ASSUME NEW c \in Customers, Release(c)
      PROVE  TypeOK'
  BY <1>7 DEF Release, Goto, ServePoints, Seated
<1>8. ASSUME NEW c \in Customers, AppendToFreed(c)
      PROVE  TypeOK'
  BY <1>8 DEF AppendToFreed, Crash
<1>9. ASSUME NEW k \in Kitchens, GetOrder(k)
      PROVE  TypeOK'
  <2>1. queue # <<>> /\ count - 1 \in Nat /\ Tail(queue) \in Seq(Nodes)
    BY <1>9 DEF GetOrder, TakeHead, ListWellFormed
  <2> QED
    BY <1>9, <2>1 DEF GetOrder, TakeHead, KitchenGoto, KitchenPoints, Holding
<1>10. ASSUME NEW k \in Kitchens, Cook(k) \/ Tally(k) \/ MarkReady(k)
       PROVE  TypeOK'
  <2>1. CASE Cook(k)
    <3>1. plate[k] \in Nodes
      BY <2>1 DEF Cook, KitchenAt, KitchensInv, Entrusted
    <3> QED
      BY <2>1, <3>1 DEF Cook, KitchenGoto, KitchenPoints, Holding
  <2>2. CASE Tally(k)
    <3>1. burger[k] \in Burgers
      BY <2>2 DEF Tally, KitchenAt, KitchensInv
    <3> QED
      BY <2>2, <3>1 DEF Tally, KitchenGoto, KitchenPoints, Holding
  <2>3. CASE MarkReady(k)
    <3>1. is_ready' \in [Nodes -> BOOLEAN]
      BY <2>3 DEF MarkReady
    <3> QED
      BY <2>3, <3>1 DEF MarkReady, KitchenGoto, KitchenPoints, Holding
  <2> QED
    BY <1>10, <2>1, <2>2, <2>3
<1>11. ASSUME NEW k \in Kitchens, Loop(k) \/ FindNothing(k) \/ Nap(k)
       PROVE  TypeOK'
  BY <1>11
  DEF Loop, FindNothing, Nap, KitchenGoto, KitchenPoints, Holding
<1>12. ASSUME NEW k \in Kitchens, Signal(k)
       PROVE  TypeOK'
  <2>1. kitchen' \in [Kitchens -> KitchenPoints]
    BY <1>12 DEF Signal, KitchenGoto, KitchenPoints
  <2>2. plate' \in [Kitchens -> Nodes \cup {Null}]
    BY <1>12 DEF Signal
  <2>3. serve' \in [Customers -> ServePoints]
    BY <1>12 DEF Signal, Waiters, Goto, ServePoints, Seated, Ordering
  <2> QED
    BY <1>12, <2>1, <2>2, <2>3 DEF Signal
<1>13. ASSUME NEW k \in Kitchens, GetFromFreed(k) \/ CookFreed(k)
       PROVE  TypeOK'
  BY <1>13 DEF GetFromFreed, CookFreed, Crash
<1> QED
  BY <1>1, <1>2, <1>3, <1>4, <1>5, <1>6, <1>7, <1>8, <1>9, <1>10, <1>11,
     <1>12, <1>13
  DEF Next, ServeStep, KitchenStep

-----------------------------------------------------------------------------
(* The order list.                                                         *)

Rest == CustomersInv /\ KitchensInv /\ QueueInv /\ ListWellFormed
          /\ OrdersInOnePlace

\* A serving thread moves on and touches nothing: its order stays entrusted
\* if it still waits, and if it does not, the order was ready.
LEMMA MoveKeeps ==
  ASSUME OrdersInv, NEW c \in Customers, NEW p \in ServePoints, Goto(c, p),
         UNCHANGED orderVars,
         serve[c] \in Waiting => p \in Waiting \/ is_ready[order[c]],
         p \in Ordering => serve[c] \in Ordering,
         p \in {"woken", "hand", "release"} => is_ready[order[c]],
         p = "release" => c \in served,
         p \notin {"append", "issue"}
  PROVE  Rest'
<1> USE DEF orderVars, kitchenVars, fields, list
<1>1. \A d \in Customers : serve'[d] = IF d = c THEN p ELSE serve[d]
  BY DEF OrdersInv, TypeOK, Goto
<1>2. \A a : Entrusted(a) => Entrusted(a)'
  BY <1>1 DEF Entrusted
<1>3. CustomersInv'
  BY <1>1
  DEF OrdersInv, CustomersInv, Owns, Unlisted, InQueue, Held, Ordering
<1>4. KitchensInv' /\ QueueInv'
  BY <1>2 DEF OrdersInv, KitchensInv, QueueInv
<1>5. ListWellFormed' /\ OrdersInOnePlace'
  BY DEF OrdersInv, ListWellFormed, OrdersInOnePlace, InQueue, Held
<1> QED
  BY <1>3, <1>4, <1>5 DEF Rest

\* ReadOrder, when a burger was ordered.
LEMMA ReadKeeps ==
  ASSUME OrdersInv, NEW c \in Customers, NEW b \in Burgers,
         serve[c] = "read", Goto(c, "issue"), want' = [want EXCEPT ![c] = b],
         UNCHANGED <<order, kitchenVars, mem, fields, list, served>>
  PROVE  Rest'
<1> USE DEF kitchenVars, fields, list
<1>1. \A d \in Customers :
        /\ serve'[d] = IF d = c THEN "issue" ELSE serve[d]
        /\ want'[d] = IF d = c THEN b ELSE want[d]
  BY DEF OrdersInv, TypeOK, Goto
<1>2. \A a : Entrusted(a) => Entrusted(a)'
  BY <1>1 DEF Entrusted, Waiting
<1>3. CustomersInv'
  BY <1>1
  DEF OrdersInv, CustomersInv, Owns, Unlisted, InQueue, Held, Ordering
<1>4. KitchensInv' /\ QueueInv'
  BY <1>2 DEF OrdersInv, KitchensInv, QueueInv
<1>5. ListWellFormed' /\ OrdersInOnePlace'
  BY DEF OrdersInv, ListWellFormed, OrdersInOnePlace, InQueue, Held
<1> QED
  BY <1>3, <1>4, <1>5 DEF Rest

\* The new node was fresh, so nothing points to it yet.
LEMMA AllocateKeeps ==
  ASSUME Faultless, OrdersInv, NEW c \in Customers, Allocate(c)
  PROVE  Rest'
<1> USE DEF kitchenVars, fields, list
<1>1. PICK a \in Nodes :
        /\ mem[a] = "fresh"
        /\ mem' = [mem EXCEPT ![a] = "live"]
        /\ order' = [order EXCEPT ![c] = a]
        /\ next' = [next EXCEPT ![a] = Null]
        /\ customerID' = [customerID EXCEPT ![a] = c]
        /\ type' = [type EXCEPT ![a] = want[c]]
        /\ is_ready' = [is_ready EXCEPT ![a] = FALSE]
  BY DEF Allocate, Faultless
<1>2. serve[c] = "issue" /\ Goto(c, "append")
  BY DEF Allocate, ServeAt
<1>3. UNCHANGED <<kitchenVars, list, served>>
  BY DEF Allocate
<1>4. \A d \in Customers :
        /\ serve'[d] = IF d = c THEN "append" ELSE serve[d]
        /\ order'[d] = IF d = c THEN a ELSE order[d]
  BY <1>1, <1>2 DEF OrdersInv, TypeOK, Goto
<1>5. \A n \in Nodes : n # a =>
        /\ mem'[n] = mem[n] /\ customerID'[n] = customerID[n]
        /\ type'[n] = type[n] /\ next'[n] = next[n]
        /\ is_ready'[n] = is_ready[n]
  BY <1>1 DEF OrdersInv, TypeOK
<1>6. /\ mem'[a] = "live" /\ customerID'[a] = c /\ type'[a] = want[c]
      /\ is_ready'[a] = FALSE
  BY <1>1 DEF OrdersInv, TypeOK
<1>7. \A n : Entrusted(n) => n # a /\ Entrusted(n)'
  BY <1>1, <1>2, <1>4, <1>5 DEF Entrusted, Waiting
<1>8. ~InQueue(a) /\ ~Held(a)
  BY <1>1, <1>7
  DEF OrdersInv, QueueInv, InQueue, Held, KitchensInv, Holding
<1>9. (~InQueue(a))' /\ (~Held(a))'
  BY <1>3, <1>8 DEF InQueue, Held
<1>10. CustomersInv'
  <2> SUFFICES ASSUME NEW d \in Customers
               PROVE  /\ serve'[d] \in Ordering \cup {"append"} => Owns(d)'
                      /\ serve'[d] = "append" => Unlisted(order[d])'
                      /\ serve'[d] = "issue" => want'[d] \in Burgers
                      /\ serve'[d] \in {"woken", "hand", "release"} =>
                           is_ready'[order'[d]]
                      /\ serve'[d] = "release" => d \in served'
    BY DEF CustomersInv
  <2>1. CASE d = c
    BY <1>2, <1>4, <1>6, <1>9, <2>1
    DEF Owns, Unlisted, OrdersInv, CustomersInv, Ordering
  <2>2. CASE d # c
    <3>1. serve[d] \in Ordering \cup {"append"} =>
            order[d] \in Nodes /\ order[d] # a
      BY <1>1 DEF OrdersInv, CustomersInv, Owns
    <3>2. want' = want
      BY DEF Allocate
    <3> QED
      BY <1>3, <1>4, <1>5, <2>2, <3>1, <3>2
      DEF Owns, Unlisted, InQueue, Held, OrdersInv, CustomersInv, Ordering
  <2> QED
    BY <2>1, <2>2
<1>11. KitchensInv' /\ QueueInv'
  <2>1. \A k \in Kitchens : kitchen[k] = "signal" => plate[k] # a
    BY <1>1 DEF OrdersInv, KitchensInv
  <2> QED
    BY <1>3, <1>5, <1>7, <2>1 DEF OrdersInv, KitchensInv, QueueInv
<1>12. ListWellFormed'
  <2>1. \A i \in 1..Len(queue) : queue[i] \in Nodes /\ queue[i] # a
    BY <1>7 DEF OrdersInv, QueueInv, Entrusted
  <2> QED
    BY <1>3, <1>5, <2>1 DEF OrdersInv, TypeOK, ListWellFormed
<1>13. OrdersInOnePlace'
  BY <1>3 DEF OrdersInv, OrdersInOnePlace, InQueue, Held
<1> QED
  BY <1>10, <1>11, <1>12, <1>13 DEF Rest

\* The node appended is in nobody's hands; linking it behind the last node of
\* the list leaves all other links alone.
LEMMA AppendKeeps ==
  ASSUME OrdersInv, NEW c \in Customers, AppendOrder(c)
  PROVE  Rest'
<1> USE DEF kitchenVars, fields, list
<1> DEFINE a == order[c]
<1>1. /\ serve[c] = "append" /\ Goto(c, "check")
      /\ tail' = a /\ count' = count + 1 /\ queue' = Append(queue, a)
      /\ UNCHANGED <<order, want, kitchenVars, mem, customerID, type, is_ready,
                     served>>
  BY DEF AppendOrder, ServeAt
<1>2. \A d \in Customers : serve'[d] = IF d = c THEN "check" ELSE serve[d]
  BY <1>1 DEF OrdersInv, TypeOK, Goto
<1>3. Owns(c) /\ Unlisted(a)
  BY <1>1 DEF OrdersInv, CustomersInv
<1>4. a \in Nodes /\ ~InQueue(a) /\ ~Held(a)
  BY <1>3 DEF Owns, Unlisted
<1>5. \A n : Entrusted(n) => Entrusted(n)'
  BY <1>1, <1>2 DEF Entrusted, Waiting
<1>6. Entrusted(a)'
  BY <1>1, <1>2, <1>3 DEF Entrusted, Waiting, Owns, Unlisted
<1>7. /\ Len(queue') = Len(queue) + 1
      /\ \A i \in 1..Len(queue) : queue'[i] = queue[i]
      /\ queue'[Len(queue) + 1] = a
      /\ queue' # <<>>
  <2>1. queue \in Seq(Nodes) /\ a \in Nodes
    BY <1>4 DEF OrdersInv, TypeOK
  <2> HIDE DEF a
  <2> QED
    BY <1>1, <2>1, AppendProperties
<1>8. Len(queue) \in Nat
  BY DEF OrdersInv, TypeOK
<1>9. \A n : InQueue(n)' => InQueue(n) \/ n = a
  BY <1>7, <1>8 DEF InQueue
<1>10. CustomersInv'
  <2>1. \A d \in Customers : serve[d] = "append" /\ d # c => order[d] # a
    BY <1>3 DEF OrdersInv, CustomersInv, Owns
  <2>2. \A d \in Customers : Owns(d) => Owns(d)'
    BY <1>1 DEF Owns
  <2>3. \A n : Held(n)' => Held(n)
    BY <1>1 DEF Held
  <2> QED
    BY <1>1, <1>2, <1>3, <1>9, <2>1, <2>2, <2>3
    DEF OrdersInv, CustomersInv, Unlisted, Ordering
<1>11. KitchensInv'
  BY <1>1, <1>5 DEF OrdersInv, KitchensInv
<1>12. QueueInv'
  <2> SUFFICES ASSUME NEW i \in 1..Len(queue') PROVE Entrusted(queue[i])'
    BY DEF QueueInv
  <2>1. i \in 1..Len(queue) \/ i = Len(queue) + 1
    BY <1>7, <1>8
  <2>2. CASE i \in 1..Len(queue)
    <3>1. Entrusted(queue[i]) /\ queue'[i] = queue[i]
      BY <1>7, <2>2 DEF OrdersInv, QueueInv
    <3> QED
      BY <1>1, <1>2, <3>1 DEF Entrusted, Waiting
  <2>3. CASE i = Len(queue) + 1
    BY <1>6, <1>7, <1>1, <2>3 DEF Entrusted
  <2> QED
    BY <2>1, <2>2, <2>3
<1>13. ListWellFormed'
  <2>1. CASE queue = <<>>
    <3>1. Len(queue) = 0 /\ tail = Null
      BY <2>1 DEF OrdersInv, ListWellFormed
    <3>2. head' = a
      BY <3>1 DEF AppendOrder
    <3>3. count' = Len(queue') /\ queue'[1] = a /\ Len(queue') = 1
      BY <1>1, <1>7, <3>1 DEF OrdersInv, ListWellFormed
    <3> QED
      BY <1>1, <1>7, <3>2, <3>3 DEF ListWellFormed
  <2>2. CASE queue # <<>>
    <3>1. /\ tail = queue[Len(queue)] /\ head = queue[1] /\ Len(queue) > 0
          /\ tail \in Nodes /\ count = Len(queue)
      BY <2>2 DEF OrdersInv, ListWellFormed, TypeOK
    <3>2. tail # Null
      BY <3>1, ConstantsAssumption DEF ConstantsAssumption
    <3>3. head' = head /\ next' = [next EXCEPT ![tail] = a]
      BY <3>2 DEF AppendOrder
    <3>4. \A i \in 1..Len(queue) : queue[i] \in Nodes
      BY DEF OrdersInv, TypeOK
    <3>5. \A i \in 1..Len(queue) - 1 : queue[i] # tail
      BY <1>8, <3>1 DEF OrdersInv, OrdersInOnePlace
    <3>6. \A i \in 1..Len(queue) - 1 : next'[queue[i]] = queue[i + 1]
      BY <1>8, <3>3, <3>4, <3>5 DEF OrdersInv, ListWellFormed, TypeOK
    <3>7. next'[queue[Len(queue)]] = a
      BY <3>1, <3>3 DEF OrdersInv, TypeOK
    <3>8. \A i \in 1..Len(queue') - 1 : next'[queue'[i]] = queue'[i + 1]
      <4> SUFFICES ASSUME NEW i \in 1..Len(queue)
                   PROVE  next'[queue'[i]] = queue'[i + 1]
        BY <1>7, <1>8
      <4>1. CASE i = Len(queue)
        BY <1>7, <3>7, <4>1
      <4>2. CASE i # Len(queue)
        <5>1. i \in 1..Len(queue) - 1 /\ i + 1 \in 1..Len(queue)
          BY <1>8, <4>2
        <5> QED
          BY <1>7, <3>6, <5>1
      <4> QED
        BY <4>1, <4>2
    <3> QED
      BY <1>1, <1>7, <1>8, <3>1, <3>3, <3>8 DEF ListWellFormed
  <2> QED
    BY <2>1, <2>2
<1>14. OrdersInOnePlace'
  <2>1. \A i, j \in 1..Len(queue') : queue'[i] = queue'[j] => i = j
    BY <1>4, <1>7, <1>8 DEF OrdersInv, OrdersInOnePlace, InQueue
  <2>2. \A n \in Nodes : ~(InQueue(n)' /\ Held(n)')
    BY <1>1, <1>4, <1>9 DEF OrdersInv, OrdersInOnePlace, Held
  <2> QED
    BY <1>1, <2>1, <2>2 DEF OrdersInv, OrdersInOnePlace
<1> QED
  BY <1>10, <1>11, <1>12, <1>13, <1>14 DEF Rest

\* The kitchen takes the first node of the list and nothing else of it.
LEMMA TakeKeeps ==
  ASSUME OrdersInv, NEW k \in Kitchens, GetOrder(k)
  PROVE  Rest'
<1> USE DEF kitchenVars, fields, list, serveVars
<1>1. /\ kitchen[k] = "get" /\ head # Null
      /\ kitchen' = [kitchen EXCEPT ![k] = "cook"]
      /\ plate' = [plate EXCEPT ![k] = head]
      /\ count' = count - 1
      /\ UNCHANGED <<serveVars, burger, mem, fields, served>>
  BY DEF GetOrder, TakeHead, KitchenAt, KitchenGoto
<1>2. /\ queue # <<>> /\ count = Len(queue)
      /\ head = queue[1] /\ tail = queue[Len(queue)]
  BY <1>1 DEF OrdersInv, ListWellFormed
<1>3. queue' = Tail(queue) /\ Len(queue) \in Nat /\ Len(queue) > 0
  BY <1>2 DEF OrdersInv, TypeOK, GetOrder, TakeHead
<1>4. /\ Len(queue') = Len(queue) - 1
      /\ \A i \in 1..Len(queue) - 1 : queue'[i] = queue[i + 1]
  BY <1>2, <1>3 DEF OrdersInv, TypeOK
<1>5. \A l \in Kitchens :
        /\ kitchen'[l] = IF l = k THEN "cook" ELSE kitchen[l]
        /\ plate'[l] = IF l = k THEN head ELSE plate[l]
  BY <1>1 DEF OrdersInv, TypeOK
<1>6. Entrusted(head) /\ InQueue(head) /\ ~Held(head) /\ head \in Nodes
  BY <1>2, <1>3
  DEF OrdersInv, QueueInv, InQueue, Entrusted, OrdersInOnePlace
<1>7. \A n : Entrusted(n)' <=> Entrusted(n)
  BY <1>1 DEF Entrusted
<1>8. \A n : InQueue(n)' => InQueue(n) /\ n # head
  BY <1>2, <1>3, <1>4 DEF InQueue, OrdersInv, OrdersInOnePlace
<1>9. \A n : Held(n)' => Held(n) \/ n = head
  BY <1>5 DEF Held
<1>10. CustomersInv'
  <2>1. \A d \in Customers : serve[d] = "append" => order[d] # head
    BY <1>6 DEF OrdersInv, CustomersInv, Unlisted
  <2>2. \A d \in Customers : Owns(d) => Owns(d)'
    BY <1>1 DEF Owns
  <2> QED
    BY <1>1, <1>8, <1>9, <2>1, <2>2
    DEF OrdersInv, CustomersInv, Unlisted, Ordering
<1>11. KitchensInv'
  BY <1>1, <1>5, <1>6, <1>7 DEF OrdersInv, KitchensInv
<1>12. QueueInv'
  <2> SUFFICES ASSUME NEW i \in 1..Len(queue') PROVE Entrusted(queue[i + 1])
    BY <1>3, <1>4, <1>7 DEF QueueInv
  <2> QED
    BY <1>3, <1>4 DEF OrdersInv, QueueInv
<1>13. ListWellFormed'
  <2>1. CASE Len(queue) = 1
    <3>1. head = tail /\ Len(queue') = 0
      BY <1>2, <1>4, <2>1
    <3>2. head' = Null /\ tail' = Null
      BY <3>1 DEF GetOrder
    <3>3. queue' = <<>>
      BY <1>3, <3>1 DEF OrdersInv, TypeOK
    <3> QED
      BY <1>1, <1>2, <2>1, <3>1, <3>2, <3>3 DEF ListWellFormed
  <2>2. CASE Len(queue) # 1
    <3>1. 1 \in 1..Len(queue) - 1 /\ Len(queue) - 1 \in 1..Len(queue) - 1
      <4>1. \A n \in Nat : n > 0 /\ n # 1 => 1 \in 1..n-1 /\ n - 1 \in 1..n-1
        OBVIOUS
      <4> QED
        BY <1>3, <2>2, <4>1
    <3>2. head # tail
      BY <1>2, <1>3, <2>2 DEF OrdersInv, OrdersInOnePlace
    <3>3. head' = next[head] /\ tail' = tail
      BY <3>2 DEF GetOrder
    <3>4. next[head] = queue[2]
      BY <1>2, <3>1 DEF OrdersInv, ListWellFormed
    <3>5. head' = queue'[1] /\ tail' = queue'[Len(queue')]
      BY <1>2, <1>3, <1>4, <3>1, <3>3, <3>4
    <3>6. \A i \in 1..Len(queue') - 1 : next'[queue'[i]] = queue'[i + 1]
      <4> SUFFICES ASSUME NEW i \in 1..Len(queue') - 1
                   PROVE  next'[queue'[i]] = queue'[i + 1]
        OBVIOUS
      <4>1. /\ i \in 1..Len(queue) - 1 /\ i + 1 \in 1..Len(queue) - 1
        BY <1>3, <1>4
      <4>2. next[queue[i + 1]] = queue[i + 1 + 1]
        BY <4>1 DEF OrdersInv, ListWellFormed
      <4> QED
        BY <1>1, <1>4, <4>1, <4>2
    <3>7. queue' # <<>>
      BY <1>4, <3>1
    <3> QED
      BY <1>1, <1>2, <1>4, <3>5, <3>6, <3>7 DEF ListWellFormed
  <2> QED
    BY <2>1, <2>2
<1>14. OrdersInOnePlace'
  <2>1. \A i, j \in 1..Len(queue') : queue'[i] = queue'[j] => i = j
    <3> SUFFICES ASSUME NEW i \in 1..Len(queue'), NEW j \in 1..Len(queue'),
                        queue'[i] = queue'[j]
                 PROVE  i = j
      OBVIOUS
    <3>1. /\ i + 1 \in 1..Len(queue) /\ j + 1 \in 1..Len(queue)
          /\ queue[i + 1] = queue[j + 1]
      BY <1>3, <1>4
    <3> QED
      BY <3>1 DEF OrdersInv, OrdersInOnePlace
  <2>2. \A l, m \in Kitchens :
          kitchen'[l] \in Holding /\ kitchen'[m] \in Holding
            /\ plate'[l] = plate'[m] => l = m
    BY <1>5, <1>6 DEF OrdersInv, OrdersInOnePlace, Held
  <2>3. \A n \in Nodes : ~(InQueue(n)' /\ Held(n)')
    BY <1>8, <1>9 DEF OrdersInv, OrdersInOnePlace
  <2> QED
    BY <2>1, <2>2, <2>3 DEF OrdersInOnePlace
<1> QED
  BY <1>10, <1>11, <1>12, <1>13, <1>14 DEF Rest

\* free(order) by a customer who has been served: nobody is entrusted with it.
LEMMA ReleaseKeeps ==
  ASSUME OrdersInv, NEW c \in Customers, Release(c)
  PROVE  Rest'
<1> USE DEF kitchenVars, fields, list
<1>1. /\ serve[c] = "release" /\ Goto(c, "leave")
      /\ mem' = [mem EXCEPT ![order[c]] = "freed"]
      /\ UNCHANGED <<order, want, kitchenVars, fields, list, served>>
  BY DEF Release, ServeAt
<1>2. Owns(c) /\ is_ready[order[c]]
  BY <1>1 DEF OrdersInv, CustomersInv, Ordering
<1>3. \A d \in Customers : serve'[d] = IF d = c THEN "leave" ELSE serve[d]
  BY <1>1 DEF OrdersInv, TypeOK, Goto
<1>4. \A n \in Nodes : mem'[n] = IF n = order[c] THEN "freed" ELSE mem[n]
  BY <1>1 DEF OrdersInv, TypeOK
<1>5. \A n : Entrusted(n) => Entrusted(n)'
  BY <1>1, <1>2, <1>3, <1>4 DEF Entrusted, Waiting
<1>6. \A d \in Customers : d # c /\ Owns(d) => Owns(d)'
  BY <1>1, <1>2, <1>4 DEF Owns
<1>7. CustomersInv'
  BY <1>1, <1>3, <1>6
  DEF OrdersInv, CustomersInv, Unlisted, InQueue, Held, Ordering
<1>8. KitchensInv' /\ QueueInv'
  BY <1>1, <1>4, <1>5 DEF OrdersInv, KitchensInv, QueueInv
<1>9. ListWellFormed' /\ OrdersInOnePlace'
  BY <1>1 DEF OrdersInv, ListWellFormed, OrdersInOnePlace, InQueue, Held
<1> QED
  BY <1>7, <1>8, <1>9 DEF Rest

\* put_line of the burger: the customer is remembered as served.
LEMMA HandKeeps ==
  ASSUME OrdersInv, NEW c \in Customers, HandBurger(c)
  PROVE  Rest'
<1> USE DEF kitchenVars, fields, list
<1>1. /\ serve[c] = "hand"
      /\ UNCHANGED <<order, want, kitchenVars, mem, fields, list>>
  BY DEF HandBurger, ServeAt
<1>2. PICK p \in {"release", "leave"} :
        /\ Goto(c, p)
        /\ served \subseteq served'
        /\ p = "release" => c \in served'
  BY DEF HandBurger
<1>3. \A d \in Customers : serve'[d] = IF d = c THEN p ELSE serve[d]
  BY <1>2 DEF OrdersInv, TypeOK, Goto
<1>4. is_ready[order[c]]
  BY <1>1 DEF OrdersInv, CustomersInv
<1>5. \A n : Entrusted(n) => Entrusted(n)'
  BY <1>1, <1>3 DEF Entrusted, Waiting
<1>6. CustomersInv'
  BY <1>1, <1>2, <1>3, <1>4
  DEF OrdersInv, CustomersInv, Owns, Unlisted, InQueue, Held, Ordering
<1>7. KitchensInv' /\ QueueInv'
  BY <1>1, <1>5 DEF OrdersInv, KitchensInv, QueueInv
<1>8. ListWellFormed' /\ OrdersInOnePlace'
  BY <1>1 DEF OrdersInv, ListWellFormed, OrdersInOnePlace, InQueue, Held
<1> QED
  BY <1>6, <1>7, <1>8 DEF Rest

\* A kitchen that holds nothing moves on, or one that holds an order keeps it.
LEMMA KitchenMoveKeeps ==
  ASSUME OrdersInv, NEW k \in Kitchens, NEW p \in KitchenPoints,
         KitchenGoto(k, p),
         UNCHANGED <<serveVars, plate, mem, fields, list, served>>,
         p \in Holding <=> kitchen[k] \in Holding,
         p \in {"cook", "tally", "ready"} =>
           kitchen[k] \in {"cook", "tally", "ready"},
         p = "signal" => kitchen[k] = "signal",
         \A l \in Kitchens : l # k => burger'[l] = burger[l],
         p = "tally" => burger'[k] \in Burgers
  PROVE  Rest'
<1> USE DEF serveVars, fields, list
<1>1. \A l \in Kitchens : kitchen'[l] = IF l = k THEN p ELSE kitchen[l]
  BY DEF OrdersInv, TypeOK, KitchenGoto
<1>2. \A n : Held(n)' <=> Held(n)
  BY <1>1 DEF Held
<1>3. \A n : Entrusted(n) => Entrusted(n)'
  BY DEF Entrusted
<1>4. CustomersInv'
  BY <1>2 DEF OrdersInv, CustomersInv, Owns, Unlisted, InQueue
<1>5. KitchensInv' /\ QueueInv'
  BY <1>1, <1>3 DEF OrdersInv, KitchensInv, QueueInv, Holding
<1>6. ListWellFormed'
  BY DEF OrdersInv, ListWellFormed
<1>7. OrdersInOnePlace'
  BY <1>1, <1>2 DEF OrdersInv, OrdersInOnePlace, InQueue
<1> QED
  BY <1>4, <1>5, <1>6, <1>7 DEF Rest

\* The order marked ready is in this kitchen's hands only.
LEMMA MarkKeeps ==
  ASSUME OrdersInv, NEW k \in Kitchens, MarkReady(k)
  PROVE  Rest'
<1> USE DEF serveVars, fields, list
<1> DEFINE a == plate[k]
<1>1. /\ kitchen[k] = "ready"
      /\ kitchen' = [kitchen EXCEPT ![k] = "signal"]
      /\ is_ready' = [is_ready EXCEPT ![a] = TRUE]
      /\ UNCHANGED <<serveVars, plate, burger, mem, next, customerID, type,
                     list, served>>
  BY DEF MarkReady, KitchenAt, KitchenGoto
<1>2. Entrusted(a)
  BY <1>1 DEF OrdersInv, KitchensInv
<1>3. a \in Nodes /\ mem[a] = "live"
  BY <1>2 DEF Entrusted
<1>4. \A l \in Kitchens :
        kitchen'[l] = IF l = k THEN "signal" ELSE kitchen[l]
  BY <1>1 DEF OrdersInv, TypeOK
<1>5. \A n \in Nodes : /\ n # a => is_ready'[n] = is_ready[n]
                       /\ n = a => is_ready'[n]
  BY <1>1 DEF OrdersInv, TypeOK
<1>6. \A n : Held(n)' <=> Held(n)
  BY <1>1, <1>4 DEF Held, Holding
<1>7. Held(a)
  BY <1>1 DEF Held, Holding
<1>8. \A n : Entrusted(n) /\ n # a => Entrusted(n)'
  BY <1>1, <1>5 DEF Entrusted
<1>9. CustomersInv'
  <2>1. \A d \in Customers : serve[d] = "append" =>
          order[d] \in Nodes /\ order[d] # a
    BY <1>7 DEF OrdersInv, CustomersInv, Unlisted, Owns
  <2>2. \A d \in Customers : serve[d] \in {"woken", "hand", "release"} =>
          order[d] \in Nodes
    BY DEF OrdersInv, CustomersInv, Owns, Ordering
  <2> QED
    BY <1>1, <1>5, <1>6, <2>1, <2>2
    DEF OrdersInv, CustomersInv, Owns, Unlisted, InQueue
<1>10. KitchensInv'
  <2>1. \A l \in Kitchens :
          l # k /\ kitchen[l] \in {"cook", "tally", "ready"} => plate[l] # a
    BY <1>1 DEF OrdersInv, OrdersInOnePlace, Holding
  <2> SUFFICES ASSUME NEW l \in Kitchens
               PROVE  /\ kitchen'[l] \in {"cook", "tally", "ready"} =>
                           Entrusted(plate[l])'
                      /\ kitchen'[l] = "tally" => burger'[l] \in Burgers
                      /\ kitchen'[l] = "signal" =>
                           /\ plate'[l] \in Nodes
                           /\ mem'[plate'[l]] # "fresh"
                           /\ is_ready'[plate'[l]]
    BY DEF KitchensInv
  <2>2. CASE l = k
    <3>1. kitchen'[l] = "signal" /\ plate'[l] = a /\ mem'[a] = "live"
      BY <1>1, <1>3, <1>4, <2>2
    <3>2. is_ready'[a]
      BY <1>3, <1>5
    <3> HIDE DEF a
    <3> QED
      BY <1>3, <3>1, <3>2
  <2>3. CASE l # k
    <3>1. kitchen'[l] = kitchen[l] /\ plate'[l] = plate[l]
      BY <1>1, <1>4, <2>3
    <3>2. kitchen[l] \in {"cook", "tally", "ready"} => Entrusted(plate[l])'
      BY <1>1, <1>5, <2>1, <2>3 DEF OrdersInv, KitchensInv, Entrusted
    <3> QED
      BY <1>1, <1>5, <3>1, <3>2 DEF OrdersInv, KitchensInv
  <2> QED
    BY <2>2, <2>3
<1>11. QueueInv'
  <2>1. \A i \in 1..Len(queue) : queue[i] # a
    BY <1>3, <1>7 DEF OrdersInv, OrdersInOnePlace, InQueue
  <2> QED
    BY <1>1, <1>8, <2>1 DEF OrdersInv, QueueInv
<1>12. ListWellFormed'
  BY <1>1 DEF OrdersInv, ListWellFormed
<1>13. OrdersInOnePlace'
  BY <1>1, <1>4, <1>6 DEF OrdersInv, OrdersInOnePlace, InQueue, Holding
<1> QED
  BY <1>9, <1>10, <1>11, <1>12, <1>13 DEF Rest

\* The thread that is woken finds its order ready.
LEMMA SignalKeeps ==
  ASSUME OrdersInv, NEW k \in Kitchens, Signal(k)
  PROVE  Rest'
<1> USE DEF serveVars, fields, list
<1>1. /\ kitchen[k] = "signal"
      /\ kitchen' = [kitchen EXCEPT ![k] = "loop"]
      /\ plate' = [plate EXCEPT ![k] = Null]
      /\ UNCHANGED <<order, want, burger, mem, fields, list, served>>
  BY DEF Signal, KitchenAt, KitchenGoto
<1>2. \A l \in Kitchens :
        /\ kitchen'[l] = IF l = k THEN "loop" ELSE kitchen[l]
        /\ l # k => plate'[l] = plate[l]
  BY <1>1 DEF OrdersInv, TypeOK
<1>3. \A d \in Customers : serve'[d] = serve[d] \/
        /\ serve[d] = "wait" /\ serve'[d] = "woken" /\ is_ready[order[d]]
  BY <1>1
  DEF Signal, Waiters, Goto, OrdersInv, TypeOK, KitchensInv
<1>4. \A n : Held(n)' => Held(n)
  BY <1>1, <1>2 DEF Held, Holding
<1>5. \A n : Entrusted(n) => Entrusted(n)'
  BY <1>1, <1>3 DEF Entrusted, Waiting
<1>6. CustomersInv'
  BY <1>1, <1>3, <1>4
  DEF OrdersInv, CustomersInv, Owns, Unlisted, InQueue, Ordering
<1>7. KitchensInv' /\ QueueInv'
  BY <1>1, <1>2, <1>5 DEF OrdersInv, KitchensInv, QueueInv
<1>8. ListWellFormed'
  BY <1>1 DEF OrdersInv, ListWellFormed
<1>9. OrdersInOnePlace'
  BY <1>1, <1>2, <1>4 DEF OrdersInv, OrdersInOnePlace, InQueue, Holding
<1> QED
  BY <1>6, <1>7, <1>8, <1>9 DEF Rest

-----------------------------------------------------------------------------
(* The theorems.                                                           *)

\* Without faults no node of the list or in a kitchen's hands is freed.
LEMMA NoCrash ==
  ASSUME OrdersInv
  PROVE  /\ \A c \in Customers : ~AppendToFreed(c)
         /\ \A k \in Kitchens : ~GetFromFreed(k) /\ ~CookFreed(k)
<1>1. tail # Null => queue # <<>> /\ tail = queue[Len(queue)]
  BY DEF OrdersInv, ListWellFormed
<1>2. head # Null => queue # <<>> /\ head = queue[1]
  BY DEF OrdersInv, ListWellFormed
<1>3. queue # <<>> => 1 \in 1..Len(queue) /\ Len(queue) \in 1..Len(queue)
  BY DEF OrdersInv, TypeOK
<1>4. /\ tail # Null => mem[tail] = "live"
      /\ head # Null => mem[head] = "live"
  BY <1>1, <1>2, <1>3 DEF OrdersInv, QueueInv, Entrusted
<1>5. \A k \in Kitchens : kitchen[k] = "cook" => mem[plate[k]] = "live"
  BY DEF OrdersInv, KitchensInv, Entrusted
<1> QED
  BY <1>4, <1>5
  DEF AppendToFreed, DanglingTail, GetFromFreed, DanglingHead, CookFreed,
      KitchenAt

LEMMA RestNext ==
  ASSUME Faultless, OrdersInv, SeatsInv, [Next]_vars
  PROVE  Rest'
<1> USE DEF ServeAt, KitchenAt
<1>1. CASE UNCHANGED <<orderVars, serve>>
  BY <1>1
  DEF OrdersInv, Rest, CustomersInv, KitchensInv, QueueInv, ListWellFormed,
      OrdersInOnePlace, InQueue, Held, Entrusted, Owns, Unlisted, orderVars,
      kitchenVars, fields, list
<1>2. CASE UNCHANGED vars \/ ReturnFromMain \/ Sigint \/ Stopped
  BY <1>1, <1>2
  DEF vars, ReturnFromMain, Sigint, Stopped, serveVars, orderVars
<1>3. CASE Accept
  <2>1. CASE UNCHANGED serve
    BY <1>1, <1>3, <2>1 DEF Accept, orderVars
  <2>2. ASSUME NEW c \in Customers, serve[c] = "backlog", Goto(c, "accepted")
        PROVE  Rest'
    BY <1>3, <2>2, MoveKeeps
    DEF Accept, orderVars, Waiting, Ordering, ServePoints
  <2> QED
    BY <1>3, <2>1, <2>2 DEF Accept, Goto
<1>4. CASE Admit \/ Spawn
  <2>1. /\ conn \in Customers /\ serve[conn] \in {"accepted", "seated"}
        /\ UNCHANGED orderVars
    BY <1>4 DEF Admit, Spawn, SeatsInv, MainInHand, orderVars
  <2>2. PICK p \in {"declined", "seated", "visit", "dropped"} : Goto(conn, p)
    BY <1>4 DEF Admit, Spawn, Goto
  <2> QED
    BY <2>1, <2>2, MoveKeeps DEF Waiting, Ordering, ServePoints, Seated
<1>5. ASSUME NEW c \in Customers,
             \/ Connect(c) \/ Visit(c) \/ Welcome(c) \/ CheckReady(c)
             \/ Block(c) \/ Recheck(c) \/ Leave(c)
      PROVE  Rest'
  <2>1. UNCHANGED orderVars
    BY <1>5
    DEF Connect, Visit, Welcome, CheckReady, Block, Recheck, Leave, orderVars
  <2>2. CASE Connect(c) \/ Visit(c) \/ Welcome(c) \/ Leave(c)
    <3>1. serve[c] \in {"away", "visit", "welcome", "leave"}
      BY <2>2 DEF Connect, Visit, Welcome, Leave
    <3>2. PICK p \in {"backlog", "welcome", "abandoned", "leave", "read",
                      "left"} : Goto(c, p)
      BY <2>2 DEF Connect, Visit, Welcome, Leave, Goto
    <3> QED
      BY <2>1, <3>1, <3>2, MoveKeeps DEF Waiting, Ordering, ServePoints, Seated
  <2>3. CASE CheckReady(c)
    <3>1. CASE is_ready[order[c]]
      BY <2>1, <2>3, <3>1, MoveKeeps
      DEF CheckReady, Waiting, Ordering, ServePoints, Seated
    <3>2. CASE ~is_ready[order[c]]
      BY <2>1, <2>3, <3>2, MoveKeeps
      DEF CheckReady, Waiting, Ordering, ServePoints, Seated
    <3> QED
      BY <3>1, <3>2
  <2>4. CASE Block(c)
    BY <2>1, <2>4, MoveKeeps DEF Block, Waiting, Ordering, ServePoints, Seated
  <2>5. CASE Recheck(c)
    <3>1. serve[c] = "woken" /\ is_ready[order[c]]
      BY <2>5 DEF Recheck, OrdersInv, CustomersInv
    <3>2. Goto(c, "hand")
      BY <2>5, <3>1 DEF Recheck
    <3> QED
      BY <2>1, <3>1, <3>2, MoveKeeps DEF Waiting, Ordering, ServePoints, Seated
  <2> QED
    BY <1>5, <2>2, <2>3, <2>4, <2>5
<1>6. ASSUME NEW c \in Customers, ReadOrder(c)
      PROVE  Rest'
  <2>1. serve[c] = "read"
    BY <1>6 DEF ReadOrder
  <2>2. CASE Goto(c, "leave") /\ UNCHANGED want
    BY <1>6, <2>1, <2>2, MoveKeeps
    DEF ReadOrder, orderVars, Waiting, Ordering, ServePoints, Seated
  <2>3. ASSUME NEW b \in Burgers, want' = [want EXCEPT ![c] = b],
               Goto(c, "issue")
        PROVE  Rest'
    BY <1>6, <2>1, <2>3, ReadKeeps DEF ReadOrder
  <2> QED
    BY <1>6, <2>2, <2>3 DEF ReadOrder
<1>7. ASSUME NEW k \in Kitchens,
             Loop(k) \/ FindNothing(k) \/ Nap(k) \/ Cook(k) \/ Tally(k)
      PROVE  Rest'
  <2>1. UNCHANGED <<serveVars, plate, mem, fields, list, served>>
    BY <1>7 DEF Loop, FindNothing, Nap, Cook, Tally
  <2>2. CASE Loop(k) \/ FindNothing(k) \/ Nap(k)
    <3>1. /\ kitchen[k] \in {"loop", "get", "idle"}
          /\ burger' = burger
      BY <2>2 DEF Loop, FindNothing, Nap
    <3>2. PICK p \in {"get", "gone", "idle", "loop"} : KitchenGoto(k, p)
      BY <2>2 DEF Loop, FindNothing, Nap, KitchenGoto
    <3> QED
      BY <2>1, <3>1, <3>2, KitchenMoveKeeps DEF KitchenPoints, Holding
  <2>3. CASE Cook(k)
    <3>1. /\ kitchen[k] = "cook" /\ KitchenGoto(k, "tally")
          /\ burger' = [burger EXCEPT ![k] = type[plate[k]]]
      BY <2>3 DEF Cook
    <3>2. type[plate[k]] \in Burgers
      BY <3>1
      DEF OrdersInv, KitchensInv, Entrusted, CustomersInv, Owns, Waiting,
          Ordering
    <3>3. /\ burger'[k] \in Burgers
          /\ \A l \in Kitchens : l # k => burger'[l] = burger[l]
      BY <3>1, <3>2 DEF OrdersInv, TypeOK
    <3> QED
      BY <2>1, <3>1, <3>3, KitchenMoveKeeps DEF KitchenPoints, Holding
  <2>4. CASE Tally(k)
    BY <2>1, <2>4, KitchenMoveKeeps DEF Tally, KitchenPoints, Holding
  <2> QED
    BY <1>7, <2>2, <2>3, <2>4
<1>8. ASSUME NEW c \in Customers
      PROVE  ~WakeSpuriously(c)
  BY DEF WakeSpuriously, Faultless
<1> QED
  BY <1>2, <1>3, <1>4, <1>5, <1>6, <1>7, <1>8, NoCrash, AllocateKeeps,
     AppendKeeps, HandKeeps, ReleaseKeeps, TakeKeeps, MarkKeeps, SignalKeeps
  DEF Next, MainStep, ServeStep, KitchenStep

\* The seats and the orders together are inductive.
THEOREM OrdersInvariant == Faultless => (Spec => [](SeatsInv /\ OrdersInv))
<1> SUFFICES ASSUME Faultless PROVE Spec => [](SeatsInv /\ OrdersInv)
  OBVIOUS
<1>1. Init => SeatsInv /\ OrdersInv
  BY SeatsInvInit, OrdersInvInit
<1>2. SeatsInv /\ OrdersInv /\ [Next]_vars => (SeatsInv /\ OrdersInv)'
  <2> SUFFICES ASSUME SeatsInv, OrdersInv, [Next]_vars
               PROVE  SeatsInv' /\ OrdersInv'
    OBVIOUS
  <2>1. SeatsInv'
    BY SeatsInvNext
  <2>2. TypeOK'
    BY <2>1, TypeNext
  <2>3. Rest'
    BY RestNext
  <2> QED
    BY <2>1, <2>2, <2>3 DEF OrdersInv, Rest
<1> QED
  BY <1>1, <1>2, PTL DEF Spec

\* Types: in particular total_queueing-- and count-- (lines 158, 300) never
\* pass below zero, where the unsigned counters would wrap.
THEOREM TypeCorrect == Faultless => (Spec => []TypeOK)
<1> SUFFICES ASSUME Faultless PROVE Spec => []TypeOK
  OBVIOUS
<1>1. SeatsInv /\ OrdersInv => TypeOK
  BY DEF OrdersInv
<1> QED
  BY <1>1, OrdersInvariant, PTL

\* head, tail, next and count always are the queue of the orders issued and
\* not yet taken (lines 120-130, 141-160).
THEOREM ListCorrect == Faultless => (Spec => []ListWellFormed)
<1> SUFFICES ASSUME Faultless PROVE Spec => []ListWellFormed
  OBVIOUS
<1>1. SeatsInv /\ OrdersInv => ListWellFormed
  BY DEF OrdersInv
<1> QED
  BY <1>1, OrdersInvariant, PTL

\* No order is at two positions of the list, in two kitchens, or both
\* (get_order, lines 137-163).
THEOREM OneCookPerOrder == Faultless => (Spec => []OrdersInOnePlace)
<1> SUFFICES ASSUME Faultless PROVE Spec => []OrdersInOnePlace
  OBVIOUS
<1>1. SeatsInv /\ OrdersInv => OrdersInOnePlace
  BY DEF OrdersInv
<1> QED
  BY <1>1, OrdersInvariant, PTL

\* An order that is not cooked yet is allocated and its customer is with it
\* (lines 125, 155, 194, 203 against 296).
THEOREM NoUseAfterFree == Faultless => (Spec => []UnfinishedIsLive)
<1> SUFFICES ASSUME Faultless PROVE Spec => []UnfinishedIsLive
  OBVIOUS
<1>1. SeatsInv /\ OrdersInv => UnfinishedIsLive
  BY DEF OrdersInv, QueueInv, KitchensInv, Entrusted, UnfinishedIsLive,
         Unfinished, InQueue, Waiting
<1> QED
  BY <1>1, OrdersInvariant, PTL

\* A customer who ordered frees the order only after the burger was sent
\* (lines 283-296).
THEOREM ServedBeforeRelease == Faultless => (Spec => []NobodyLeavesHungry)
<1> SUFFICES ASSUME Faultless PROVE Spec => []NobodyLeavesHungry
  OBVIOUS
<1>1. SeatsInv /\ OrdersInv => NobodyLeavesHungry
  BY DEF OrdersInv, CustomersInv, NobodyLeavesHungry
<1> QED
  BY <1>1, OrdersInvariant, PTL

(***************************************************************************)
(* The promise of OrderService, and the statistics.                        *)
(***************************************************************************)

\* Before an order is allocated there is none; afterwards its node is never
\* another customer's; only a customer with a burger counts as served.
PhaseInv ==
  \A c \in Customers :
    /\ order[c] # Null =>
         /\ order[c] \in Nodes
         /\ mem[order[c]] # "fresh" /\ customerID[order[c]] = c
    /\ serve[c] \in {"away", "backlog", "accepted", "seated", "visit",
                     "welcome", "read", "issue"} => order[c] = Null
    /\ c \in served => serve[c] \in {"release", "leave", "left"}

RefInv == SeatsInv /\ OrdersInv /\ PhaseInv

LEMMA PhaseInvInit == Init => PhaseInv
  BY DEF Init, PhaseInv

LEMMA PhaseInvNext ==
  ASSUME Faultless, RefInv, [Next]_vars
  PROVE  PhaseInv'
<1> USE DEF RefInv, OrdersInv, TypeOK, PhaseInv, ServeAt, Goto, fields
<1>1. CASE UNCHANGED <<order, mem, customerID, serve, served>>
  BY <1>1
<1>2. CASE \/ UNCHANGED vars \/ ReturnFromMain \/ Sigint \/ Stopped
           \/ \E k \in Kitchens : KitchenStep(k) /\ ~Signal(k)
           \/ \E c \in Customers : AppendToFreed(c)
  BY <1>1, <1>2
  DEF vars, ReturnFromMain, Sigint, Stopped, KitchenStep, Loop, FindNothing,
      GetOrder, TakeHead, GetFromFreed, Nap, Cook, CookFreed, Tally, MarkReady,
      AppendToFreed, Crash, serveVars
<1>3. CASE Accept \/ Admit \/ Spawn
  <2>1. UNCHANGED <<order, mem, customerID, served>>
    BY <1>3 DEF Accept, Admit, Spawn
  <2>2. \/ UNCHANGED serve
        \/ \E c \in Customers, p \in {"accepted", "declined", "seated", "visit",
                                   "dropped"} :
             /\ serve[c] \in {"backlog", "accepted", "seated"}
             /\ serve' = [serve EXCEPT ![c] = p]
    BY <1>3 DEF Accept, Admit, Spawn, SeatsInv, MainInHand
  <2>3. \A c \in Customers : serve'[c] = serve[c] \/
          serve[c] \in {"backlog", "accepted", "seated"}
    BY <2>2
  <2>4. \A c \in Customers : order[c] = Null \/ serve'[c] = serve[c]
    BY <2>3
  <2>5. \A c \in Customers : c \in served => serve'[c] = serve[c]
    BY <2>3
  <2> QED
    BY <2>1, <2>4, <2>5
<1>4. ASSUME NEW c \in Customers,
             \/ Connect(c) \/ Visit(c) \/ Welcome(c) \/ ReadOrder(c)
             \/ AppendOrder(c) \/ CheckReady(c) \/ Block(c) \/ Recheck(c)
             \/ WakeSpuriously(c) \/ HandBurger(c) \/ Leave(c)
      PROVE  PhaseInv'
  BY <1>4
  DEF Connect, Visit, Welcome, ReadOrder, AppendOrder, CheckReady, Block,
      Recheck, WakeSpuriously, HandBurger, Leave
<1>5. ASSUME NEW c \in Customers, Allocate(c)
      PROVE  PhaseInv'
  BY <1>5 DEF Allocate, Faultless
<1>6. ASSUME NEW c \in Customers, Release(c)
      PROVE  PhaseInv'
  BY <1>6 DEF Release
<1>7. ASSUME NEW k \in Kitchens, Signal(k)
      PROVE  PhaseInv'
  BY <1>7 DEF Signal, Waiters
<1> QED
  BY <1>2, <1>3, <1>4, <1>5, <1>6, <1>7
  DEF Next, MainStep, ServeStep, KitchenStep

-----------------------------------------------------------------------------
phases == [c \in Customers |-> phaseOf(c)]
lineUp == [i \in 1..Len(queue) |-> customerID[queue[i]]]

\* Tail written out as a function.
LEMMA TailIsFunction ==
  ASSUME NEW S, NEW s \in Seq(S), s # <<>>
  PROVE  Tail(s) = [i \in 1..Len(s) - 1 |-> s[i + 1]]
<1>1. /\ Tail(s) \in Seq(S) /\ Len(Tail(s)) = Len(s) - 1
      /\ \A i \in 1..Len(Tail(s)) : Tail(s)[i] = s[i + 1]
  BY HeadTailProperties
<1>2. Tail(s) \in [1..Len(s) - 1 -> S]
  BY <1>1, LenProperties
<1> QED
  BY <1>1, <1>2

LEMMA PromiseInit == Init => Promise!Init
  BY DEF Init, Promise!Init, phaseOf, Cooked, InQueue, Held, Holding

\* A step that leaves the orders, the list and the ready marks alone, and
\* moves no order into or out of a kitchen, is invisible.
LEMMA Invisible ==
  ASSUME UNCHANGED <<order, is_ready, queue, customerID, served>>,
         \A c \in Customers : ~Cooked(c) /\ order[c] # Null =>
           (Held(order[c])' <=> Held(order[c]))
  PROVE  UNCHANGED <<phases, lineUp>>
  BY DEF phases, lineUp, phaseOf, Cooked, InQueue

\* Where an order can be: a listed or cooked one is allocated, its customer's
\* and not ready; nobody else has it.
LEMMA OrderFacts ==
  ASSUME RefInv
  PROVE  /\ \A n : InQueue(n) => Entrusted(n) /\ ~Held(n)
         /\ \A n \in Nodes : mem[n] = "fresh" => ~InQueue(n) /\ ~Held(n)
         /\ ~InQueue(Null)
         /\ \A c, d \in Customers : order[c] # Null /\ order[c] = order[d] => c = d
         /\ \A n : Entrusted(n) => customerID[n] \notin served
<1> USE DEF RefInv, OrdersInv
<1>1. \A n : InQueue(n) => Entrusted(n)
  BY DEF QueueInv, InQueue
<1>2. \A n : InQueue(n) => ~Held(n)
  BY <1>1 DEF OrdersInOnePlace, Entrusted
<1>3. \A n \in Nodes : mem[n] = "fresh" => ~InQueue(n) /\ ~Held(n)
  BY <1>1 DEF Entrusted, KitchensInv, Held, Holding
<1>4. ~InQueue(Null)
  BY <1>1, ConstantsAssumption DEF Entrusted, ConstantsAssumption
<1>5. \A c, d \in Customers : order[c] # Null /\ order[c] = order[d] => c = d
  BY DEF PhaseInv
<1>6. \A n : Entrusted(n) => customerID[n] \notin served
  BY DEF Entrusted, PhaseInv, Waiting
<1> QED
  BY <1>1, <1>2, <1>3, <1>4, <1>5, <1>6

LEMMA PromiseStep ==
  ASSUME Faultless, RefInv, [Next]_vars
  PROVE  [Promise!Next]_<<phases, lineUp>>
<1> USE DEF RefInv, OrdersInv
<1>1. CASE \/ UNCHANGED vars \/ Accept \/ MainStep \/ Sigint \/ Stopped
           \/ \E c \in Customers :
                \/ Connect(c) \/ Visit(c) \/ Welcome(c) \/ ReadOrder(c)
                \/ CheckReady(c) \/ Block(c) \/ WakeSpuriously(c)
                \/ Recheck(c) \/ Release(c) \/ Leave(c)
  <2>1. UNCHANGED <<order, kitchen, plate, is_ready, queue, customerID, served>>
    BY <1>1
    DEF vars, Accept, MainStep, Admit, Spawn, ReturnFromMain, Sigint, Stopped,
        Connect, Visit, Welcome, ReadOrder, CheckReady, Block, WakeSpuriously,
        Recheck, Release, Leave, kitchenVars, fields, list, serveVars
  <2> QED
    BY <2>1, Invisible DEF Held
<1>2. ASSUME NEW k \in Kitchens,
             \/ Loop(k) \/ FindNothing(k) \/ Nap(k) \/ Cook(k) \/ Tally(k)
             \/ Signal(k)
      PROVE  UNCHANGED <<phases, lineUp>>
  <2>1. UNCHANGED <<order, is_ready, queue, customerID, served>>
    BY <1>2
    DEF Loop, FindNothing, Nap, Cook, Tally, Signal, fields, list, serveVars
  <2>2. CASE Signal(k)
    <3>1. \A n \in Nodes : ~is_ready[n] => (Held(n)' <=> Held(n))
      BY <2>2
      DEF Signal, KitchenAt, KitchenGoto, Held, Holding, TypeOK, KitchensInv
    <3> QED
      BY <2>1, <3>1, Invisible DEF PhaseInv, Cooked
  <2>3. CASE Loop(k) \/ FindNothing(k) \/ Nap(k) \/ Cook(k) \/ Tally(k)
    <3>1. \A n : Held(n)' <=> Held(n)
      BY <2>3
      DEF Loop, FindNothing, Nap, Cook, Tally, KitchenAt, KitchenGoto, Held,
          Holding, TypeOK
    <3> QED
      BY <2>1, <3>1, Invisible
  <2> QED
    BY <1>2, <2>2, <2>3
<1>3. ASSUME NEW c \in Customers, Allocate(c)
      PROVE  UNCHANGED <<phases, lineUp>>
  <2>1. PICK a \in Nodes :
          /\ mem[a] = "fresh"
          /\ order' = [order EXCEPT ![c] = a]
          /\ customerID' = [customerID EXCEPT ![a] = c]
          /\ is_ready' = [is_ready EXCEPT ![a] = FALSE]
    BY <1>3 DEF Allocate, Faultless
  <2>2. order[c] = Null /\ UNCHANGED <<kitchen, plate, queue, served>>
    BY <1>3 DEF Allocate, ServeAt, PhaseInv, kitchenVars, list
  <2>3. ~is_ready'[a] /\ ~InQueue(a) /\ ~Held(a)
    BY <2>1, OrderFacts DEF TypeOK
  <2>4. phaseOf(c)' = phaseOf(c)
    BY <2>1, <2>2, <2>3, OrderFacts
    DEF phaseOf, Cooked, InQueue, Held, TypeOK
  <2>5. ASSUME NEW d \in Customers, d # c PROVE phaseOf(d)' = phaseOf(d)
    <3>1. order'[d] = order[d] /\ order[d] # a
      BY <2>1, <2>5, ConstantsAssumption
      DEF TypeOK, PhaseInv, ConstantsAssumption
    <3>2. order[d] # Null => is_ready'[order[d]] = is_ready[order[d]]
      BY <2>1, <3>1 DEF TypeOK
    <3> QED
      BY <2>2, <3>1, <3>2 DEF phaseOf, Cooked, InQueue, Held
  <2>6. lineUp' = lineUp
    <3>1. \A i \in 1..Len(queue) : queue[i] \in Nodes /\ queue[i] # a
      BY <2>3 DEF InQueue, TypeOK
    <3> QED
      BY <2>1, <2>2, <3>1 DEF lineUp, TypeOK
  <2> QED
    BY <2>4, <2>5, <2>6 DEF phases
<1>4. ASSUME NEW c \in Customers, AppendOrder(c)
      PROVE  Promise!Place(c)
  <2> DEFINE a == order[c]
  <2>1. /\ serve[c] = "append" /\ queue' = Append(queue, a)
        /\ UNCHANGED <<order, kitchen, plate, customerID, is_ready, served>>
    BY <1>4 DEF AppendOrder, ServeAt, kitchenVars
  <2>2. /\ Owns(c) /\ ~is_ready[a] /\ ~InQueue(a) /\ ~Held(a)
        /\ c \notin served /\ a # Null
    BY <2>1, ConstantsAssumption
    DEF CustomersInv, Unlisted, PhaseInv, Owns, ConstantsAssumption
  <2>3. \A n : InQueue(n)' <=> InQueue(n) \/ n = a
    <3>1. /\ Len(queue') = Len(queue) + 1 /\ Len(queue) \in Nat
          /\ \A i \in 1..Len(queue) : queue'[i] = queue[i]
          /\ queue'[Len(queue) + 1] = a
      BY <2>1, <2>2, AppendProperties, LenProperties DEF Owns, TypeOK
    <3> QED
      BY <3>1 DEF InQueue
  <2>4. phaseOf(c) = "none" /\ phaseOf(c)' = "queued"
    BY <2>1, <2>2, <2>3 DEF phaseOf, Cooked
  <2>5. \A d \in Customers : d # c => phaseOf(d)' = phaseOf(d)
    BY <2>1, <2>2, <2>3, OrderFacts DEF phaseOf, Cooked, Held
  <2>6. lineUp' = Append(lineUp, c)
    <3>1. customerID[a] = c /\ a \in Nodes /\ queue \in Seq(Nodes)
      BY <2>2 DEF Owns, TypeOK
    <3> HIDE DEF a
    <3> QED
      BY <2>1, <3>1, AppendProperties, LenProperties DEF lineUp
  <2> QED
    BY <2>4, <2>5, <2>6 DEF Promise!Place, Promise!Move, phases, lineUp
<1>5. ASSUME NEW k \in Kitchens, GetOrder(k)
      PROVE  Promise!Take
  <2>1. /\ kitchen[k] = "get" /\ head # Null
        /\ kitchen' = [kitchen EXCEPT ![k] = "cook"]
        /\ plate' = [plate EXCEPT ![k] = head]
        /\ queue' = IF queue = <<>> THEN <<>> ELSE Tail(queue)
        /\ UNCHANGED <<order, customerID, is_ready, served>>
    BY <1>5
    DEF GetOrder, TakeHead, KitchenAt, KitchenGoto, serveVars, fields
  <2>2. queue # <<>> /\ head = queue[1] /\ queue \in Seq(Nodes)
    BY <2>1 DEF ListWellFormed, TypeOK
  <2>3. /\ queue' = Tail(queue) /\ Len(queue) \in Nat /\ Len(queue) > 0
        /\ Len(queue') = Len(queue) - 1
        /\ \A i \in 1..Len(queue) - 1 : queue'[i] = queue[i + 1]
    BY <2>1, <2>2
  <2>4. InQueue(head)
    BY <2>2, <2>3 DEF InQueue
  <2>5. \A n : InQueue(n)' <=> InQueue(n) /\ n # head
    <3>1. \A n : InQueue(n)' => InQueue(n) /\ n # head
      BY <2>2, <2>3 DEF InQueue, OrdersInOnePlace
    <3>2. ASSUME NEW n, InQueue(n), n # head PROVE InQueue(n)'
      <4>1. PICK i \in 1..Len(queue) : queue[i] = n
        BY <3>2 DEF InQueue
      <4>2. i - 1 \in 1..Len(queue) - 1 /\ i - 1 + 1 = i
        BY <2>2, <2>3, <3>2, <4>1
      <4>3. queue'[i - 1] = n /\ i - 1 \in 1..Len(queue')
        BY <2>3, <4>1, <4>2
      <4> QED
        BY <4>3 DEF InQueue
    <3> QED
      BY <3>1, <3>2
  <2>6. \A n : Held(n)' <=> Held(n) \/ n = head
    BY <2>1 DEF Held, Holding, TypeOK
  <2>7. PICK c \in Customers :
          c = customerID[head] /\ order[c] = head /\ c \notin served
    BY <2>4, OrderFacts DEF Entrusted
  <2>8. phaseOf(c) = "queued" /\ phaseOf(c)' = "cooking"
    BY <2>1, <2>4, <2>5, <2>6, <2>7, OrderFacts DEF phaseOf, Cooked, Entrusted
  <2>9. \A d \in Customers : d # c => phaseOf(d)' = phaseOf(d)
    <3>1. \A d \in Customers : d # c => order[d] # head
      BY <2>1, <2>7, OrderFacts
    <3> QED
      BY <2>1, <2>5, <2>6, <3>1 DEF phaseOf, Cooked
  <2>10. /\ lineUp # <<>> /\ Head(lineUp) = c
         /\ lineUp' = Tail(lineUp)
    <3>1. /\ Len(lineUp) = Len(queue) /\ lineUp[1] = c /\ 1 \in 1..Len(queue)
      BY <2>2, <2>3, <2>7 DEF lineUp
    <3>2. lineUp' = [i \in 1..Len(queue) - 1 |-> lineUp[i + 1]]
      BY <2>1, <2>3 DEF lineUp
    <3>3. lineUp \in [1..Len(queue) -> Customers]
      BY DEF lineUp, QueueInv, Entrusted
    <3> HIDE DEF lineUp
    <3>4. lineUp \in Seq(Customers)
      BY <2>3, <3>3
    <3>5. lineUp # <<>> /\ Head(lineUp) = c
      BY <2>3, <3>1, <3>4
    <3>6. Tail(lineUp) = [i \in 1..Len(lineUp) - 1 |-> lineUp[i + 1]]
      BY <3>4, <3>5, TailIsFunction
    <3> QED
      BY <3>1, <3>2, <3>5, <3>6
  <2>11. Promise!Move(c, "queued", "cooking")
    BY <2>7, <2>8, <2>9 DEF Promise!Move, phases
  <2> QED
    BY <2>10, <2>11 DEF Promise!Take, lineUp
<1>6. ASSUME NEW k \in Kitchens, MarkReady(k)
      PROVE  Promise!Finish(customerID[plate[k]])
        /\ customerID[plate[k]] \in Customers
  <2> DEFINE a == plate[k]
  <2>1. /\ kitchen[k] = "ready"
        /\ kitchen' = [kitchen EXCEPT ![k] = "signal"]
        /\ is_ready' = [is_ready EXCEPT ![a] = TRUE]
        /\ UNCHANGED <<order, plate, queue, customerID, served>>
    BY <1>6 DEF MarkReady, KitchenAt, KitchenGoto, serveVars, list
  <2>2. Entrusted(a) /\ Held(a)
    BY <2>1 DEF KitchensInv, Held, Holding
  <2>3. PICK c \in Customers :
          /\ a \in Nodes /\ c = customerID[a] /\ order[c] = a /\ ~is_ready[a]
          /\ a # Null /\ c \notin served /\ ~InQueue(a)
    BY <2>2, OrderFacts, ConstantsAssumption
    DEF Entrusted, ConstantsAssumption
  <2>4. /\ is_ready'[a]
        /\ \A n \in Nodes : n # a => is_ready'[n] = is_ready[n]
    BY <2>1, <2>3 DEF TypeOK
  <2>5. \A n : Held(n)' <=> Held(n)
    BY <2>1 DEF Held, Holding, TypeOK
  <2>6. phaseOf(c) = "cooking" /\ phaseOf(c)' = "cooked"
    BY <2>1, <2>2, <2>3, <2>4 DEF phaseOf, Cooked
  <2>7. \A d \in Customers : d # c => phaseOf(d)' = phaseOf(d)
    <3>1. \A d \in Customers : d # c => order[d] # a
      BY <2>3, OrderFacts
    <3>2. \A d \in Customers : d # c => (Cooked(d)' <=> Cooked(d))
      BY <2>1, <2>4, <3>1 DEF Cooked, TypeOK
    <3> QED
      BY <2>1, <2>5, <3>2 DEF phaseOf, InQueue
  <2>8. lineUp' = lineUp
    BY <2>1 DEF lineUp
  <2> QED
    BY <2>3, <2>6, <2>7, <2>8
    DEF Promise!Finish, Promise!Move, phases, lineUp
<1>7. ASSUME NEW c \in Customers, HandBurger(c)
      PROVE  Promise!Serve(c) \/ UNCHANGED <<phases, lineUp>>
  <2>1. /\ serve[c] = "hand"
        /\ UNCHANGED <<order, kitchen, plate, is_ready, queue, customerID>>
    BY <1>7 DEF HandBurger, ServeAt, kitchenVars, fields, list
  <2>2. CASE UNCHANGED served
    BY <2>1, <2>2, Invisible DEF Held
  <2>3. CASE served' = served \cup {c}
    <3>1. c \notin served /\ Cooked(c)
      BY <2>1, ConstantsAssumption
      DEF PhaseInv, Cooked, CustomersInv, Owns, Ordering, ConstantsAssumption
    <3>2. phaseOf(c) = "cooked" /\ phaseOf(c)' = "served"
      BY <2>3, <3>1 DEF phaseOf
    <3>3. \A d \in Customers : d # c => phaseOf(d)' = phaseOf(d)
      BY <2>1, <2>3 DEF phaseOf, Cooked, InQueue, Held
    <3>4. lineUp' = lineUp
      BY <2>1 DEF lineUp
    <3> QED
      BY <3>2, <3>3, <3>4 DEF Promise!Serve, Promise!Move, phases, lineUp
  <2> QED
    BY <1>7, <2>2, <2>3 DEF HandBurger
<1> QED
  BY <1>1, <1>2, <1>3, <1>4, <1>5, <1>6, <1>7, NoCrash
  DEF Next, ServeStep, KitchenStep, Promise!Next, phases, lineUp

\* The invariant of the refinement holds throughout.
LEMMA RefInvariant == Faultless => (Spec => []RefInv)
<1> SUFFICES ASSUME Faultless PROVE Spec => []RefInv
  OBVIOUS
<1>1. PhaseInv /\ SeatsInv /\ OrdersInv /\ [Next]_vars => PhaseInv'
  BY PhaseInvNext DEF RefInv
<1>2. Spec => [](SeatsInv /\ OrdersInv)
  BY OrdersInvariant
<1>3. SeatsInv /\ OrdersInv /\ PhaseInv <=> RefInv
  BY DEF RefInv
<1> QED
  BY PhaseInvInit, <1>1, <1>2, <1>3, PTL DEF Spec

\* Every order is taken in turn, cooked once and handed to its customer
\* (README, operations 5 to 8), for every number of customers and kitchens.
THEOREM PromiseKept == Faultless => (Spec => KeepsPromise)
<1> SUFFICES ASSUME Faultless PROVE Spec => KeepsPromise
  OBVIOUS
<1>1. Spec => []RefInv
  BY RefInvariant
<1>2. RefInv /\ [Next]_vars => [Promise!Next]_<<phases, lineUp>>
  BY PromiseStep
<1>3. Init => Promise!Init
  BY PromiseInit
<1>4. Spec => Promise!Init /\ [][Promise!Next]_<<phases, lineUp>>
  BY <1>1, <1>2, <1>3, PTL DEF Spec
<1> QED
  BY <1>4, PTL DEF KeepsPromise, Promise!Spec, phases, lineUp

-----------------------------------------------------------------------------
(* The statistics.                                                         *)

\* A kitchen has counted the burger of c.
Tallied(c) ==
  /\ order[c] \in Nodes
  /\ \/ is_ready[order[c]]
     \/ \E k \in Kitchens : kitchen[k] = "ready" /\ plate[k] = order[c]

TalliedOf(b) == {c \in Customers : want[c] = b /\ Tallied(c)}

\* What a kitchen counts is what the customer asked for, since the node it has
\* the type from is not freed before; who is served has been counted.
TallyInv ==
  /\ \A c \in Customers : order[c] # Null => type[order[c]] = want[c]
  /\ \A k \in Kitchens : kitchen[k] = "tally" => burger[k] = type[plate[k]]
  /\ \A c \in served : Tallied(c)
  /\ \A b \in Burgers : Cardinality(TalliedOf(b)) <= total_burgers[b]

\* A step that no order, count or counting kitchen is touched by.
LEMMA TallyKept ==
  ASSUME TallyInv, UNCHANGED <<order, want, type, is_ready, total_burgers>>,
         \A c \in served' : c \in served \/ Tallied(c),
         \A k \in Kitchens :
           /\ kitchen'[k] = "ready" <=> kitchen[k] = "ready"
           /\ kitchen[k] = "ready" => plate'[k] = plate[k]
           /\ kitchen'[k] = "tally" => burger'[k] = type[plate'[k]]
  PROVE  TallyInv'
<1>1. \A c \in Customers : Tallied(c)' <=> Tallied(c)
  BY DEF Tallied
<1>2. \A c : Tallied(c)' <=> Tallied(c)
  BY DEF Tallied
<1>3. \A b : TalliedOf(b)' = TalliedOf(b)
  BY <1>1 DEF TalliedOf
<1> QED
  BY <1>2, <1>3 DEF TallyInv

\* Nobody has ordered at the start.
LEMMA TallyInvInit == Init => TallyInv
<1> SUFFICES ASSUME Init PROVE TallyInv
  OBVIOUS
<1>1. \A b : TalliedOf(b) = {}
  BY ConstantsAssumption DEF Init, TalliedOf, Tallied, ConstantsAssumption
<1>2. ASSUME NEW b \in Burgers PROVE Cardinality(TalliedOf(b)) <= total_burgers[b]
  <2>1. Cardinality(TalliedOf(b)) = 0
    BY <1>1, FS_EmptySet
  <2>2. total_burgers[b] = 0
    BY DEF Init
  <2> QED
    BY <2>1, <2>2
<1>3. \A c \in Customers : order[c] = Null
  BY DEF Init
<1>4. \A k \in Kitchens : kitchen[k] # "tally"
  BY DEF Init
<1>5. served = {}
  BY DEF Init
<1> QED
  BY <1>2, <1>3, <1>4, <1>5 DEF TallyInv

\* Tally counts for one customer, whose order nobody else has counted.
LEMMA TallyCounts ==
  ASSUME RefInv, TallyInv, NEW k \in Kitchens, Tally(k)
  PROVE  TallyInv'
<1>0. PICK a, b0, d : a = plate[k] /\ b0 = burger[k] /\ d = customerID[a]
  OBVIOUS
<1>1. /\ kitchen[k] = "tally" /\ kitchen' = [kitchen EXCEPT ![k] = "ready"]
      /\ total_burgers' = [total_burgers EXCEPT ![b0] = total_burgers[b0] + 1]
      /\ UNCHANGED <<order, want, plate, burger, type, is_ready, served>>
  BY <1>0 DEF Tally, KitchenAt, KitchenGoto, serveVars, fields
<1>2. Entrusted(a) /\ b0 \in Burgers /\ b0 = type[a]
  BY <1>0, <1>1 DEF RefInv, OrdersInv, KitchensInv, TallyInv
<1>3. d \in Customers /\ order[d] = a /\ a \in Nodes /\ ~is_ready[a] /\ want[d] = b0
  BY <1>0, <1>2, ConstantsAssumption DEF Entrusted, TallyInv, ConstantsAssumption
<1>4. kitchen \in [Kitchens -> KitchenPoints] /\ total_burgers \in [Burgers -> Nat]
  BY DEF RefInv, OrdersInv, TypeOK
<1>5. ~Tallied(d)
  BY <1>0, <1>1, <1>3 DEF Tallied, RefInv, OrdersInv, OrdersInOnePlace, Holding
<1>6. \A c \in Customers : c # d => order[c] # a
  BY <1>3, ConstantsAssumption DEF RefInv, PhaseInv, ConstantsAssumption
<1>7. Tallied(d)'
  <2>1. kitchen'[k] = "ready" /\ plate'[k] = a
    BY <1>0, <1>1, <1>4
  <2>2. order'[d] = a /\ a \in Nodes
    BY <1>1, <1>3
  <2> QED
    BY <2>1, <2>2 DEF Tallied
<1>8. \A c \in Customers : c # d => (Tallied(c)' <=> Tallied(c))
  BY <1>0, <1>1, <1>4, <1>6 DEF Tallied
<1>9. \A c : Tallied(c) => Tallied(c)'
  BY <1>1, <1>4 DEF Tallied
<1>10. ASSUME NEW b \in Burgers
       PROVE  Cardinality(TalliedOf(b)') <= total_burgers'[b]
  <2>1. IsFiniteSet(TalliedOf(b))
    BY ConstantsAssumption, FS_Subset DEF ConstantsAssumption, TalliedOf
  <2>2. Cardinality(TalliedOf(b)) \in Nat /\ Cardinality(TalliedOf(b)) <= total_burgers[b]
    BY <2>1, FS_CardinalityType DEF TallyInv
  <2>3. CASE b = b0
    <3>1. TalliedOf(b)' = TalliedOf(b) \cup {d} /\ d \notin TalliedOf(b)
      BY <1>1, <1>3, <1>5, <1>7, <1>8, <2>3 DEF TalliedOf
    <3>2. Cardinality(TalliedOf(b)') = Cardinality(TalliedOf(b)) + 1
      BY <2>1, <3>1, FS_AddElement
    <3> QED
      BY <1>1, <1>4, <2>2, <2>3, <3>2
  <2>4. CASE b # b0
    <3>1. TalliedOf(b)' = TalliedOf(b)
      BY <1>1, <1>3, <1>8, <2>4 DEF TalliedOf
    <3> QED
      BY <1>1, <1>4, <2>2, <2>4, <3>1
  <2> QED
    BY <2>3, <2>4
<1>11. \A l \in Kitchens : kitchen'[l] = "tally" => burger'[l] = type'[plate'[l]]
  BY <1>1, <1>4 DEF TallyInv
<1>12. \A c \in Customers : order'[c] # Null => type'[order'[c]] = want'[c]
  BY <1>1 DEF TallyInv
<1>13. \A c \in served' : Tallied(c)'
  BY <1>1, <1>9 DEF TallyInv
<1> QED
  BY <1>10, <1>11, <1>12, <1>13 DEF TallyInv

\* Every step preserves the invariant of the statistics.
LEMMA TallyInvNext ==
  ASSUME Faultless, RefInv, TallyInv, [Next]_vars
  PROVE  TallyInv'
<1> USE DEF RefInv, OrdersInv, TypeOK
<1>1. CASE UNCHANGED <<order, want, type, is_ready, total_burgers, served, kitchenVars>>
  BY <1>1, TallyKept DEF kitchenVars, TallyInv
<1>2. CASE UNCHANGED vars \/ Accept \/ MainStep \/ Sigint \/ Stopped
  BY <1>1, <1>2
  DEF vars, Accept, MainStep, Admit, Spawn, ReturnFromMain, Sigint, Stopped,
      serveVars, fields, counters
<1>3. ASSUME NEW c \in Customers,
             \/ Connect(c) \/ Visit(c) \/ Welcome(c) \/ AppendOrder(c) \/ AppendToFreed(c)
             \/ CheckReady(c) \/ Block(c) \/ WakeSpuriously(c) \/ Recheck(c)
             \/ Release(c) \/ Leave(c)
      PROVE  TallyInv'
  BY <1>1, <1>3
  DEF Connect, Visit, Welcome, AppendOrder, AppendToFreed, Crash, CheckReady, Block,
      WakeSpuriously, Recheck, Release, Leave, serveVars, fields, counters
<1>4. ASSUME NEW c \in Customers, ReadOrder(c)
      PROVE  TallyInv'
  <2>1. /\ serve[c] = "read" /\ \A d \in Customers : d # c => want'[d] = want[d]
        /\ UNCHANGED <<order, type, is_ready, total_burgers, served, kitchen, plate, burger>>
    BY <1>4 DEF ReadOrder, ServeAt, fields, counters, kitchenVars
  <2>2. order[c] = Null
    BY <2>1 DEF PhaseInv
  <2>3. ~Tallied(c)
    BY <2>2, ConstantsAssumption DEF Tallied, ConstantsAssumption
  <2>4. \A d : Tallied(d)' <=> Tallied(d)
    BY <2>1 DEF Tallied
  <2>5. \A b : TalliedOf(b)' = TalliedOf(b)
    BY <2>1, <2>3, <2>4 DEF TalliedOf
  <2> QED
    BY <2>1, <2>2, <2>4, <2>5 DEF TallyInv
<1>5. ASSUME NEW c \in Customers, Allocate(c)
      PROVE  TallyInv'
  <2>1. PICK a \in Nodes :
          /\ mem[a] = "fresh"
          /\ order' = [order EXCEPT ![c] = a]
          /\ type' = [type EXCEPT ![a] = want[c]]
          /\ is_ready' = [is_ready EXCEPT ![a] = FALSE]
    BY <1>5 DEF Allocate, Faultless
  <2>2. /\ serve[c] = "issue"
        /\ UNCHANGED <<want, total_burgers, served, kitchen, plate, burger>>
    BY <1>5 DEF Allocate, ServeAt, counters, kitchenVars
  <2>3. order[c] = Null /\ Null \notin Nodes
    BY <2>2, ConstantsAssumption DEF PhaseInv, ConstantsAssumption
  <2>4. \A d \in Customers : order[d] # Null => order[d] \in Nodes /\ order[d] # a
    BY <2>1 DEF PhaseInv
  <2>5. \A k \in Kitchens : kitchen[k] \in {"tally", "ready"} =>
          plate[k] \in Nodes /\ plate[k] # a
    BY <2>1 DEF KitchensInv, Entrusted
  <2>6. ~Tallied(c) /\ ~Tallied(c)'
    BY <2>1, <2>2, <2>3, <2>5 DEF Tallied
  <2>7. \A d \in Customers : d # c => (Tallied(d)' <=> Tallied(d))
    BY <2>1, <2>2, <2>3, <2>4 DEF Tallied
  <2>8. \A b : TalliedOf(b)' = TalliedOf(b)
    BY <2>2, <2>6, <2>7 DEF TalliedOf
  <2>9. \A d \in Customers : order'[d] # Null => type'[order'[d]] = want'[d]
    BY <2>1, <2>2, <2>4 DEF TallyInv
  <2>10. \A k \in Kitchens : kitchen'[k] = "tally" => burger'[k] = type'[plate'[k]]
    BY <2>1, <2>2, <2>5 DEF TallyInv
  <2>11. \A d \in served' : Tallied(d)'
    BY <2>2, <2>6, <2>7 DEF TallyInv
  <2> QED
    BY <2>2, <2>8, <2>9, <2>10, <2>11 DEF TallyInv
<1>6. ASSUME NEW c \in Customers, HandBurger(c)
      PROVE  TallyInv'
  <2>1. /\ serve[c] = "hand" /\ served' \subseteq served \cup {c}
        /\ UNCHANGED <<order, want, type, is_ready, total_burgers, kitchen, plate, burger>>
    BY <1>6 DEF HandBurger, ServeAt, fields, counters, kitchenVars
  <2>2. Tallied(c)
    BY <2>1 DEF CustomersInv, Owns, Ordering, Tallied
  <2> QED
    BY <2>1, <2>2, TallyKept DEF TallyInv
<1>7. ASSUME NEW k \in Kitchens,
             \/ Loop(k) \/ FindNothing(k) \/ GetOrder(k) \/ GetFromFreed(k) \/ Nap(k)
             \/ Cook(k) \/ CookFreed(k) \/ Signal(k)
      PROVE  TallyInv'
  <2>1. UNCHANGED <<order, want, type, is_ready, total_burgers, served>>
    BY <1>7
    DEF Loop, FindNothing, GetOrder, TakeHead, GetFromFreed, Nap, Cook, CookFreed,
        Signal, Crash, serveVars, fields, counters
  <2>2. \A l \in Kitchens :
          /\ kitchen'[l] = "ready" <=> kitchen[l] = "ready"
          /\ kitchen[l] = "ready" => plate'[l] = plate[l]
          /\ kitchen'[l] = "tally" => burger'[l] = type[plate'[l]]
    <3>1. CASE Loop(k) \/ FindNothing(k) \/ GetFromFreed(k) \/ Nap(k) \/ CookFreed(k)
      BY <3>1
      DEF Loop, FindNothing, GetFromFreed, Nap, CookFreed, Crash, KitchenAt, KitchenGoto,
          kitchenVars, TallyInv
    <3>2. CASE GetOrder(k)
      BY <3>2 DEF GetOrder, TakeHead, KitchenAt, KitchenGoto, TallyInv
    <3>3. CASE Cook(k)
      BY <3>3 DEF Cook, KitchenAt, KitchenGoto, TallyInv
    <3>4. CASE Signal(k)
      BY <3>4 DEF Signal, KitchenAt, KitchenGoto, TallyInv
    <3> QED
      BY <1>7, <3>1, <3>2, <3>3, <3>4
  <2> QED
    BY <2>1, <2>2, TallyKept
<1>8. ASSUME NEW k \in Kitchens, Tally(k)
      PROVE  TallyInv'
  BY <1>8, TallyCounts
<1>9. ASSUME NEW k \in Kitchens, MarkReady(k)
      PROVE  TallyInv'
  <2>1. /\ kitchen[k] = "ready" /\ kitchen' = [kitchen EXCEPT ![k] = "signal"]
        /\ is_ready' = [is_ready EXCEPT ![plate[k]] = TRUE]
        /\ UNCHANGED <<order, want, type, total_burgers, served, plate, burger>>
    BY <1>9 DEF MarkReady, KitchenAt, KitchenGoto, serveVars, counters
  <2>2. plate[k] \in Nodes
    BY <2>1 DEF KitchensInv, Entrusted
  <2>3. \A c : Tallied(c)' <=> Tallied(c)
    BY <2>1, <2>2 DEF Tallied
  <2>4. \A b : TalliedOf(b)' = TalliedOf(b)
    BY <2>1, <2>3 DEF TalliedOf
  <2> QED
    BY <2>1, <2>3, <2>4 DEF TallyInv
<1> QED
  BY <1>2, <1>3, <1>4, <1>5, <1>6, <1>7, <1>8, <1>9 DEF Next, ServeStep, KitchenStep

\* The statistics, whenever they are printed, have at least the burgers that
\* customers hold, kind by kind (line 200 before line 203), as long as malloc
\* returns fresh memory and no wait ends without a signal.
THEOREM StatisticsCount == Faultless => (Spec => []ServedWereCounted)
<1> SUFFICES ASSUME Faultless PROVE Spec => []ServedWereCounted
  OBVIOUS
<1>1. RefInv /\ TallyInv /\ [Next]_vars => TallyInv'
  BY TallyInvNext
<1>2. RefInv /\ TallyInv => ServedWereCounted
  <2> SUFFICES ASSUME RefInv, TallyInv, NEW b \in Burgers
               PROVE  Cardinality({c \in served : want[c] = b}) <= total_burgers[b]
    BY DEF ServedWereCounted
  <2>1. IsFiniteSet(TalliedOf(b))
    BY ConstantsAssumption, FS_Subset DEF ConstantsAssumption, TalliedOf
  <2>2. {c \in served : want[c] = b} \subseteq TalliedOf(b)
    BY DEF RefInv, OrdersInv, TypeOK, TallyInv, TalliedOf
  <2>3. Cardinality({c \in served : want[c] = b}) <= Cardinality(TalliedOf(b))
    BY <2>1, <2>2, FS_Subset
  <2>4. /\ Cardinality({c \in served : want[c] = b}) \in Nat
        /\ Cardinality(TalliedOf(b)) \in Nat
    BY <2>1, <2>2, FS_Subset, FS_CardinalityType
  <2>5. total_burgers[b] \in Nat /\ Cardinality(TalliedOf(b)) <= total_burgers[b]
    BY DEF RefInv, OrdersInv, TypeOK, TallyInv
  <2> QED
    BY <2>3, <2>4, <2>5
<1> QED
  BY RefInvariant, TallyInvInit, <1>1, <1>2, PTL DEF Spec

=============================================================================
