------------------------------ MODULE McDonalds ------------------------------
(***************************************************************************)
(* The McDonald's server of Lab 5 (mcdonalds.c): the accept loop of main,  *)
(* one detached serve_client thread per connection, the kitchen threads,   *)
(* the order list they share, and the two SIGINT handlers.                 *)
(*                                                                         *)
(* A critical section of server_ctx_mutex is one step: everything it       *)
(* protects is touched nowhere else while the threads run.  Each access to *)
(* an order node outside that mutex (is_ready, cond, free) is a step of    *)
(* its own, because no lock orders the kitchen against the customer there. *)
(*                                                                         *)
(* Order nodes have addresses, so that a pointer can outlive its node.  A  *)
(* step that reads or links through a node in freed memory ends the        *)
(* behaviour in status "crashed": the allocator has overwritten next and   *)
(* type, and what follows is no behaviour of the program.                  *)
(***************************************************************************)
EXTENDS Naturals, Sequences, FiniteSets

CONSTANTS
  Customers,        \* the connections made during one run of the server
  Kitchens,         \* kitchen_thread[0 .. NUM_KITCHEN-1]
  Nodes,            \* addresses malloc can return for a Node
  Burgers,          \* the values of enum burger_type below BURGER_TYPE_MAX
  CustomerMax,      \* CUSTOMER_MAX
  Null,             \* the NULL pointer
  FirstBinds,       \* is the server bound to the first address of the list?
  SpuriousWakeups,  \* may pthread_cond_wait return without a signal?
  Reuse             \* may malloc return the address of a freed node?

ASSUME ConstantsAssumption ==
  /\ IsFiniteSet(Customers)
  /\ CustomerMax \in Nat
  /\ Null \notin Nodes \cup Customers \cup Burgers
  /\ FirstBinds \in BOOLEAN
  /\ SpuriousWakeups \in BOOLEAN
  /\ Reuse \in BOOLEAN

VARIABLES
  mpc, conn,                     \* main: control point, clientfd
  serve, order, want,            \* serve_client: control point, order, type
  kitchen, plate, burger,        \* kitchen_task: control point, order, type
  mem,                           \* what each node address holds
  next, customerID, type, is_ready,             \* the fields of Node
  head, tail, count,             \* server_ctx.list
  total_customers, total_burgers, total_queueing,
  keep_running,
  status,                        \* of the process
  served,                        \* customers whose burger has been sent
  queue                          \* history: nodes appended and not yet taken

mainVars    == <<mpc, conn>>
serveVars   == <<serve, order, want>>
kitchenVars == <<kitchen, plate, burger>>
fields      == <<next, customerID, type, is_ready>>
list        == <<head, tail, count, queue>>
counters    == <<total_customers, total_burgers, total_queueing>>
process     == <<keep_running, status>>
vars == <<mainVars, serveVars, kitchenVars, mem, fields, list, counters,
          process, served>>

(***************************************************************************)
(* Control points of serve_client, in the order of the code.  "away" and   *)
(* "backlog" come before accept(); "declined" and "dropped" never get a    *)
(* thread; "abandoned" is the return at line 237, which gives back neither *)
(* the seat nor the socket.                                                *)
(***************************************************************************)
Ordering == {"check", "block", "wait", "woken", "hand", "release"}
Seated   == {"seated", "visit", "welcome", "read", "issue", "append",
             "leave", "abandoned"} \cup Ordering
ServePoints == {"away", "backlog", "accepted", "declined", "dropped", "left"}
               \cup Seated
Holding == {"cook", "tally", "ready", "signal"}
KitchenPoints == {"loop", "get", "idle", "gone"} \cup Holding

TypeOK ==
  /\ mpc \in {"accept", "admit", "spawn", "returned"}
  /\ conn \in Customers \cup {Null}
  /\ serve \in [Customers -> ServePoints]
  /\ order \in [Customers -> Nodes \cup {Null}]
  /\ want \in [Customers -> Burgers \cup {Null}]
  /\ kitchen \in [Kitchens -> KitchenPoints]
  /\ plate \in [Kitchens -> Nodes \cup {Null}]
  /\ burger \in [Kitchens -> Burgers \cup {Null}]
  /\ mem \in [Nodes -> {"fresh", "live", "freed"}]
  /\ next \in [Nodes -> Nodes \cup {Null}]
  /\ customerID \in [Nodes -> Customers \cup {Null}]
  /\ type \in [Nodes -> Burgers \cup {Null}]
  /\ is_ready \in [Nodes -> BOOLEAN]
  /\ head \in Nodes \cup {Null}
  /\ tail \in Nodes \cup {Null}
  /\ count \in Nat
  /\ queue \in Seq(Nodes)
  /\ total_customers \in Nat
  /\ total_burgers \in [Burgers -> Nat]
  /\ total_queueing \in Nat
  /\ keep_running \in BOOLEAN
  /\ status \in {"running", "exited", "crashed"}
  /\ served \subseteq Customers

Init ==
  /\ mpc = "accept" /\ conn = Null
  /\ serve = [c \in Customers |-> "away"]
  /\ order = [c \in Customers |-> Null]
  /\ want = [c \in Customers |-> Null]
  /\ kitchen = [k \in Kitchens |-> "loop"]
  /\ plate = [k \in Kitchens |-> Null]
  /\ burger = [k \in Kitchens |-> Null]
  /\ mem = [a \in Nodes |-> "fresh"]
  /\ next = [a \in Nodes |-> Null]
  /\ customerID = [a \in Nodes |-> Null]
  /\ type = [a \in Nodes |-> Null]
  /\ is_ready = [a \in Nodes |-> FALSE]
  /\ head = Null /\ tail = Null /\ count = 0 /\ queue = <<>>
  /\ total_customers = 0
  /\ total_burgers = [b \in Burgers |-> 0]
  /\ total_queueing = 0
  /\ keep_running = TRUE
  /\ status = "running"
  /\ served = {}

Running == status = "running"

Crash ==
  /\ status' = "crashed"
  /\ UNCHANGED <<mainVars, serveVars, kitchenVars, mem, fields, list, counters,
                 keep_running, served>>

-----------------------------------------------------------------------------
(* Clients and the accept loop.                                            *)

Connect(c) ==
  /\ Running /\ serve[c] = "away"
  /\ serve' = [serve EXCEPT ![c] = "backlog"]
  /\ UNCHANGED <<mainVars, order, want, kitchenVars, mem, fields, list,
                 counters, process, served>>

\* accept() restarts after a signal handler (signal() sets SA_RESTART), so
\* keep_running plays no part here; any failure of accept() ends the loop.
Accept ==
  /\ Running /\ mpc = "accept"
  /\ \/ \E c \in Customers :
          /\ serve[c] = "backlog"
          /\ serve' = [serve EXCEPT ![c] = "accepted"]
          /\ mpc' = "admit" /\ conn' = c
     \/ /\ mpc' = "returned"
        /\ UNCHANGED <<conn, serve>>
  /\ UNCHANGED <<order, want, kitchenVars, mem, fields, list, counters,
                 process, served>>

\* Slip in Admit: > for >=.
AdmitOneTooMany ==
  /\ Running /\ mpc = "admit"
  /\ total_queueing <= CustomerMax
  /\ total_queueing' = total_queueing + 1
  /\ serve' = [serve EXCEPT ![conn] = "seated"]
  /\ mpc' = "spawn"
  /\ UNCHANGED <<conn, order, want, kitchenVars, mem, fields, list,
                 total_customers, total_burgers, process, served>>

Admit ==
  /\ Running /\ mpc = "admit"
  /\ \/ /\ total_queueing >= CustomerMax
        /\ serve' = [serve EXCEPT ![conn] = "declined"]
        /\ mpc' = "accept"
        /\ UNCHANGED total_queueing
     \/ /\ total_queueing < CustomerMax
        /\ total_queueing' = total_queueing + 1
        /\ serve' = [serve EXCEPT ![conn] = "seated"]
        /\ mpc' = "spawn"
  /\ UNCHANGED <<conn, order, want, kitchenVars, mem, fields, list,
                 total_customers, total_burgers, process, served>>

\* Slip in Spawn: a failing pthread_create does not give the seat back.
SpawnKeepsSeat ==
  /\ Running /\ mpc = "spawn"
  /\ \/ /\ serve' = [serve EXCEPT ![conn] = "visit"]
        /\ mpc' = "accept"
     \/ /\ serve' = [serve EXCEPT ![conn] = "dropped"]
        /\ mpc' = "returned"
  /\ UNCHANGED <<conn, order, want, kitchenVars, mem, fields, list, counters,
                 process, served>>

\* pthread_create succeeds, or fails and ends the accept loop.
Spawn ==
  /\ Running /\ mpc = "spawn"
  /\ \/ /\ serve' = [serve EXCEPT ![conn] = "visit"]
        /\ mpc' = "accept"
        /\ UNCHANGED total_queueing
     \/ /\ serve' = [serve EXCEPT ![conn] = "dropped"]
        /\ total_queueing' = total_queueing - 1
        /\ mpc' = "returned"
  /\ UNCHANGED <<conn, order, want, kitchenVars, mem, fields, list,
                 total_customers, total_burgers, process, served>>

\* start_server frees ai and ai_it and returns, main prints the statistics
\* and returns: exit().  When the first address of the list was bound, both
\* are the same pointer and the second free aborts the process.
ReturnFromMain ==
  /\ Running /\ mpc = "returned"
  /\ status' = IF FirstBinds THEN "crashed" ELSE "exited"
  /\ UNCHANGED <<mainVars, serveVars, kitchenVars, mem, fields, list, counters,
                 keep_running, served>>

\* The first Ctrl-C clears keep_running and installs sigint_handler2; the
\* second one prints the statistics and exits.
Sigint ==
  /\ Running
  /\ \/ /\ keep_running
        /\ keep_running' = FALSE
        /\ UNCHANGED status
     \/ /\ ~keep_running
        /\ status' = "exited"
        /\ UNCHANGED keep_running
  /\ UNCHANGED <<mainVars, serveVars, kitchenVars, mem, fields, list, counters,
                 served>>

-----------------------------------------------------------------------------
(* serve_client                                                            *)

ServeAt(c, point) == Running /\ serve[c] = point

Goto(c, point) == serve' = [serve EXCEPT ![c] = point]

Visit(c) ==
  /\ ServeAt(c, "visit") /\ Goto(c, "welcome")
  /\ total_customers' = total_customers + 1
  /\ UNCHANGED <<mainVars, order, want, kitchenVars, mem, fields, list,
                 total_burgers, total_queueing, process, served>>

\* asprintf fails and the thread returns; or put_line fails; or it is sent.
Welcome(c) ==
  /\ ServeAt(c, "welcome")
  /\ \E point \in {"abandoned", "leave", "read"} : Goto(c, point)
  /\ UNCHANGED <<mainVars, order, want, kitchenVars, mem, fields, list,
                 counters, process, served>>

\* get_line fails or no word is a burger; or some word is.  The position that
\* strtok keeps between its calls is one for all serving threads, so the words
\* may be those of a line that another thread has just begun to parse, whatever
\* this customer asked for.
ReadOrder(c) ==
  /\ ServeAt(c, "read")
  /\ \/ Goto(c, "leave") /\ UNCHANGED want
     \/ \E b \in Burgers : want' = [want EXCEPT ![c] = b] /\ Goto(c, "issue")
  /\ UNCHANGED <<mainVars, order, kitchenVars, mem, fields, list, counters,
                 process, served>>

\* issue_order up to the lock: malloc and the initialisation of the node.
Allocate(c) ==
  /\ ServeAt(c, "issue") /\ Goto(c, "append")
  /\ \E a \in Nodes :
       /\ mem[a] = "fresh" \/ (Reuse /\ mem[a] = "freed")
       /\ mem' = [mem EXCEPT ![a] = "live"]
       /\ order' = [order EXCEPT ![c] = a]
       /\ next' = [next EXCEPT ![a] = Null]
       /\ customerID' = [customerID EXCEPT ![a] = c]
       /\ type' = [type EXCEPT ![a] = want[c]]
       /\ is_ready' = [is_ready EXCEPT ![a] = FALSE]
  /\ UNCHANGED <<mainVars, want, kitchenVars, list, counters, process, served>>

\* Slip in AppendOrder: the new node is pushed in front of the list.
PushOrder(c) ==
  /\ ServeAt(c, "append") /\ Goto(c, "check")
  /\ head' = order[c]
  /\ tail' = IF tail = Null THEN order[c] ELSE tail
  /\ next' = [next EXCEPT ![order[c]] = head]
  /\ count' = count + 1
  /\ queue' = Append(queue, order[c])
  /\ UNCHANGED <<mainVars, order, want, kitchenVars, mem, customerID, type,
                 is_ready, counters, process, served>>

DanglingTail == tail # Null /\ mem[tail] = "freed"

\* The critical section of issue_order.
AppendOrder(c) ==
  /\ ServeAt(c, "append") /\ ~DanglingTail
  /\ Goto(c, "check")
  /\ IF tail = Null
     THEN head' = order[c] /\ UNCHANGED next
     ELSE next' = [next EXCEPT ![tail] = order[c]] /\ UNCHANGED head
  /\ tail' = order[c]
  /\ count' = count + 1
  /\ queue' = Append(queue, order[c])
  /\ UNCHANGED <<mainVars, order, want, kitchenVars, mem, customerID, type,
                 is_ready, counters, process, served>>

AppendToFreed(c) == ServeAt(c, "append") /\ DanglingTail /\ Crash

\* Lock order->mutex and look at is_ready.
CheckReady(c) ==
  /\ ServeAt(c, "check")
  /\ Goto(c, IF is_ready[order[c]] THEN "woken" ELSE "block")
  /\ UNCHANGED <<mainVars, order, want, kitchenVars, mem, fields, list,
                 counters, process, served>>

\* Slip in Block: the thread goes on without waiting.
SkipWait(c) ==
  /\ ServeAt(c, "block") /\ Goto(c, "woken")
  /\ UNCHANGED <<mainVars, order, want, kitchenVars, mem, fields, list,
                 counters, process, served>>

\* pthread_cond_wait: from here on a signal finds this thread.
Block(c) ==
  /\ ServeAt(c, "block") /\ Goto(c, "wait")
  /\ UNCHANGED <<mainVars, order, want, kitchenVars, mem, fields, list,
                 counters, process, served>>

WakeSpuriously(c) ==
  /\ SpuriousWakeups
  /\ ServeAt(c, "wait") /\ Goto(c, "woken")
  /\ UNCHANGED <<mainVars, order, want, kitchenVars, mem, fields, list,
                 counters, process, served>>

\* Line 286: one look at is_ready, no loop around the wait.
Recheck(c) ==
  /\ ServeAt(c, "woken")
  /\ Goto(c, IF is_ready[order[c]] THEN "hand" ELSE "release")
  /\ UNCHANGED <<mainVars, order, want, kitchenVars, mem, fields, list,
                 counters, process, served>>

\* put_line of the burger; when it fails the node is never freed.
HandBurger(c) ==
  /\ ServeAt(c, "hand")
  /\ \/ /\ served' = served \cup {c}
        /\ Goto(c, "release")
     \/ /\ Goto(c, "leave")
        /\ UNCHANGED served
  /\ UNCHANGED <<mainVars, order, want, kitchenVars, mem, fields, list,
                 counters, process>>

\* free(order)
Release(c) ==
  /\ ServeAt(c, "release") /\ Goto(c, "leave")
  /\ mem' = [mem EXCEPT ![order[c]] = "freed"]
  /\ UNCHANGED <<mainVars, order, want, kitchenVars, fields, list, counters,
                 process, served>>

\* The label err: give back the seat, close the socket.
Leave(c) ==
  /\ ServeAt(c, "leave") /\ Goto(c, "left")
  /\ total_queueing' = total_queueing - 1
  /\ UNCHANGED <<mainVars, order, want, kitchenVars, mem, fields, list,
                 total_customers, total_burgers, process, served>>

-----------------------------------------------------------------------------
(* kitchen_task                                                            *)

KitchenAt(k, point) == Running /\ kitchen[k] = point

KitchenGoto(k, point) == kitchen' = [kitchen EXCEPT ![k] = point]

\* Slip in Loop: order_left() is forgotten.
QuitOnSigint(k) ==
  /\ KitchenAt(k, "loop")
  /\ KitchenGoto(k, IF keep_running THEN "get" ELSE "gone")
  /\ UNCHANGED <<mainVars, serveVars, plate, burger, mem, fields, list,
                 counters, process, served>>

\* The loop condition.  keep_running is read before the count, and never
\* becomes true again, so that reading both at the count is the same.
Loop(k) ==
  /\ KitchenAt(k, "loop")
  /\ KitchenGoto(k, IF keep_running \/ count > 0 THEN "get" ELSE "gone")
  /\ UNCHANGED <<mainVars, serveVars, plate, burger, mem, fields, list,
                 counters, process, served>>

\* Slip in FindNothing: count-- stands before the test for NULL.
CountDownAnyway(k) ==
  /\ KitchenAt(k, "get") /\ head = Null
  /\ KitchenGoto(k, "idle")
  /\ count' = count - 1
  /\ UNCHANGED <<mainVars, serveVars, plate, burger, mem, fields, head, tail,
                 queue, counters, process, served>>

\* get_order finds the list empty: sleep(2).
FindNothing(k) ==
  /\ KitchenAt(k, "get") /\ head = Null
  /\ KitchenGoto(k, "idle")
  /\ UNCHANGED <<mainVars, serveVars, plate, burger, mem, fields, list,
                 counters, process, served>>

\* get_order, but for what becomes of head, tail and count.
TakeHead(k) ==
  /\ KitchenAt(k, "get") /\ head # Null
  /\ plate' = [plate EXCEPT ![k] = head]
  /\ queue' = IF queue = <<>> THEN <<>> ELSE Tail(queue)
  /\ KitchenGoto(k, "cook")
  /\ UNCHANGED <<mainVars, serveVars, burger, mem, fields, counters, process,
                 served>>

\* With one node in the list head->next is not read.
DanglingHead == head # Null /\ head # tail /\ mem[head] = "freed"

\* Slips in GetOrder: the last node leaves tail, or head, behind; or count
\* is not taken down.
TakeKeepsTail(k) ==
  /\ TakeHead(k) /\ ~DanglingHead
  /\ head' = next[head] /\ UNCHANGED tail
  /\ count' = count - 1

TakeKeepsHead(k) ==
  /\ TakeHead(k) /\ ~DanglingHead
  /\ IF head = tail
     THEN tail' = Null /\ UNCHANGED head
     ELSE head' = next[head] /\ UNCHANGED tail
  /\ count' = count - 1

TakeKeepsCount(k) ==
  /\ TakeHead(k) /\ ~DanglingHead
  /\ IF head = tail
     THEN head' = Null /\ tail' = Null
     ELSE head' = next[head] /\ UNCHANGED tail
  /\ UNCHANGED count

\* get_order takes the head of the list.
GetOrder(k) ==
  /\ TakeHead(k) /\ ~DanglingHead
  /\ IF head = tail
     THEN head' = Null /\ tail' = Null
     ELSE head' = next[head] /\ UNCHANGED tail
  /\ count' = count - 1

GetFromFreed(k) == KitchenAt(k, "get") /\ DanglingHead /\ Crash

\* The end of sleep(2).
Nap(k) ==
  /\ KitchenAt(k, "idle") /\ KitchenGoto(k, "loop")
  /\ UNCHANGED <<mainVars, serveVars, plate, burger, mem, fields, list,
                 counters, process, served>>

\* Slip in Cook: total_burgers is never counted up.
CookUncounted(k) ==
  /\ KitchenAt(k, "cook") /\ mem[plate[k]] # "freed"
  /\ burger' = [burger EXCEPT ![k] = type[plate[k]]]
  /\ KitchenGoto(k, "ready")
  /\ UNCHANGED <<mainVars, serveVars, plate, mem, fields, list, counters,
                 process, served>>

\* Read order->type, then sleep(5).
Cook(k) ==
  /\ KitchenAt(k, "cook") /\ mem[plate[k]] # "freed"
  /\ burger' = [burger EXCEPT ![k] = type[plate[k]]]
  /\ KitchenGoto(k, "tally")
  /\ UNCHANGED <<mainVars, serveVars, plate, mem, fields, list, counters,
                 process, served>>

\* The type of a freed node indexes burger_names.
CookFreed(k) == KitchenAt(k, "cook") /\ mem[plate[k]] = "freed" /\ Crash

\* total_burgers[type]++ under the lock.
Tally(k) ==
  /\ KitchenAt(k, "tally") /\ KitchenGoto(k, "ready")
  /\ total_burgers' = [total_burgers EXCEPT ![burger[k]] = @ + 1]
  /\ UNCHANGED <<mainVars, serveVars, plate, burger, mem, fields, list,
                 total_customers, total_queueing, process, served>>

\* Slip in MarkReady: the customer is woken but is_ready stays false.
MarkNothing(k) ==
  /\ KitchenAt(k, "ready") /\ KitchenGoto(k, "signal")
  /\ UNCHANGED <<mainVars, serveVars, plate, burger, mem, fields, list,
                 counters, process, served>>

\* is_ready = true, without order->mutex; the node may be freed already.
MarkReady(k) ==
  /\ KitchenAt(k, "ready") /\ KitchenGoto(k, "signal")
  /\ is_ready' = [is_ready EXCEPT ![plate[k]] = TRUE]
  /\ UNCHANGED <<mainVars, serveVars, plate, burger, mem, next, customerID,
                 type, list, counters, process, served>>

Waiters(a) == {c \in Customers : serve[c] = "wait" /\ order[c] = a}

\* pthread_cond_signal wakes one thread blocked on the node's cond, if any.
Signal(k) ==
  /\ KitchenAt(k, "signal") /\ KitchenGoto(k, "loop")
  /\ \/ /\ Waiters(plate[k]) = {}
        /\ UNCHANGED serve
     \/ \E c \in Waiters(plate[k]) : Goto(c, "woken")
  /\ plate' = [plate EXCEPT ![k] = Null]
  /\ UNCHANGED <<mainVars, order, want, burger, mem, fields, list, counters,
                 process, served>>

-----------------------------------------------------------------------------
\* The process is gone.
Stopped == ~Running /\ UNCHANGED vars

MainStep == Admit \/ Spawn \/ ReturnFromMain

\* Steps of a serving thread that wait for nobody; ReadOrder waits for the
\* client.
ServeStep(c) ==
  \/ Visit(c) \/ Welcome(c) \/ Allocate(c) \/ AppendOrder(c)
  \/ AppendToFreed(c) \/ CheckReady(c) \/ Block(c) \/ Recheck(c)
  \/ HandBurger(c) \/ Release(c) \/ Leave(c)

KitchenStep(k) ==
  \/ Loop(k) \/ FindNothing(k) \/ GetOrder(k) \/ GetFromFreed(k) \/ Nap(k)
  \/ Cook(k) \/ CookFreed(k) \/ Tally(k) \/ MarkReady(k) \/ Signal(k)

Next ==
  \/ Accept \/ MainStep \/ Sigint \/ Stopped
  \/ \E c \in Customers :
       Connect(c) \/ ServeStep(c) \/ ReadOrder(c) \/ WakeSpuriously(c)
  \/ \E k \in Kitchens : KitchenStep(k)

\* The scheduler runs every thread that can run.  Clients, users and failing
\* calls owe nothing.
Fairness ==
  /\ WF_vars(MainStep)
  /\ \A c \in Customers : WF_vars(ServeStep(c))
  /\ \A k \in Kitchens : WF_vars(KitchenStep(k))

Spec == Init /\ [][Next]_vars

FairSpec == Spec /\ Fairness

-----------------------------------------------------------------------------
(* Properties.                                                             *)

SeatedCustomers == {c \in Customers : serve[c] \in Seated}

\* total_queueing, which main tests against CUSTOMER_MAX and three threads
\* change, counts exactly the connections that hold a seat, and main never
\* lets in one too many (lines 300, 344-352, 357).
SeatsAccounted ==
  /\ total_queueing = Cardinality(SeatedCustomers)
  /\ total_queueing <= CustomerMax

\* head, tail, next and count are the list of the orders issued and not yet
\* taken, in the order they were issued (lines 120-130, 141-160).
ListWellFormed ==
  /\ count = Len(queue)
  /\ queue = <<>> => head = Null /\ tail = Null
  /\ queue # <<>> => head = queue[1] /\ tail = queue[Len(queue)]
  /\ \A i \in 1..Len(queue) - 1 : next[queue[i]] = queue[i + 1]

InQueue(a) == \E i \in 1..Len(queue) : queue[i] = a

Held(a) == \E k \in Kitchens : kitchen[k] \in Holding /\ plate[k] = a

\* An order is in one place: at one position of the list or in the hands of
\* one kitchen (get_order, lines 137-163).
OrdersInOnePlace ==
  /\ \A i, j \in 1..Len(queue) : queue[i] = queue[j] => i = j
  /\ \A k, l \in Kitchens :
       /\ kitchen[k] \in Holding
       /\ kitchen[l] \in Holding
       /\ plate[k] = plate[l]
       => k = l
  /\ \A a \in Nodes : ~(InQueue(a) /\ Held(a))

Unfinished(a) ==
  \/ InQueue(a)
  \/ \E k \in Kitchens :
       kitchen[k] \in {"cook", "tally", "ready"} /\ plate[k] = a

\* Until it is cooked an order stays allocated and its customer stays with
\* it, so that no kitchen and no append touches a freed node (lines 125, 155,
\* 194, 203 against 296).
UnfinishedIsLive ==
  \A a \in Nodes : Unfinished(a) =>
    /\ mem[a] = "live"
    /\ ~is_ready[a]
    /\ \E c \in Customers :
         /\ order[c] = a /\ customerID[a] = c
         /\ serve[c] \in {"check", "block", "wait"}

\* A customer who placed an order does not free it and leave before the
\* burger was sent (lines 283-296).
NobodyLeavesHungry ==
  \A c \in Customers : serve[c] = "release" => c \in served

\* Whenever the statistics are printed, they count at least the burgers that
\* customers hold, kind by kind (line 200 before line 203), as long as malloc
\* returns fresh memory: the kitchen counts the kind it read from the node.
ServedWereCounted ==
  \A b \in Burgers :
    Cardinality({c \in served : want[c] = b}) <= total_burgers[b]

Cooked(c) == order[c] # Null /\ is_ready[order[c]]

Open == \E k \in Kitchens : kitchen[k] # "gone"

\* An order issued while a kitchen is open is cooked, SIGINT or not: kitchens
\* leave only when the list is empty (line 187), and no order gets lost in it.
QueuedIsCooked ==
  \A c \in Customers :
    (serve[c] \in Ordering /\ Open) ~> (Cooked(c) \/ ~Running)

\* After SIGINT every kitchen closes once the orders are cooked (README, 10),
\* so that count, which order_left reads, is 0 when the list is empty.
KitchensClose ==
  ~keep_running ~> (~Running \/ \A k \in Kitchens : kitchen[k] = "gone")

\* Each order is answered: a burger that is ready is handed over, or the
\* sending fails (README, 7: "kitchen threads wake up the thread that filed
\* the order").  Lines 203-204 do not hold order->mutex.
ReadyIsHandedOver ==
  \A c \in Customers :
    (serve[c] \in Ordering /\ Cooked(c))
      ~> (c \in served \/ serve[c] \in {"leave", "left"} \/ ~Running)

\* Only the customer whose order is ready is woken (README, 7).
WokenForOwnOrder ==
  \A c \in Customers : serve[c] = "woken" => is_ready[order[c]]

-----------------------------------------------------------------------------
(* The server implements OrderService.                                     *)

\* How far an order has come; an allocated node not yet appended is none.
phaseOf(c) ==
  IF c \in served THEN "served"
  ELSE IF Cooked(c) THEN "cooked"
  ELSE IF InQueue(order[c]) THEN "queued"
  ELSE IF Held(order[c]) /\ order[c] # Null THEN "cooking"
  ELSE "none"

Promise == INSTANCE OrderService WITH
  phase <- [c \in Customers |-> phaseOf(c)],
  line  <- [i \in 1..Len(queue) |-> customerID[queue[i]]]

\* Every step of the server is a step of OrderService or invisible in it.
KeepsPromise == Promise!Spec

=============================================================================
