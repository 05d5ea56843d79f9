------------------------------ MODULE Session -------------------------------
(***************************************************************************)
(* One session of Lab 5: a thread of client.c and the thread of            *)
(* mcdonalds.c that serves it, talking in lines (get_line and put_line of  *)
(* net.c) over a TCP connection.  McDonalds.tla models what the serving    *)
(* threads share; here each is alone with its client, and what matters is  *)
(* what a recv or a send returns: part of the data, the end of the stream, *)
(* an error, or a SIGPIPE, which neither program handles.                  *)
(*                                                                         *)
(* A byte is a symbol: a name is two of them, so that the first alone      *)
(* names no burger; the texts of the other lines are as short as they can  *)
(* be.  A send moves any number of the bytes it is given.  The kernel is   *)
(* external and modelled as Linux behaves: segments and the FIN or RST     *)
(* behind them arrive in order; closing with unread data, or sending to a  *)
(* closed socket, provokes an RST; data received before an RST can still   *)
(* be read; the first call after it fails with ECONNRESET, and later ones  *)
(* read nothing or raise SIGPIPE.  The programs talk over the loopback     *)
(* interface (IP in burger.h), which loses nothing.  Either process may    *)
(* be killed at any time.  EINTR only repeats a call and is not a step.    *)
(***************************************************************************)
EXTENDS Integers, Sequences, SequencesExt

CONSTANTS
  Burgers,   \* the burger types
  NoBurger,  \* BURGER_TYPE_MAX: none of them
  BufSize,   \* BUF_SIZE, the length of a fresh line buffer
  Client, Server

ASSUME BufSizeAssumption == BufSize \in Nat \ {0}
ASSUME EndsAssumption == Client # Server

\* Names are words: no newline is in them.  (FIN and RST are not bytes.)
ASSUME BurgersAssumption ==
  /\ NoBurger \notin Burgers
  /\ {"\n", "FIN", "RST"} \cap Burgers = {}

VARIABLES
  sock,     \* each end's socket, with the segments under way to it
  pc,       \* where each program stands; while io's call runs, inside it
  io,       \* each end's get_line or put_line call, and its line buffer
  choice,   \* the burger the client chose
  order,    \* the type the server read
  said,     \* the lines each end has given to put_line
  heard,    \* the lines each end has got from get_line
  missed,   \* the client took a -1 for success
  piped     \* the ends whose process died of SIGPIPE

vars == <<sock, pc, io, choice, order, said, heard, missed, piped>>

Ends == {Client, Server}
Peer(e) == IF e = Client THEN Server ELSE Client

NL == "\n"
Fin == <<"FIN">>
Rst == <<"RST">>

Welcome == <<"w", "e", "l", NL>>
Name(b) == <<"n", b>>
Goodbye(b) == <<"y", b, NL>>

\* The chosen name in the cleared buffer, with a newline behind it.
OrderLine(b) == Name(b) \o <<NL>>

\* Slip in Parse: a name is known by its first bytes.
ParsePrefix(buf) ==
  IF \E b \in Burgers : IsPrefix(buf, OrderLine(b))
    THEN CHOOSE b \in Burgers : IsPrefix(buf, OrderLine(b))
    ELSE NoBurger

\* The type of the word in buf.  The newline is a separator like the space,
\* and need not be there.
Parse(buf) ==
  IF \E b \in Burgers : buf \in {Name(b), OrderLine(b)}
    THEN CHOOSE b \in Burgers : buf \in {Name(b), OrderLine(b)}
    ELSE NoBurger

-----------------------------------------------------------------------------
(* The kernel.                                                             *)

\* The segment seg leaves end e for the other end.
Post(s, e, seg) == [s EXCEPT ![Peer(e)].wire = Append(@, seg)]

\* close(): an RST when data is unread or the connection was never accepted.
Closed(e) ==
  LET s == [sock EXCEPT ![e].open = FALSE, ![e].rcv = <<>>]
      abrupt == sock[e].rcv # <<>> \/ pc[e] = "accept"
  IN IF sock[e].err # "none" THEN s ELSE Post(s, e, IF abrupt THEN Rst ELSE Fin)

Deliver(e) ==
  /\ sock[e].wire # <<>>
  /\ LET seg == Head(sock[e].wire)
         s == [sock EXCEPT ![e].wire = Tail(@)]
         up == sock[e].open /\ sock[e].err = "none"
     IN sock' = CASE seg = Fin -> [s EXCEPT ![e].fin = @ \/ up]
                  [] seg = Rst /\ up ->
                       [s EXCEPT ![e].err = IF s[e].fin THEN "dead" ELSE "reset"]
                  [] seg = Rst /\ ~up -> s
                  [] seg \notin {Fin, Rst} /\ up -> [s EXCEPT ![e].rcv = @ \o seg]
                  [] OTHER -> Post(s, e, Rst)
  /\ UNCHANGED <<pc, io, choice, order, said, heard, missed, piped>>

-----------------------------------------------------------------------------
(* get_line and put_line of net.c.                                         *)

StartGet(e) ==
  /\ io' = [io EXCEPT ![e].call = "get", ![e].buf = <<>>]
  /\ UNCHANGED said

\* A missing newline would be added; every caller's line has one.
StartPut(e, line) ==
  /\ io' = [io EXCEPT ![e].call = "put", ![e].part = FALSE, ![e].rest =
              IF Last(line) = NL THEN line ELSE Append(line, NL)]
  /\ said' = [said EXCEPT ![e] = Append(@, line)]

\* What a call returned, once it has.
Returned(e, where) == pc[e] = where /\ io[e].call = "none"

\* Slip in Grown: room for the bytes, none for the '\0'.
GrownLate(cap, len) == IF len > cap THEN 2 * cap ELSE cap

\* The buffer doubles as soon as it is full: the '\0' needs a place too.
Grown(cap, len) == IF len = cap THEN 2 * cap ELSE cap

GetByte(e) ==
  /\ io[e].call = "get" /\ sock[e].rcv # <<>>
  /\ LET buf == Append(io[e].buf, Head(sock[e].rcv))
         whole == Last(buf) = NL
     IN /\ io' = [io EXCEPT ![e].buf = buf, ![e].cap = Grown(@, Len(buf)),
                            ![e].call = IF whole THEN "none" ELSE "get",
                            ![e].res = IF whole THEN Len(buf) ELSE @]
        /\ heard' = IF whole THEN [heard EXCEPT ![e] = Append(@, buf)] ELSE heard
  /\ sock' = [sock EXCEPT ![e].rcv = Tail(@)]
  /\ UNCHANGED <<pc, choice, order, said, missed, piped>>

\* recv returns 0 at the end of the stream and -1 after a reset, and so does
\* get_line, whatever it has read by then.  When that is nothing, c has no
\* value: should it be '\n' by chance, get_line returns pos, which is 0.
EndResults(e) ==
  LET res == IF sock[e].err = "reset" THEN -1 ELSE 0
  IN IF io[e].buf = <<>> THEN {res, 0} ELSE {res}

\* Slip in GetEnd: what was read of a line is returned as a line.
GetEndAsLine(e) ==
  /\ io[e].call = "get" /\ sock[e].rcv = <<>>
  /\ sock[e].fin \/ sock[e].err # "none"
  /\ io' = [io EXCEPT ![e].call = "none", ![e].res = Len(io[e].buf)]
  /\ heard' = [heard EXCEPT ![e] = IF io[e].buf = <<>> THEN @ ELSE Append(@, io[e].buf)]
  /\ UNCHANGED <<sock, pc, choice, order, said, missed, piped>>

\* Slip in GetEnd: 0 is taken for an interrupted call and recv called again.
GetEndRetries(e) ==
  /\ io[e].call = "get" /\ sock[e].rcv = <<>> /\ sock[e].err = "reset"
  /\ io' = [io EXCEPT ![e].call = "none", ![e].res = -1]
  /\ sock' = [sock EXCEPT ![e].err = "dead"]
  /\ UNCHANGED <<pc, choice, order, said, heard, missed, piped>>

GetEnd(e) ==
  /\ io[e].call = "get" /\ sock[e].rcv = <<>>
  /\ sock[e].fin \/ sock[e].err # "none"
  /\ \E r \in EndResults(e) :
       io' = [io EXCEPT ![e].call = "none", ![e].res = r]
  /\ sock' = [sock EXCEPT ![e].err = IF @ = "reset" THEN "dead" ELSE @]
  /\ UNCHANGED <<pc, choice, order, said, heard, missed, piped>>

\* send takes the first n bytes; transfer_data goes on with the others.
PutSome(e) ==
  /\ io[e].call = "put" /\ sock[e].err = "none"
  /\ \E n \in 1..Len(io[e].rest) :
       LET rest == SubSeq(io[e].rest, n + 1, Len(io[e].rest))
       IN /\ sock' = Post(sock, e, SubSeq(io[e].rest, 1, n))
          /\ io' = [io EXCEPT ![e].rest = rest, ![e].part = @ \/ rest # <<>>,
                              ![e].call = IF rest = <<>> THEN "none" ELSE "put",
                              ![e].res = 1]
  /\ UNCHANGED <<pc, choice, order, said, heard, missed, piped>>

\* The part that was sent no longer counts: the result is -1.
PutFails(e) ==
  /\ io[e].call = "put" /\ sock[e].err = "reset"
  /\ sock' = [sock EXCEPT ![e].err = "dead"]
  /\ io' = [io EXCEPT ![e].call = "none", ![e].res = -1]
  /\ UNCHANGED <<pc, choice, order, said, heard, missed, piped>>

-----------------------------------------------------------------------------
(* The ends of the two programs, expected and not.                         *)

Leave(e, how) ==
  /\ sock' = Closed(e)
  /\ pc' = [pc EXCEPT ![e] = how]
  /\ io' = [io EXCEPT ![e].call = "none"]
  /\ UNCHANGED <<choice, order, said, heard, missed>>

Close(e) == Leave(e, "closed") /\ UNCHANGED piped

\* send on a connection known to be dead: SIGPIPE ends the process.
PutKills(e) ==
  /\ io[e].call = "put" /\ sock[e].err = "dead"
  /\ Leave(e, "killed")
  /\ piped' = piped \cup {e}

\* A signal from outside, or the end of the server after a second SIGINT.
Kill(e) == sock[e].open /\ Leave(e, "killed") /\ UNCHANGED piped

-----------------------------------------------------------------------------
(* client.c: thread_task().                                                *)

\* One of the addresses answers and get_line is called, or none does.
Connect ==
  /\ pc[Client] = "connect"
  /\ \/ /\ sock' = [e \in Ends |-> [sock[e] EXCEPT !.open = TRUE]]
        /\ pc' = [pc EXCEPT ![Client] = "welcome"]
        /\ StartGet(Client)
     \/ /\ pc' = [e \in Ends |-> "closed"]
        /\ UNCHANGED <<sock, io, said>>
  /\ UNCHANGED <<choice, order, heard, missed, piped>>

\* Slip in Choose: what get_line returned is not looked at.
ChooseAnyway ==
  /\ Returned(Client, "welcome")
  /\ \E b \in Burgers :
       choice' = b /\ StartPut(Client, OrderLine(b))
  /\ pc' = [pc EXCEPT ![Client] = "order"]
  /\ missed' = (missed \/ io[Client].res < 0)
  /\ UNCHANGED <<sock, order, heard, piped>>

\* read is a size_t: read <= 0 is true of 0 and never of -1.
Choose ==
  /\ Returned(Client, "welcome") /\ io[Client].res # 0
  /\ \E b \in Burgers :
       choice' = b /\ StartPut(Client, OrderLine(b))
  /\ pc' = [pc EXCEPT ![Client] = "order"]
  /\ missed' = (missed \/ io[Client].res < 0)
  /\ UNCHANGED <<sock, order, heard, piped>>

NoWelcome ==
  /\ Returned(Client, "welcome") /\ io[Client].res = 0
  /\ Close(Client)

\* sent is a size_t: sent < 0 is never true.
AwaitReply ==
  /\ Returned(Client, "order")
  /\ StartGet(Client)
  /\ pc' = [pc EXCEPT ![Client] = "reply"]
  /\ missed' = (missed \/ io[Client].res < 0)
  /\ UNCHANGED <<sock, choice, order, heard, piped>>

\* Whether the reply was read or not only changes what is printed.
Depart == Returned(Client, "reply") /\ Close(Client)

-----------------------------------------------------------------------------
(* mcdonalds.c: start_server() and serve_client().                         *)

\* CUSTOMER_MAX customers are there already.
Decline == pc[Server] = "accept" /\ sock[Server].open /\ Close(Server)

\* asprintf may fail, and then the thread returns and leaves the socket open.
Serve ==
  /\ pc[Server] = "accept" /\ sock[Server].open
  /\ \/ /\ StartPut(Server, Welcome)
        /\ pc' = [pc EXCEPT ![Server] = "welcome"]
     \/ /\ pc' = [pc EXCEPT ![Server] = "abandoned"]
        /\ UNCHANGED <<io, said>>
  /\ UNCHANGED <<sock, choice, order, heard, missed, piped>>

AwaitOrder ==
  /\ Returned(Server, "welcome") /\ io[Server].res >= 0
  /\ StartGet(Server)
  /\ pc' = [pc EXCEPT ![Server] = "order"]
  /\ UNCHANGED <<sock, choice, order, heard, missed, piped>>

\* Only -1 is an error here: after an end of the stream, what was read of
\* the line is parsed like a line.
TakeOrder ==
  /\ Returned(Server, "order") /\ io[Server].res >= 0
  /\ Parse(io[Server].buf) # NoBurger
  /\ order' = Parse(io[Server].buf)
  /\ pc' = [pc EXCEPT ![Server] = "kitchen"]
  /\ UNCHANGED <<sock, io, choice, said, heard, missed, piped>>

\* The wait for the kitchen is over and the burger is ready.
HandOver ==
  /\ pc[Server] = "kitchen"
  /\ StartPut(Server, Goodbye(order))
  /\ pc' = [pc EXCEPT ![Server] = "goodbye"]
  /\ UNCHANGED <<sock, choice, order, heard, missed, piped>>

\* A spurious wakeup (the wait has no loop): no goodbye.
TurnAway == pc[Server] = "kitchen" /\ Close(Server)

ServerErr ==
  /\ \/ Returned(Server, "welcome") /\ io[Server].res < 0
     \/ /\ Returned(Server, "order")
        /\ io[Server].res < 0 \/ Parse(io[Server].buf) = NoBurger
     \/ Returned(Server, "goodbye")
  /\ Close(Server)

-----------------------------------------------------------------------------
Init ==
  /\ sock = [e \in Ends |-> [wire |-> <<>>, rcv |-> <<>>, fin |-> FALSE,
                             err |-> "none", open |-> FALSE]]
  /\ pc = [e \in Ends |-> IF e = Client THEN "connect" ELSE "accept"]
  /\ io = [e \in Ends |-> [call |-> "none", buf |-> <<>>, cap |-> BufSize,
                           rest |-> <<>>, part |-> FALSE, res |-> 0]]
  /\ choice = NoBurger /\ order = NoBurger
  /\ said = [e \in Ends |-> <<>>]
  /\ heard = [e \in Ends |-> <<>>]
  /\ missed = FALSE
  /\ piped = {}

LineCall(e) == GetByte(e) \/ GetEnd(e) \/ PutSome(e) \/ PutFails(e) \/ PutKills(e)

ClientStep ==
  LineCall(Client) \/ Connect \/ Choose \/ NoWelcome \/ AwaitReply \/ Depart

ServerStep ==
  LineCall(Server) \/ Decline \/ Serve \/ AwaitOrder \/ TakeOrder \/ ServerErr

\* How the wait in the kitchen ends is McDonalds' business.
Kitchen == HandOver \/ TurnAway

Next ==
  \/ ClientStep \/ ServerStep \/ Kitchen
  \/ \E e \in Ends : Deliver(e) \/ Kill(e)

\* Threads that can run do run, and what was sent arrives.
Fairness ==
  /\ WF_vars(ClientStep) /\ WF_vars(ServerStep)
  /\ \A e \in Ends : WF_vars(Deliver(e))

Spec == Init /\ [][Next]_vars /\ Fairness

-----------------------------------------------------------------------------
(* Properties.                                                             *)

Bytes == {NL, "w", "e", "l", "n", "y"} \cup Burgers
Texts == {Welcome} \cup {OrderLine(b) : b \in Burgers} \cup {Goodbye(b) : b \in Burgers}

\* Types.  A line buffer always has a place left for the '\0' that get_line
\* writes behind the bytes it has read.
TypeOK ==
  /\ \A e \in Ends :
       /\ sock[e].wire \in Seq(Seq(Bytes \cup {"FIN", "RST"}))
       /\ sock[e].rcv \in Seq(Bytes)
       /\ sock[e].fin \in BOOLEAN /\ sock[e].open \in BOOLEAN
       /\ sock[e].err \in {"none", "reset", "dead"}
       /\ io[e].call \in {"none", "get", "put"}
       /\ io[e].buf \in Seq(Bytes) /\ io[e].rest \in Seq(Bytes)
       /\ io[e].cap \in Nat /\ Len(io[e].buf) < io[e].cap
       /\ io[e].part \in BOOLEAN /\ io[e].res \in Int
       /\ pc[e] \in {"connect", "accept", "welcome", "order", "reply",
                     "kitchen", "goodbye", "abandoned", "closed", "killed"}
  /\ {choice, order} \subseteq Burgers \cup {NoBurger}
  /\ \A e \in Ends : said[e] \in Seq(Texts) /\ heard[e] \in Seq(Seq(Bytes))
  /\ missed \in BOOLEAN /\ piped \subseteq Ends

ToServer == INSTANCE LineChannel WITH put <- said[Client], got <- heard[Server]
ToClient == INSTANCE LineChannel WITH put <- said[Server], got <- heard[Client]

\* In either direction get_line returns, with a positive result, exactly the
\* lines the other end gave to put_line, whole and in order, however the
\* bytes were split on their way and whenever an end was killed (net.h:94-115).
KeepsLines == ToServer!Spec /\ ToClient!Spec

\* The server cooks what its client chose, although it parses a line whose
\* end it has not seen as if it were whole (the end of the stream is no error
\* to it, mcdonalds.c:249).  When both have come to their ends and the server
\* put its goodbye without an error, the client has heard the welcome and the
\* goodbye for its own burger.
ServedAsOrdered ==
  /\ order # NoBurger => order = choice
  /\ (/\ \A e \in Ends : pc[e] = "closed"
      /\ Len(said[Server]) = 2 /\ io[Server].res > 0)
     => heard[Client] = <<Welcome, Goodbye(choice)>>

\* No program handles SIGPIPE, so one customer's bad connection can end the
\* server and every other session with it.  That takes a goodbye or welcome
\* that needs more than one send; and a client dies only so, or because it
\* took the -1 of its welcome for success (client.c:92, read is unsigned).
SigpipeIsNarrow ==
  \A e \in piped : io[e].part \/ (e = Client /\ missed)

\* In the end both have hung up, however their calls ended, unless the server
\* waits for its burger or has left the socket open (mcdonalds.c:237): nobody
\* waits for a line from an end that will never send it.
HangsUp ==
  <>[](\/ pc[Client] = "connect"
       \/ \A e \in Ends : pc[e] \in {"closed", "killed"}
       \/ pc[Server] \in {"kitchen", "abandoned"})

=============================================================================
