--------------------------- MODULE SessionProofs ---------------------------
(***************************************************************************)
(* A session keeps its lines and its order, for any burgers and any size   *)
(* of the line buffer.                                                     *)
(*                                                                         *)
(* Each direction of a connection is seen as one text, the Script of its   *)
(* sender, cut into pieces: what was got as lines, what is in the line     *)
(* buffer, what is in the socket, the segments under way, and what is      *)
(* still to be sent.  StreamAt says where each piece begins.               *)
(***************************************************************************)
EXTENDS Session, SequenceTheorems, TLAPS

Gone(e) == pc[e] \in {"closed", "killed"}
Ctrl == {Fin, Rst}

\* All that end e may say in a session, where its n-th line ends in it, how
\* much of it has been given to put_line, and how much has been sent.
Script(e) ==
  IF e = Client THEN <<"n", choice, NL>>
                ELSE <<"w", "e", "l", NL, "y", order, NL>>
LineEnd(e, n) == IF n = 0 THEN 0 ELSE IF e = Client THEN 3 ELSE IF n = 1 THEN 4 ELSE 7

\* Counts of the lines put and got, and of the bytes to send and read of a line.
Lines(e)  == Len(said[e])
Got(e)    == Len(heard[e])
Left(e)   == Len(io[e].rest)
Filled(e) == Len(io[e].buf)

Spoken(e) == LineEnd(e, Lines(e))
Sent(e)   == Spoken(e) - Left(e)

\* Where the lines that end e has got end in its peer's script.
Heard(e) == LineEnd(Peer(e), Got(e))

\* The bytes of seg are those of the text behind position i, of the first n.
Fits(text, n, i, seg) ==
  /\ i + Len(seg) <= n
  /\ \A k \in 1 .. Len(seg) : seg[k] = text[i + k]

\* Neither a FIN nor an RST is under way.
Plain(wire) == \A k \in 1 .. Len(wire) : wire[k] \notin Ctrl

\* Each segment of the wire begins where the one before it ends.  For an end
\* that is alive nothing but FIN and RST comes behind a FIN or RST.
Sliced(wire, pos, text, n, alive) ==
  /\ \A k \in 1 .. Len(wire) :
       IF wire[k] \in Ctrl
         THEN pos[k + 1] = pos[k] /\ (alive => pos[k] = pos[Len(wire) + 1])
         ELSE /\ Len(wire[k]) > 0 /\ pos[k + 1] = pos[k] + Len(wire[k])
              /\ Fits(text, n, pos[k], wire[k])
  /\ \A j, k \in 1 .. Len(wire) + 1 : j <= k => pos[j] <= pos[k]

\* The wire holds the bytes of the text from first up to last.
Slicing(wire, first, last, text, n, alive) ==
  \E pos \in [1 .. Len(wire) + 1 -> Nat] :
    /\ Sliced(wire, pos, text, n, alive)
    /\ pos[1] = first /\ pos[Len(wire) + 1] = last

\* The client calls get_line again after one that failed.
GaveUp(e) == e = Client /\ pc[e] \in {"order", "reply"} /\ Got(e) = 0

\* The next get_line call is one for a new line.
Ready(e) ==
  \/ e = Client /\ pc[e] \in {"connect", "order"}
  \/ e = Client /\ pc[e] = "welcome" /\ Got(e) > 0
  \/ e = Server /\ pc[e] \in {"accept", "welcome"}

\* End e reads, or will read, the line behind those it has heard; so much of
\* that line is in its buffer.
Follows(e) == ~GaveUp(e) /\ (io[e].call = "get" \/ Ready(e))
Pending(e) == IF io[e].call = "get" THEN Filled(e) ELSE 0

\* What is in the socket comes before what is under way, which begins at
\* first, and behind what has been read.
Linked(e, first) ==
  LET start == first - Len(sock[e].rcv)
  IN  /\ Heard(e) <= start
      /\ Fits(Script(Peer(e)), Spoken(Peer(e)), start, sock[e].rcv)
      /\ Follows(e) => start = Heard(e) + Pending(e)
      /\ ~Gone(e) /\ (sock[e].fin \/ sock[e].err # "none") => first = Sent(Peer(e))

Stream(e) ==
  LET p == Peer(e)
  IN  \E first \in Nat :
        /\ Slicing(sock[e].wire, first, Sent(p), Script(p), Spoken(p), ~Gone(e))
        /\ Linked(e, first)

(***************************************************************************)
(* Types.                                                                  *)
(***************************************************************************)
Segments == Seq(Bytes) \cup Ctrl

Sockets ==
  [wire : Seq(Segments), rcv : Seq(Bytes), fin : BOOLEAN,
   err : {"none", "reset", "dead"}, open : BOOLEAN]

Calls ==
  [call : {"none", "get", "put"}, buf : Seq(Bytes), cap : Nat,
   rest : Seq(Bytes), part : BOOLEAN, res : Int]

Places == {"connect", "accept", "welcome", "order", "reply", "kitchen",
           "goodbye", "abandoned", "closed", "killed"}

Types ==
  /\ sock \in [Ends -> Sockets]
  /\ io \in [Ends -> Calls]
  /\ pc \in [Ends -> Places]
  /\ choice \in Burgers \cup {NoBurger} /\ order \in Burgers \cup {NoBurger}
  /\ said \in [Ends -> Seq(Texts)]
  /\ heard \in [Ends -> Seq(Seq(Bytes))]
  /\ missed \in BOOLEAN /\ piped \subseteq Ends
  /\ \A e \in Ends : Len(io[e].buf) < io[e].cap

(***************************************************************************)
(* The inductive invariant.                                                *)
(***************************************************************************)
Line(e, n) ==
  IF e = Client THEN OrderLine(choice) ELSE IF n = 1 THEN Welcome ELSE Goodbye(order)

\* Where the programs stand, and which call they can be in there.
PlacesInv ==
  /\ pc[Client] \in {"connect", "welcome", "order", "reply", "closed", "killed"}
  /\ pc[Server] \in {"accept", "welcome", "order", "kitchen", "goodbye", "abandoned",
                     "closed", "killed"}
  /\ pc[Client] = "connect" => pc[Server] = "accept"
  /\ \A e \in Ends :
       /\ sock[e].open <=> pc[Client] # "connect" /\ ~Gone(e)
       /\ ~sock[e].open => sock[e].rcv = <<>> /\ io[e].call = "none"
       /\ pc[Client] = "connect" => sock[e].wire = <<>>
       /\ e \in piped => Gone(e)
  /\ io[Client].call = "get" => pc[Client] \in {"welcome", "reply"}
  /\ io[Client].call = "put" => pc[Client] = "order"
  /\ io[Server].call = "get" => pc[Server] = "order"
  /\ io[Server].call = "put" => pc[Server] \in {"welcome", "goodbye"}

\* The lines given to put_line, by place.
SaidInv ==
  /\ \A e \in Ends : \A n \in 1 .. Lines(e) : said[e][n] = Line(e, n)
  /\ Lines(Client) = IF choice = NoBurger THEN 0 ELSE 1
  /\ Lines(Server) <= IF order = NoBurger THEN 1 ELSE 2
  /\ pc[Client] \in {"connect", "welcome"} => choice = NoBurger
  /\ pc[Client] \in {"order", "reply"} => choice # NoBurger
  /\ pc[Server] \in {"accept", "abandoned"} => Lines(Server) = 0
  /\ pc[Server] \in {"welcome", "order", "kitchen"} => Lines(Server) = 1
  /\ pc[Server] = "goodbye" => Lines(Server) = 2
  /\ order # NoBurger => order = choice
  /\ pc[Server] \in {"accept", "welcome", "order", "abandoned"} => order = NoBurger
  /\ pc[Server] \in {"kitchen", "goodbye"} => order # NoBurger

\* The lines got from get_line, by place, and what the result says of them.
HeardInv ==
  /\ \A e \in Ends :
       /\ Got(e) <= Lines(Peer(e))
       /\ \A n \in 1 .. Got(e) : heard[e][n] = said[Peer(e)][n]
  /\ pc[Client] = "connect" => Got(Client) = 0
  /\ pc[Client] = "welcome" =>
       /\ Got(Client) = IF io[Client].call = "none" /\ io[Client].res > 0 THEN 1 ELSE 0
       /\ io[Client].call = "none" /\ io[Client].res < 0 =>
            sock[Client].err = "dead" /\ sock[Client].rcv = <<>>
  /\ pc[Client] = "order" => Got(Client) <= 1
  /\ pc[Server] \in {"accept", "welcome"} => Got(Server) = 0
  /\ GaveUp(Client) => sock[Client].err = "dead" /\ sock[Client].rcv = <<>> /\ missed
  /\ choice # NoBurger /\ ~Gone(Server) => Got(Client) > 0

\* What is still to be sent is the end of what has been said.
PutInv ==
  /\ \A e \in Ends :
       /\ Sent(e) >= 0 /\ Fits(Script(e), Spoken(e), Sent(e), io[e].rest)
       /\ Lines(e) = 0 => Left(e) = 0
       /\ io[e].call = "put" =>
            /\ Left(e) > 0
            /\ ~io[e].part => Sent(e) = LineEnd(e, Lines(e) - 1)
  /\ pc[Server] = "welcome" /\ io[Server].call = "none" /\ io[Server].res >= 0
       => Left(Server) = 0
  /\ pc[Server] \in {"order", "kitchen"} => Left(Server) = 0
  /\ pc[Server] = "goodbye" /\ io[Server].call = "none" /\ io[Server].res > 0
       => Left(Server) = 0

\* What has been read of a line is its beginning.
GetInv ==
  /\ \A e \in Ends :
       io[e].call = "get" /\ ~GaveUp(e) =>
         /\ Fits(Script(Peer(e)), Spoken(Peer(e)), Heard(e), io[e].buf)
         /\ Heard(e) + Filled(e) < LineEnd(Peer(e), Got(e) + 1)
  /\ pc[Server] = "order" => Fits(Script(Client), Spoken(Client), 0, io[Server].buf)
  /\ pc[Server] = "order" /\ io[Server].call = "get" => Got(Server) = 0

\* Only an end that has gone ends or resets the connection.
NoCtrl ==
  \A e \in Ends : ~Gone(Peer(e)) =>
    /\ ~sock[e].fin /\ sock[e].err = "none"
    /\ Plain(sock[e].wire)

Streams == \A e \in Ends : Stream(e)

\* All that end e has sent has been taken as lines, and it was accepted: then
\* the other end has no reason to reset the connection.
Quiet(e) ==
  Sent(e) = Heard(Peer(e)) /\ ~(e = Client /\ Gone(Server) /\ Lines(Server) = 0)

Clean ==
  \A e \in Ends : Quiet(e) =>
    /\ sock[e].err = "none"
    /\ \A k \in 1 .. Len(sock[e].wire) : sock[e].wire[k] # Rst

\* The server has put its goodbye; the client's get_line has failed.
Served == pc[Server] = "closed" /\ Lines(Server) = 2 /\ io[Server].res > 0
Failed ==
  \/ pc[Client] = "welcome" /\ io[Client].call = "none" /\ Got(Client) = 0
  \/ pc[Client] \in {"order", "reply"} /\ Got(Client) = 0
  \/ pc[Client] = "reply" /\ io[Client].call = "none" /\ Got(Client) < 2
  \/ pc[Client] = "closed" /\ Got(Client) < 2

Answered ==
  /\ Served => Left(Server) = 0
  /\ Failed => Gone(Server) /\ ~Served

SessionInv ==
  /\ Types /\ PlacesInv /\ SaidInv /\ HeardInv /\ PutInv /\ GetInv
  /\ NoCtrl /\ Streams /\ Clean /\ Answered /\ SigpipeIsNarrow

LEMMA OrderLineIs ==
  ASSUME NEW b
  PROVE  OrderLine(b) = <<"n", b, NL>>
<1> DEFINE S == {"n", b, NL}
           t == <<"n", b, NL>>
<1>1. Name(b) \in Seq(S) /\ <<NL>> \in Seq(S) /\ t \in Seq(S)
  BY DEF Name
<1>2. Len(Name(b)) = 2 /\ Len(<<NL>>) = 1 /\ Len(t) = 3
  BY DEF Name
<1>3. /\ OrderLine(b) \in Seq(S) /\ Len(OrderLine(b)) = 3
      /\ \A i \in 1 .. 3 : OrderLine(b)[i] = IF i <= 2 THEN Name(b)[i] ELSE <<NL>>[i - 2]
  BY SMTT(30), <1>1, <1>2, ConcatProperties DEF OrderLine
<1>4. \A i \in 1 .. 3 : OrderLine(b)[i] = t[i]
  BY <1>3 DEF Name
<1> QED
  BY <1>1, <1>2, <1>3, <1>4, SeqEqual

LEMMA TextsAreBytes ==
  /\ Texts \subseteq Seq(Bytes)
  /\ \A t \in Texts : t # <<>> /\ Last(t) = NL
<1>1. Welcome \in Seq(Bytes) /\ Welcome # <<>> /\ Last(Welcome) = NL
  BY DEF Welcome, Bytes, Last
<1>2. ASSUME NEW b \in Burgers
      PROVE  /\ OrderLine(b) \in Seq(Bytes) /\ OrderLine(b) # <<>> /\ Last(OrderLine(b)) = NL
             /\ Goodbye(b) \in Seq(Bytes) /\ Goodbye(b) # <<>> /\ Last(Goodbye(b)) = NL
  <2>1. OrderLine(b) = <<"n", b, NL>>
    BY OrderLineIs
  <2>2. {"n", "y", b, NL} \subseteq Bytes
    BY DEF Bytes
  <2>3. OrderLine(b) \in Seq(Bytes) /\ Len(OrderLine(b)) = 3 /\ OrderLine(b)[3] = NL
    BY <2>1, <2>2
  <2>4. Goodbye(b) \in Seq(Bytes) /\ Len(Goodbye(b)) = 3 /\ Goodbye(b)[3] = NL
    BY <2>2 DEF Goodbye
  <2> QED
    BY SMTT(30), <2>3, <2>4 DEF Last
<1> QED
  BY <1>1, <1>2 DEF Texts

LEMMA TypesInit == Init => Types
<1> SUFFICES ASSUME Init PROVE Types
  OBVIOUS
<1> USE BufSizeAssumption DEF Init, Ends
<1>1. sock \in [Ends -> Sockets]
  BY DEF Sockets
<1>2. io \in [Ends -> Calls] /\ \A e \in Ends : Len(io[e].buf) < io[e].cap
  BY DEF Calls
<1>3. said \in [Ends -> Seq(Texts)] /\ heard \in [Ends -> Seq(Seq(Bytes))]
  OBVIOUS
<1>4. pc \in [Ends -> Places]
  BY DEF Places
<1> QED
  BY <1>1, <1>2, <1>3, <1>4 DEF Types

LEMMA PeerFacts ==
  ASSUME NEW e \in Ends
  PROVE  /\ Peer(e) \in Ends /\ Peer(e) # e /\ Peer(Peer(e)) = e
         /\ \A d \in Ends : d = e \/ d = Peer(e)
BY EndsAssumption DEF Peer, Ends

Sock(wire, rcv, fin, err, open) ==
  [wire |-> wire, rcv |-> rcv, fin |-> fin, err |-> err, open |-> open]

Call(call, buf, cap, rest, part, res) ==
  [call |-> call, buf |-> buf, cap |-> cap, rest |-> rest, part |-> part, res |-> res]

LEMMA SockType ==
  ASSUME NEW wire \in Seq(Segments), NEW rcv \in Seq(Bytes), NEW fin \in BOOLEAN,
         NEW err \in {"none", "reset", "dead"}, NEW open \in BOOLEAN
  PROVE  Sock(wire, rcv, fin, err, open) \in Sockets
BY DEF Sock, Sockets

LEMMA CallType ==
  ASSUME NEW call \in {"none", "get", "put"}, NEW buf \in Seq(Bytes), NEW cap \in Nat,
         NEW rest \in Seq(Bytes), NEW part \in BOOLEAN, NEW res \in Int
  PROVE  Call(call, buf, cap, rest, part, res) \in Calls
BY DEF Call, Calls

\* Every socket and every call is made of its fields.
LEMMA Fields ==
  ASSUME Types, NEW e \in Ends
  PROVE  /\ sock[e].wire \in Seq(Segments) /\ sock[e].rcv \in Seq(Bytes)
         /\ sock[e].fin \in BOOLEAN /\ sock[e].open \in BOOLEAN
         /\ sock[e].err \in {"none", "reset", "dead"}
         /\ io[e].call \in {"none", "get", "put"}
         /\ io[e].buf \in Seq(Bytes) /\ io[e].rest \in Seq(Bytes)
         /\ io[e].cap \in Nat /\ io[e].part \in BOOLEAN /\ io[e].res \in Int
         /\ Len(io[e].buf) < io[e].cap
         /\ sock[e] = Sock(sock[e].wire, sock[e].rcv, sock[e].fin, sock[e].err, sock[e].open)
BY DEF Types, Sockets, Calls, Sock

\* In this step one call, that of end e, becomes c; one socket becomes s.
CallBecomes(e, c) ==
  /\ io' \in [Ends -> Calls] /\ io'[e] = c
  /\ \A d \in Ends : d # e => io'[d] = io[d]
  /\ \A d \in Ends : Len(io'[d].buf) < io'[d].cap

SockBecomes(e, s) ==
  /\ sock' \in [Ends -> Sockets] /\ sock'[e] = s
  /\ \A d \in Ends : d # e => sock'[d] = sock[d]

LEMMA CallUpdate ==
  ASSUME Types, NEW e \in Ends, NEW c \in Calls, Len(c.buf) < c.cap,
         io' = [io EXCEPT ![e] = c]
  PROVE  CallBecomes(e, c)
BY DEF Types, CallBecomes

LEMMA SockUpdate ==
  ASSUME Types, NEW e \in Ends, NEW s \in Sockets, sock' = [sock EXCEPT ![e] = s]
  PROVE  SockBecomes(e, s)
BY DEF Types, SockBecomes

LEMMA PostFacts ==
  ASSUME NEW s \in [Ends -> Sockets], NEW e \in Ends, NEW seg \in Segments
  PROVE  LET p == Peer(e)
         IN  /\ Post(s, e, seg) \in [Ends -> Sockets]
             /\ Post(s, e, seg)[e] = s[e]
             /\ Post(s, e, seg)[p] =
                  Sock(Append(s[p].wire, seg), s[p].rcv, s[p].fin, s[p].err, s[p].open)
<1> DEFINE p == Peer(e)
           new == Sock(Append(s[p].wire, seg), s[p].rcv, s[p].fin, s[p].err, s[p].open)
           t == [s EXCEPT ![p].wire = Append(s[p].wire, seg)]
<1>1. p \in Ends /\ p # e
  BY PeerFacts
<1>2. Post(s, e, seg) = t
  BY DEF Post
<1> HIDE DEF p
<1>3. /\ s[p].wire \in Seq(Segments) /\ s[p].rcv \in Seq(Bytes) /\ s[p].fin \in BOOLEAN
      /\ s[p].err \in {"none", "reset", "dead"} /\ s[p].open \in BOOLEAN
  BY <1>1 DEF Sockets
<1>4. new \in Sockets
  BY <1>3, AppendProperties, SockType
<1>5. t[p] = new
  BY <1>1 DEF Sockets, Sock
<1>6. t = [s EXCEPT ![p] = new]
  BY <1>1, <1>5
<1>7. t[e] = s[e] /\ t \in [Ends -> Sockets]
  BY <1>1, <1>4, <1>6
<1> QED
  BY <1>2, <1>5, <1>7 DEF p

(***************************************************************************)
(* What each step does to sockets and calls, field by field.               *)
(***************************************************************************)
LEMMA StartGetFacts ==
  ASSUME Types, NEW e \in Ends, StartGet(e)
  PROVE  /\ CallBecomes(e, Call("get", <<>>, io[e].cap, io[e].rest, io[e].part, io[e].res))
         /\ said' = said
<1> DEFINE c == Call("get", <<>>, io[e].cap, io[e].rest, io[e].part, io[e].res)
<1>1. c \in Calls /\ Len(c.buf) < c.cap
  <2>1. <<>> \in Seq(Bytes) /\ Len(<<>>) = 0 /\ 0 < io[e].cap
    BY Fields
  <2>2. c.buf = <<>> /\ c.cap = io[e].cap
    BY DEF Call
  <2> QED
    BY <2>1, <2>2, Fields, CallType
<1>2. io' = [io EXCEPT ![e].call = "get", ![e].buf = <<>>]
  BY DEF StartGet
<1>3. io'[e] = c
  BY <1>2 DEF Types, Calls, Call
<1>4. io' = [io EXCEPT ![e] = c]
  BY <1>2, <1>3 DEF Types
<1> HIDE DEF c
<1>5. CallBecomes(e, c)
  BY <1>1, <1>4, CallUpdate
<1> QED
  BY <1>5 DEF c, StartGet

LEMMA StartPutFacts ==
  ASSUME Types, NEW e \in Ends, NEW line \in Texts, StartPut(e, line)
  PROVE  /\ CallBecomes(e, Call("put", io[e].buf, io[e].cap, line, FALSE, io[e].res))
         /\ said' = [said EXCEPT ![e] = Append(said[e], line)]
         /\ said' \in [Ends -> Seq(Texts)]
<1> DEFINE c == Call("put", io[e].buf, io[e].cap, line, FALSE, io[e].res)
<1>1. c \in Calls /\ Len(c.buf) < c.cap
  <2>1. line \in Seq(Bytes)
    BY TextsAreBytes
  <2>2. c.buf = io[e].buf /\ c.cap = io[e].cap
    BY DEF Call
  <2> QED
    BY <2>1, <2>2, Fields, CallType
<1>2. io' = [io EXCEPT ![e].call = "put", ![e].part = FALSE, ![e].rest = line]
  BY TextsAreBytes DEF StartPut
<1>3. io'[e] = c
  BY ZenonT(60), <1>2 DEF Types, Calls, Call
<1>4. io' = [io EXCEPT ![e] = c]
  BY <1>2, <1>3 DEF Types
<1> HIDE DEF c
<1>5. CallBecomes(e, c)
  BY <1>1, <1>4, CallUpdate
<1>6. said' = [said EXCEPT ![e] = Append(said[e], line)]
  BY DEF StartPut
<1>7. said' \in [Ends -> Seq(Texts)]
  BY <1>6 DEF Types
<1> QED
  BY <1>5, <1>6, <1>7 DEF c

LEMMA GetByteFacts ==
  ASSUME Types, NEW e \in Ends, GetByte(e)
  PROVE  LET buf == Append(io[e].buf, Head(sock[e].rcv))
             whole == Last(buf) = NL
         IN  /\ CallBecomes(e, Call(IF whole THEN "none" ELSE "get", buf,
                                Grown(io[e].cap, Len(buf)), io[e].rest, io[e].part,
                                IF whole THEN Len(buf) ELSE io[e].res))
             /\ SockBecomes(e, Sock(sock[e].wire, Tail(sock[e].rcv), sock[e].fin,
                                sock[e].err, sock[e].open))
             /\ buf \in Seq(Bytes) /\ Len(buf) = Len(io[e].buf) + 1
             /\ Tail(sock[e].rcv) \in Seq(Bytes)
             /\ Types'
<1> DEFINE buf == Append(io[e].buf, Head(sock[e].rcv))
           whole == Last(buf) = NL
           c == Call(IF whole THEN "none" ELSE "get", buf, Grown(io[e].cap, Len(buf)),
                     io[e].rest, io[e].part, IF whole THEN Len(buf) ELSE io[e].res)
           s == Sock(sock[e].wire, Tail(sock[e].rcv), sock[e].fin, sock[e].err, sock[e].open)
<1>1. Head(sock[e].rcv) \in Bytes /\ Tail(sock[e].rcv) \in Seq(Bytes)
  BY Fields, HeadTailProperties DEF GetByte
<1>2. buf \in Seq(Bytes) /\ Len(buf) = Len(io[e].buf) + 1
  BY <1>1, Fields, AppendProperties
<1>3. /\ io' = [io EXCEPT ![e].buf = buf, ![e].cap = Grown(@, Len(buf)),
                          ![e].call = IF whole THEN "none" ELSE "get",
                          ![e].res = IF whole THEN Len(buf) ELSE @]
      /\ sock' = [sock EXCEPT ![e].rcv = Tail(sock[e].rcv)]
      /\ heard' = IF whole THEN [heard EXCEPT ![e] = Append(heard[e], buf)] ELSE heard
  BY DEF GetByte
<1> HIDE DEF buf, whole
<1>4. Grown(io[e].cap, Len(buf)) \in Nat /\ Len(buf) < Grown(io[e].cap, Len(buf))
  BY <1>2, Fields DEF Grown
<1>5. io'[e] = c
  BY ZenonT(60), <1>3 DEF Types, Calls, Call
<1>6. sock'[e] = s
  BY <1>3 DEF Types, Sockets, Sock
<1>7. io' = [io EXCEPT ![e] = c] /\ sock' = [sock EXCEPT ![e] = s]
  BY <1>3, <1>5, <1>6 DEF Types
<1>8. c.buf = buf /\ c.cap = Grown(io[e].cap, Len(buf))
  BY DEF Call
<1>9. c \in Calls
  <2>1. (IF whole THEN Len(buf) ELSE io[e].res) \in Int
    BY <1>2, Fields
  <2>2. (IF whole THEN "none" ELSE "get") \in {"none", "get", "put"}
    OBVIOUS
  <2> QED
    BY <1>2, <1>4, <2>1, <2>2, Fields, CallType
<1>10. s \in Sockets
  BY <1>1, Fields, SockType
<1> HIDE DEF c, s
<1>11. CallBecomes(e, c) /\ SockBecomes(e, s)
  BY <1>4, <1>7, <1>8, <1>9, <1>10, CallUpdate, SockUpdate
<1>12. heard' \in [Ends -> Seq(Seq(Bytes))]
  BY <1>2, <1>3 DEF Types
<1>13. Types'
  BY <1>11, <1>12 DEF Types, GetByte, CallBecomes, SockBecomes
<1> QED
  BY <1>1, <1>2, <1>11, <1>13 DEF c, s, buf, whole

LEMMA GetEndFacts ==
  ASSUME Types, NEW e \in Ends, GetEnd(e)
  PROVE  \E r \in EndResults(e) :
           /\ CallBecomes(e, Call("none", io[e].buf, io[e].cap, io[e].rest, io[e].part, r))
           /\ SockBecomes(e, Sock(sock[e].wire, sock[e].rcv, sock[e].fin,
                IF sock[e].err = "reset" THEN "dead" ELSE sock[e].err, sock[e].open))
           /\ Types'
<1>1. PICK r \in EndResults(e) : io' = [io EXCEPT ![e].call = "none", ![e].res = r]
  BY DEF GetEnd
<1> DEFINE c == Call("none", io[e].buf, io[e].cap, io[e].rest, io[e].part, r)
           err == IF sock[e].err = "reset" THEN "dead" ELSE sock[e].err
           s == Sock(sock[e].wire, sock[e].rcv, sock[e].fin, err, sock[e].open)
<1>2. r \in Int
  BY DEF EndResults
<1>3. c \in Calls /\ c.buf = io[e].buf /\ c.cap = io[e].cap
  <2>1. c.buf = io[e].buf /\ c.cap = io[e].cap
    BY DEF Call
  <2> QED
    BY <1>2, <2>1, Fields, CallType
<1>4. s \in Sockets
  <2>1. err \in {"none", "reset", "dead"}
    BY Fields
  <2> QED
    BY <2>1, Fields, SockType
<1>5. io'[e] = c
  BY <1>1 DEF Types, Calls, Call
<1>6. io' = [io EXCEPT ![e] = c]
  BY <1>1, <1>5 DEF Types
<1>7. sock' = [sock EXCEPT ![e].err = err]
  BY DEF GetEnd
<1>8. sock'[e] = s
  BY <1>7 DEF Types, Sockets, Sock
<1>9. sock' = [sock EXCEPT ![e] = s]
  BY <1>7, <1>8 DEF Types
<1> HIDE DEF c, s
<1>10. CallBecomes(e, c) /\ SockBecomes(e, s)
  BY <1>3, <1>4, <1>6, <1>9, Fields, CallUpdate, SockUpdate
<1>11. Types'
  BY <1>10 DEF Types, GetEnd, CallBecomes, SockBecomes
<1> QED
  BY <1>10, <1>11 DEF c, s

LEMMA PutFailsFacts ==
  ASSUME Types, NEW e \in Ends, PutFails(e)
  PROVE  /\ CallBecomes(e, Call("none", io[e].buf, io[e].cap, io[e].rest, io[e].part, -1))
         /\ SockBecomes(e, Sock(sock[e].wire, sock[e].rcv, sock[e].fin, "dead", sock[e].open))
         /\ Types'
<1> DEFINE c == Call("none", io[e].buf, io[e].cap, io[e].rest, io[e].part, -1)
           s == Sock(sock[e].wire, sock[e].rcv, sock[e].fin, "dead", sock[e].open)
<1>1. c \in Calls /\ c.buf = io[e].buf /\ c.cap = io[e].cap
  <2>1. c.buf = io[e].buf /\ c.cap = io[e].cap
    BY DEF Call
  <2> QED
    BY <2>1, Fields, CallType
<1>2. s \in Sockets
  BY Fields, SockType
<1>3. /\ io' = [io EXCEPT ![e].call = "none", ![e].res = -1]
      /\ sock' = [sock EXCEPT ![e].err = "dead"]
  BY DEF PutFails
<1>4. io'[e] = c
  BY <1>3 DEF Types, Calls, Call
<1>5. sock'[e] = s
  BY <1>3 DEF Types, Sockets, Sock
<1>6. io' = [io EXCEPT ![e] = c] /\ sock' = [sock EXCEPT ![e] = s]
  BY <1>3, <1>4, <1>5 DEF Types
<1> HIDE DEF c, s
<1>7. CallBecomes(e, c) /\ SockBecomes(e, s)
  BY <1>1, <1>2, <1>6, Fields, CallUpdate, SockUpdate
<1>8. Types'
  BY <1>7 DEF Types, PutFails, CallBecomes, SockBecomes
<1> QED
  BY <1>7, <1>8 DEF c, s

\* The part of rest that is sent, and the part that is left.
LEMMA PutSomeFacts ==
  ASSUME Types, NEW e \in Ends, PutSome(e)
  PROVE  \E n \in 1 .. Len(io[e].rest) :
           LET rest == SubSeq(io[e].rest, n + 1, Len(io[e].rest))
               seg  == SubSeq(io[e].rest, 1, n)
               p    == Peer(e)
           IN  /\ CallBecomes(e, Call(IF rest = <<>> THEN "none" ELSE "put", io[e].buf,
                                  io[e].cap, rest, io[e].part \/ rest # <<>>, 1))
               /\ SockBecomes(p, Sock(Append(sock[p].wire, seg), sock[p].rcv,
                                  sock[p].fin, sock[p].err, sock[p].open))
               /\ seg \in Seq(Bytes) /\ Len(seg) = n
               /\ \A k \in 1 .. n : seg[k] = io[e].rest[k]
               /\ rest \in Seq(Bytes) /\ Len(rest) = Len(io[e].rest) - n
               /\ \A k \in 1 .. Len(rest) : rest[k] = io[e].rest[n + k]
               /\ Types'
<1>1. PICK n \in 1 .. Len(io[e].rest) :
        LET rest == SubSeq(io[e].rest, n + 1, Len(io[e].rest))
        IN  /\ sock' = Post(sock, e, SubSeq(io[e].rest, 1, n))
            /\ io' = [io EXCEPT ![e].rest = rest, ![e].part = @ \/ rest # <<>>,
                              ![e].call = IF rest = <<>> THEN "none" ELSE "put",
                              ![e].res = 1]
  BY DEF PutSome
<1> DEFINE rest == SubSeq(io[e].rest, n + 1, Len(io[e].rest))
           seg  == SubSeq(io[e].rest, 1, n)
           part == io[e].part \/ rest # <<>>
           call == IF rest = <<>> THEN "none" ELSE "put"
           p    == Peer(e)
           c    == Call(call, io[e].buf, io[e].cap, rest, part, 1)
           s    == Sock(Append(sock[p].wire, seg), sock[p].rcv, sock[p].fin,
                        sock[p].err, sock[p].open)
<1>2. io[e].rest \in Seq(Bytes) /\ Len(io[e].rest) \in Nat
      /\ \A k \in 1 .. Len(io[e].rest) : io[e].rest[k] \in Bytes
  BY Fields, LenProperties, ElementOfSeq
<1>3. /\ rest \in Seq(Bytes) /\ Len(rest) = Len(io[e].rest) - n
      /\ \A k \in 1 .. Len(rest) : rest[k] = io[e].rest[n + k]
  <2> DEFINE m == n + 1
             l == Len(io[e].rest)
  <2>1. m \in Int /\ l \in Int /\ \A k \in m .. l : io[e].rest[k] \in Bytes
    BY <1>2
  <2>2. /\ SubSeq(io[e].rest, m, l) \in Seq(Bytes)
        /\ Len(SubSeq(io[e].rest, m, l)) = IF m <= l THEN l - m + 1 ELSE 0
        /\ \A k \in 1 .. l - m + 1 : SubSeq(io[e].rest, m, l)[k] = io[e].rest[m + k - 1]
    BY <2>1, SubSeqProperties
  <2> QED
    BY <1>2, <2>2
<1>4. /\ seg \in Seq(Bytes) /\ Len(seg) = n
      /\ \A k \in 1 .. n : seg[k] = io[e].rest[k]
  <2>1. n \in Int /\ \A k \in 1 .. n : io[e].rest[k] \in Bytes
    BY <1>2
  <2>2. /\ SubSeq(io[e].rest, 1, n) \in Seq(Bytes)
        /\ Len(SubSeq(io[e].rest, 1, n)) = IF 1 <= n THEN n - 1 + 1 ELSE 0
        /\ \A k \in 1 .. n - 1 + 1 : SubSeq(io[e].rest, 1, n)[k] = io[e].rest[1 + k - 1]
    BY <2>1, SubSeqProperties
  <2> QED
    BY <1>2, <2>2
<1>5. sock' = Post(sock, e, seg)
  BY <1>1
<1>6. io' = [io EXCEPT ![e].rest = rest, ![e].part = part, ![e].call = call, ![e].res = 1]
  BY <1>1
<1>7. call \in {"none", "get", "put"} /\ part \in BOOLEAN
  BY Fields
<1> HIDE DEF rest, seg, call, part
<1>8. io'[e] = c
  BY ZenonT(60), <1>6 DEF Types, Calls, Call
<1>9. io' = [io EXCEPT ![e] = c]
  BY <1>6, <1>8 DEF Types
<1>10. c \in Calls /\ c.buf = io[e].buf /\ c.cap = io[e].cap
  <2>1. c.buf = io[e].buf /\ c.cap = io[e].cap
    BY DEF Call
  <2> QED
    BY <1>3, <1>7, <2>1, Fields, CallType
<1>11. seg \in Segments /\ sock \in [Ends -> Sockets]
  BY <1>4 DEF Segments, Types
<1>12. /\ sock' \in [Ends -> Sockets] /\ sock'[e] = sock[e] /\ sock'[p] = s
  BY <1>5, <1>11, PostFacts
<1> HIDE DEF c, s, p
<1>13. CallBecomes(e, c)
  BY <1>9, <1>10, Fields, CallUpdate
<1>14. SockBecomes(p, s)
  BY <1>12, PeerFacts DEF SockBecomes, p
<1>15. Types'
  BY <1>13, <1>14 DEF Types, PutSome, CallBecomes, SockBecomes
<1> QED
  BY <1>3, <1>4, <1>13, <1>14, <1>15 DEF c, s, p, rest, seg, call, part
LEMMA LeaveFacts ==
  ASSUME Types, NEW e \in Ends, NEW how \in {"closed", "killed"}, Leave(e, how),
         piped' \subseteq Ends
  PROVE  LET p == Peer(e)
             last == IF sock[e].rcv # <<>> \/ pc[e] = "accept" THEN Rst ELSE Fin
         IN  /\ sock'[e] = Sock(sock[e].wire, <<>>, sock[e].fin, sock[e].err, FALSE)
             /\ sock'[p] = IF sock[e].err # "none" THEN sock[p]
                  ELSE Sock(Append(sock[p].wire, last), sock[p].rcv, sock[p].fin,
                            sock[p].err, sock[p].open)
             /\ CallBecomes(e, Call("none", io[e].buf, io[e].cap, io[e].rest,
                                    io[e].part, io[e].res))
             /\ pc' = [pc EXCEPT ![e] = how]
             /\ Types'
<1> DEFINE p == Peer(e)
           last == IF sock[e].rcv # <<>> \/ pc[e] = "accept" THEN Rst ELSE Fin
           own == Sock(sock[e].wire, <<>>, sock[e].fin, sock[e].err, FALSE)
           s == [sock EXCEPT ![e].open = FALSE, ![e].rcv = <<>>]
           c == Call("none", io[e].buf, io[e].cap, io[e].rest, io[e].part, io[e].res)
<1>1. p \in Ends /\ p # e
  BY PeerFacts
<1>2. own \in Sockets
  <2>1. <<>> \in Seq(Bytes)
    OBVIOUS
  <2> QED
    BY <2>1, Fields, SockType
<1>3. s[e] = own
  BY DEF Types, Sockets, Sock
<1>4. s = [sock EXCEPT ![e] = own]
  BY <1>3 DEF Types
<1>5. s \in [Ends -> Sockets] /\ s[p] = sock[p]
  BY <1>1, <1>2, <1>4 DEF Types
<1>6. last \in Segments
  BY DEF Segments, Ctrl
<1>7. sock' = IF sock[e].err # "none" THEN s ELSE Post(s, e, last)
  BY DEF Leave, Closed
<1>8. io' = [io EXCEPT ![e].call = "none"] /\ pc' = [pc EXCEPT ![e] = how]
  BY DEF Leave
<1>9. io'[e] = c
  BY <1>8 DEF Types, Calls, Call
<1>10. io' = [io EXCEPT ![e] = c]
  BY <1>8, <1>9 DEF Types
<1>11. c \in Calls /\ c.buf = io[e].buf /\ c.cap = io[e].cap
  <2>1. c.buf = io[e].buf /\ c.cap = io[e].cap
    BY DEF Call
  <2> QED
    BY <2>1, Fields, CallType
<1> HIDE DEF c, s, own, last
<1>12. CallBecomes(e, c)
  BY <1>10, <1>11, Fields, CallUpdate
<1>13. /\ Post(s, e, last) \in [Ends -> Sockets] /\ Post(s, e, last)[e] = own
       /\ Post(s, e, last)[p] = Sock(Append(sock[p].wire, last), sock[p].rcv,
                                     sock[p].fin, sock[p].err, sock[p].open)
  BY <1>3, <1>5, <1>6, PostFacts
<1>14. /\ sock' \in [Ends -> Sockets] /\ sock'[e] = own
       /\ sock'[p] = IF sock[e].err # "none" THEN sock[p]
                  ELSE Sock(Append(sock[p].wire, last), sock[p].rcv, sock[p].fin,
                            sock[p].err, sock[p].open)
  BY <1>3, <1>5, <1>7, <1>13
<1>15. pc' \in [Ends -> Places]
  BY <1>8 DEF Types, Places
<1>16. Types'
  BY <1>12, <1>14, <1>15 DEF Types, Leave, CallBecomes
<1> QED
  BY <1>8, <1>12, <1>14, <1>16 DEF c, s, own, last

\* The segment at the head of the wire is taken in one of five ways.
LEMMA DeliverFacts ==
  ASSUME Types, NEW e \in Ends, Deliver(e)
  PROVE  LET p    == Peer(e)
             seg  == Head(sock[e].wire)
             rest == Tail(sock[e].wire)
             up   == sock[e].open /\ sock[e].err = "none"
         IN  /\ sock[e].wire # <<>> /\ Types'
             /\ \/ /\ seg = Fin /\ sock'[p] = sock[p]
                   /\ sock'[e] = Sock(rest, sock[e].rcv, sock[e].fin \/ up, sock[e].err,
                                      sock[e].open)
                \/ /\ seg = Rst /\ up /\ sock'[p] = sock[p]
                   /\ sock'[e] = Sock(rest, sock[e].rcv, sock[e].fin,
                        IF sock[e].fin THEN "dead" ELSE "reset", sock[e].open)
                \/ /\ seg = Rst /\ ~up /\ sock'[p] = sock[p]
                   /\ sock'[e] = Sock(rest, sock[e].rcv, sock[e].fin, sock[e].err, sock[e].open)
                \/ /\ seg \in Seq(Bytes) \ Ctrl /\ up /\ sock'[p] = sock[p]
                   /\ sock'[e] = Sock(rest, sock[e].rcv \o seg, sock[e].fin, sock[e].err,
                                      sock[e].open)
                \/ /\ seg \in Seq(Bytes) \ Ctrl /\ ~up
                   /\ sock'[e] = Sock(rest, sock[e].rcv, sock[e].fin, sock[e].err, sock[e].open)
                   /\ sock'[p] = Sock(Append(sock[p].wire, Rst), sock[p].rcv, sock[p].fin,
                                      sock[p].err, sock[p].open)
<1> DEFINE p    == Peer(e)
           seg  == Head(sock[e].wire)
           rest == Tail(sock[e].wire)
           up   == sock[e].open /\ sock[e].err = "none"
           s    == [sock EXCEPT ![e].wire = rest]
           own(rcv, fin, err) == Sock(rest, rcv, fin, err, sock[e].open)
<1>1. p \in Ends /\ p # e
  BY PeerFacts
<1>2. seg \in Segments /\ rest \in Seq(Segments) /\ sock[e].wire # <<>>
  BY Fields, HeadTailProperties DEF Deliver
<1>3. sock' = CASE seg = Fin -> [s EXCEPT ![e].fin = @ \/ up]
                [] seg = Rst /\ up ->
                     [s EXCEPT ![e].err = IF s[e].fin THEN "dead" ELSE "reset"]
                [] seg = Rst /\ ~up -> s
                [] seg \notin {Fin, Rst} /\ up -> [s EXCEPT ![e].rcv = @ \o seg]
                [] OTHER -> Post(s, e, Rst)
  BY DEF Deliver
<1>4. UNCHANGED <<pc, io, choice, order, said, heard, missed, piped>>
  BY DEF Deliver
<1> HIDE DEF rest, seg
<1>5. s[e] = own(sock[e].rcv, sock[e].fin, sock[e].err)
  BY DEF Types, Sockets, Sock
<1>6. s = [sock EXCEPT ![e] = own(sock[e].rcv, sock[e].fin, sock[e].err)]
  BY <1>5 DEF Types
<1>7. /\ \A rcv \in Seq(Bytes), fin \in BOOLEAN, err \in {"none", "reset", "dead"} :
           own(rcv, fin, err) \in Sockets
  BY <1>2, Fields, SockType
<1>8. s \in [Ends -> Sockets] /\ s[p] = sock[p]
  <2> DEFINE same == own(sock[e].rcv, sock[e].fin, sock[e].err)
  <2>1. same \in Sockets
    BY <1>7, Fields
  <2> HIDE DEF same
  <2>2. [sock EXCEPT ![e] = same] \in [Ends -> Sockets]
    BY <2>1 DEF Types
  <2> QED
    BY <1>1, <1>6, <2>2 DEF same, Types
<1>9. Fin # Rst /\ Rst \in Segments
  BY DEF Fin, Rst, Segments, Ctrl
<1>10. ASSUME sock' \in [Ends -> Sockets]
       PROVE  Types'
  BY <1>4, <1>10 DEF Types
<1>11. CASE seg = Fin
  <2> DEFINE new == own(sock[e].rcv, sock[e].fin \/ up, sock[e].err)
  <2>1. sock' = [s EXCEPT ![e].fin = s[e].fin \/ up]
    BY <1>3, <1>9, <1>11
  <2>2. new \in Sockets
    BY <1>7, Fields
  <2>3. sock'[e] = new
    <3>1. sock'[e] = [s[e] EXCEPT !.fin = s[e].fin \/ up]
      BY <1>8, <2>1
    <3>2. s[e].fin = sock[e].fin
      BY <1>5 DEF Sock
    <3> QED
      BY <1>5, <3>1, <3>2 DEF Sock
  <2>4. sock' = [s EXCEPT ![e] = new]
    BY <1>8, <2>1, <2>3
  <2>5. sock' \in [Ends -> Sockets] /\ sock'[p] = sock[p]
    BY <1>1, <1>8, <2>2, <2>4
  <2> QED
    BY <1>2, <1>10, <1>11, <2>3, <2>5 DEF seg, rest
<1>12. CASE seg = Rst /\ up
  <2> DEFINE new == own(sock[e].rcv, sock[e].fin, IF sock[e].fin THEN "dead" ELSE "reset")
  <2>1. sock' = [s EXCEPT ![e].err = IF s[e].fin THEN "dead" ELSE "reset"]
    BY <1>3, <1>9, <1>12
  <2>2. new \in Sockets
    BY <1>7, Fields
  <2>3. sock'[e] = new
    <3>1. sock'[e] = [s[e] EXCEPT !.err = IF s[e].fin THEN "dead" ELSE "reset"]
      BY <1>8, <2>1
    <3>2. s[e].fin = sock[e].fin
      BY <1>5 DEF Sock
    <3> QED
      BY <1>5, <3>1, <3>2 DEF Sock
  <2>4. sock' = [s EXCEPT ![e] = new]
    BY <1>8, <2>1, <2>3
  <2>5. sock' \in [Ends -> Sockets] /\ sock'[p] = sock[p]
    BY <1>1, <1>8, <2>2, <2>4
  <2> QED
    BY <1>2, <1>10, <1>12, <2>3, <2>5 DEF seg, rest
<1>13. CASE seg = Rst /\ ~up
  <2>1. sock' = s
    BY <1>3, <1>9, <1>13
  <2> QED
    BY <1>2, <1>5, <1>8, <1>10, <1>13, <2>1 DEF seg, rest
<1>14. CASE seg \notin {Fin, Rst} /\ up
  <2> DEFINE new == own(sock[e].rcv \o seg, sock[e].fin, sock[e].err)
  <2>1. sock' = [s EXCEPT ![e].rcv = s[e].rcv \o seg]
    BY <1>3, <1>14
  <2>2. seg \in Seq(Bytes) \ Ctrl
    BY <1>2, <1>14 DEF Segments, Ctrl
  <2>3. sock[e].rcv \o seg \in Seq(Bytes)
    BY <2>2, Fields, ConcatProperties
  <2>4. new \in Sockets
    BY <1>7, <2>3, Fields
  <2>5. sock'[e] = new
    <3> DEFINE rcv == sock[e].rcv \o seg
    <3>1. s[e].rcv = sock[e].rcv
      BY <1>5 DEF Sock
    <3>2. sock' = [s EXCEPT ![e].rcv = rcv]
      BY <2>1, <3>1
    <3> HIDE DEF rcv, s
    <3>3. sock'[e] = [s[e] EXCEPT !.rcv = rcv]
      BY <1>8, <3>2
    <3>4. sock'[e] = own(rcv, sock[e].fin, sock[e].err)
      BY <1>5, <3>3 DEF Sock
    <3> QED
      BY <3>4 DEF rcv
  <2>6. sock' = [s EXCEPT ![e] = new]
    BY <1>8, <2>1, <2>5
  <2>7. sock' \in [Ends -> Sockets] /\ sock'[p] = sock[p]
    BY <1>1, <1>8, <2>4, <2>6
  <2> QED
    BY <1>2, <1>10, <1>14, <2>2, <2>5, <2>7 DEF seg, rest
<1>15. CASE seg \notin {Fin, Rst} /\ ~up
  <2>1. sock' = Post(s, e, Rst)
    BY <1>3, <1>15
  <2>2. seg \in Seq(Bytes) \ Ctrl
    BY <1>2, <1>15 DEF Segments, Ctrl
  <2>3. /\ sock' \in [Ends -> Sockets] /\ sock'[e] = s[e]
        /\ sock'[p] = Sock(Append(sock[p].wire, Rst), sock[p].rcv, sock[p].fin,
                           sock[p].err, sock[p].open)
    <3> HIDE DEF s
    <3> QED
      BY <1>8, <1>9, <2>1, PostFacts
  <2> QED
    BY <1>2, <1>5, <1>10, <1>15, <2>2, <2>3 DEF seg, rest
<1> QED
  BY <1>11, <1>12, <1>13, <1>14, <1>15
(***************************************************************************)
(* Slices of a text.                                                       *)
(***************************************************************************)
LEMMA CtrlIsNotData == Ctrl \cap Seq(Bytes) = {}
<1>1. "FIN" \notin Bytes /\ "RST" \notin Bytes
  BY BurgersAssumption DEF Bytes, NL
<1>2. ASSUME NEW seg \in Seq(Bytes), Len(seg) = 1 PROVE seg[1] \in Bytes
  BY <1>2
<1>3. /\ Len(Fin) = 1 /\ Fin[1] = "FIN" /\ Len(Rst) = 1 /\ Rst[1] = "RST"
  BY DEF Fin, Rst
<1> QED
  BY <1>1, <1>2, <1>3 DEF Ctrl

LEMMA SlicingOrder ==
  ASSUME NEW wire \in Seq(Segments), NEW first, NEW last, NEW text, NEW n, NEW alive,
         Slicing(wire, first, last, text, n, alive)
  PROVE  first \in Nat /\ last \in Nat /\ first <= last
<1>1. PICK pos \in [1 .. Len(wire) + 1 -> Nat] :
        /\ Sliced(wire, pos, text, n, alive)
        /\ pos[1] = first /\ pos[Len(wire) + 1] = last
  BY DEF Slicing
<1>2. 1 \in 1 .. Len(wire) + 1 /\ Len(wire) + 1 \in 1 .. Len(wire) + 1 /\ 1 <= Len(wire) + 1
  BY LenProperties
<1>3. \A j, k \in 1 .. Len(wire) + 1 : j <= k => pos[j] <= pos[k]
  BY <1>1 DEF Sliced
<1> QED
  BY <1>1, <1>2, <1>3

LEMMA SlicingData ==
  ASSUME NEW wire \in Seq(Segments), NEW first, NEW last, NEW text, NEW n \in Nat, NEW alive,
         Slicing(wire, first, last, text, n, alive), Plain(wire),
         NEW seg \in Seq(Bytes), Len(seg) > 0, Fits(text, n, last, seg)
  PROVE  Slicing(Append(wire, seg), first, last + Len(seg), text, n, alive)
<1> DEFINE w == Append(wire, seg)
           l == Len(wire)
<1>1. PICK pos \in [1 .. l + 1 -> Nat] :
        /\ Sliced(wire, pos, text, n, alive)
        /\ pos[1] = first /\ pos[l + 1] = last
  BY DEF Slicing
<1> DEFINE q == [k \in 1 .. l + 2 |-> IF k <= l + 1 THEN pos[k] ELSE last + Len(seg)]
<1>2. /\ l \in Nat /\ Len(w) = l + 1 /\ w[l + 1] = seg
      /\ \A k \in 1 .. l : w[k] = wire[k]
  BY AppendProperties, LenProperties DEF Segments
<1>3. last \in Nat /\ Len(seg) \in Nat /\ seg \notin Ctrl
  BY <1>1, <1>2, LenProperties, CtrlIsNotData
<1>4. q \in [1 .. Len(w) + 1 -> Nat]
  BY <1>2, <1>3
<1>5. (\A k \in 1 .. l + 1 : q[k] = pos[k]) /\ q[l + 2] = last + Len(seg)
  BY <1>2
<1> HIDE DEF q, w
<1>6. ASSUME NEW k \in 1 .. Len(w)
      PROVE  IF w[k] \in Ctrl
               THEN q[k + 1] = q[k] /\ (alive => q[k] = q[Len(w) + 1])
               ELSE /\ Len(w[k]) > 0 /\ q[k + 1] = q[k] + Len(w[k])
                    /\ Fits(text, n, q[k], w[k])
  <2>1. CASE k \in 1 .. l
    <3>1. q[k] = pos[k] /\ q[k + 1] = pos[k + 1] /\ w[k] = wire[k] /\ w[k] \notin Ctrl
      BY <1>2, <1>5, <2>1 DEF Plain
    <3> QED
      BY <1>1, <2>1, <3>1 DEF Sliced
  <2>2. CASE k = l + 1
    <3>1. q[k] = last /\ q[k + 1] = last + Len(seg) /\ w[k] = seg
      BY <1>1, <1>2, <1>5, <2>2
    <3> QED
      BY <1>3, <3>1
  <2> QED
    BY <1>2, <2>1, <2>2
<1>7. \A j, k \in 1 .. Len(w) + 1 : j <= k => q[j] <= q[k]
  <2> SUFFICES ASSUME NEW j \in 1 .. l + 2, NEW k \in 1 .. l + 2, j <= k
               PROVE  q[j] <= q[k]
    BY <1>2
  <2>1. \A i, m \in 1 .. l + 1 : i <= m => pos[i] <= pos[m]
    BY <1>1 DEF Sliced
  <2>2. \A i \in 1 .. l + 1 : pos[i] \in Nat /\ pos[i] <= last
    <3>1. l + 1 \in 1 .. l + 1 /\ \A i \in 1 .. l + 1 : i <= l + 1
      BY <1>2
    <3>2. \A i \in 1 .. l + 1 : pos[i] \in Nat
      OBVIOUS
    <3> QED
      BY <1>1, <2>1, <3>1, <3>2
  <2>3. CASE k <= l + 1
    BY <1>2, <1>5, <2>1, <2>3
  <2>4. CASE k = l + 2
    BY <1>2, <1>3, <1>5, <2>2, <2>4
  <2> QED
    BY <1>2, <2>3, <2>4
<1>8. Sliced(w, q, text, n, alive)
  BY <1>6, <1>7 DEF Sliced
<1>9. q[1] = first /\ q[Len(w) + 1] = last + Len(seg)
  BY <1>1, <1>2, <1>5
<1> QED
  BY <1>4, <1>8, <1>9 DEF w, Slicing

LEMMA SlicingCtrl ==
  ASSUME NEW wire \in Seq(Segments), NEW first, NEW last, NEW text, NEW n \in Nat, NEW alive,
         Slicing(wire, first, last, text, n, alive), NEW seg \in Ctrl
  PROVE  Slicing(Append(wire, seg), first, last, text, n, alive)
<1> DEFINE w == Append(wire, seg)
           l == Len(wire)
<1>1. PICK pos \in [1 .. l + 1 -> Nat] :
        /\ Sliced(wire, pos, text, n, alive)
        /\ pos[1] = first /\ pos[l + 1] = last
  BY DEF Slicing
<1> DEFINE q == [k \in 1 .. l + 2 |-> IF k <= l + 1 THEN pos[k] ELSE last]
<1>2. /\ l \in Nat /\ Len(w) = l + 1 /\ w[l + 1] = seg
      /\ \A k \in 1 .. l : w[k] = wire[k]
  BY AppendProperties, LenProperties DEF Segments
<1>3. last \in Nat
  BY <1>1, <1>2
<1>4. q \in [1 .. Len(w) + 1 -> Nat]
  BY <1>2, <1>3
<1>5. (\A k \in 1 .. l + 1 : q[k] = pos[k]) /\ q[l + 2] = last
  BY <1>2
<1> HIDE DEF q, w
<1>6. ASSUME NEW k \in 1 .. Len(w)
      PROVE  IF w[k] \in Ctrl
               THEN q[k + 1] = q[k] /\ (alive => q[k] = q[Len(w) + 1])
               ELSE /\ Len(w[k]) > 0 /\ q[k + 1] = q[k] + Len(w[k])
                    /\ Fits(text, n, q[k], w[k])
  <2>1. CASE k \in 1 .. l
    <3>1. /\ q[k] = pos[k] /\ q[k + 1] = pos[k + 1] /\ w[k] = wire[k]
          /\ q[Len(w) + 1] = pos[l + 1]
      BY <1>1, <1>2, <1>5, <2>1
    <3> QED
      BY <1>1, <2>1, <3>1 DEF Sliced
  <2>2. CASE k = l + 1
    <3>1. q[k] = last /\ q[k + 1] = last /\ w[k] = seg /\ q[Len(w) + 1] = last
      BY <1>1, <1>2, <1>5, <2>2
    <3> QED
      BY <3>1
  <2> QED
    BY <1>2, <2>1, <2>2
<1>7. \A j, k \in 1 .. Len(w) + 1 : j <= k => q[j] <= q[k]
  <2> SUFFICES ASSUME NEW j \in 1 .. l + 2, NEW k \in 1 .. l + 2, j <= k
               PROVE  q[j] <= q[k]
    BY <1>2
  <2>1. \A i, m \in 1 .. l + 1 : i <= m => pos[i] <= pos[m]
    BY <1>1 DEF Sliced
  <2>2. \A i \in 1 .. l + 1 : pos[i] \in Nat /\ pos[i] <= last
    <3>1. l + 1 \in 1 .. l + 1 /\ \A i \in 1 .. l + 1 : i <= l + 1
      BY <1>2
    <3>2. \A i \in 1 .. l + 1 : pos[i] \in Nat
      OBVIOUS
    <3> QED
      BY <1>1, <2>1, <3>1, <3>2
  <2>3. CASE k <= l + 1
    BY <1>2, <1>5, <2>1, <2>3
  <2>4. CASE k = l + 2
    BY <1>2, <1>3, <1>5, <2>2, <2>4
  <2> QED
    BY <1>2, <2>3, <2>4
<1>8. Sliced(w, q, text, n, alive)
  BY <1>6, <1>7 DEF Sliced
<1>9. q[1] = first /\ q[Len(w) + 1] = last
  BY <1>1, <1>2, <1>5
<1> QED
  BY <1>4, <1>8, <1>9 DEF w, Slicing

LEMMA SlicingTail ==
  ASSUME NEW wire \in Seq(Segments), wire # <<>>, NEW first, NEW last, NEW text,
         NEW n \in Nat, NEW alive, Slicing(wire, first, last, text, n, alive)
  PROVE  LET seg == Head(wire)
         IN  IF seg \in Ctrl
               THEN /\ alive => first = last
                    /\ Slicing(Tail(wire), first, last, text, n, alive)
               ELSE /\ Len(seg) > 0 /\ Fits(text, n, first, seg)
                    /\ Slicing(Tail(wire), first + Len(seg), last, text, n, alive)
<1> DEFINE w == Tail(wire)
           l == Len(wire)
           seg == Head(wire)
<1>1. PICK pos \in [1 .. l + 1 -> Nat] :
        /\ Sliced(wire, pos, text, n, alive)
        /\ pos[1] = first /\ pos[l + 1] = last
  BY DEF Slicing
<1> DEFINE q == [k \in 1 .. l |-> pos[k + 1]]
<1>2. /\ l \in Nat \ {0} /\ Len(w) = l - 1 /\ seg = wire[1]
      /\ \A k \in 1 .. l - 1 : w[k] = wire[k + 1]
  BY HeadTailProperties, LenProperties, EmptySeq
<1>3. q \in [1 .. Len(w) + 1 -> Nat]
  BY <1>2
<1>4. \A k \in 1 .. l : q[k] = pos[k + 1]
  BY <1>2
<1> HIDE DEF q, w
<1>5. ASSUME NEW k \in 1 .. Len(w)
      PROVE  IF w[k] \in Ctrl
               THEN q[k + 1] = q[k] /\ (alive => q[k] = q[Len(w) + 1])
               ELSE /\ Len(w[k]) > 0 /\ q[k + 1] = q[k] + Len(w[k])
                    /\ Fits(text, n, q[k], w[k])
  <2> DEFINE i == k + 1
  <2>1. i \in 1 .. l /\ q[k] = pos[i] /\ q[k + 1] = pos[i + 1] /\ w[k] = wire[i]
    BY <1>2, <1>4
  <2>2. q[Len(w) + 1] = pos[l + 1]
    <3>1. l \in 1 .. l /\ Len(w) + 1 = l
      BY <1>2
    <3> QED
      BY <1>4, <3>1
  <2>3. i \in 1 .. l
    BY <2>1
  <2> HIDE DEF i
  <2>4. IF wire[i] \in Ctrl
          THEN pos[i + 1] = pos[i] /\ (alive => pos[i] = pos[l + 1])
          ELSE /\ Len(wire[i]) > 0 /\ pos[i + 1] = pos[i] + Len(wire[i])
               /\ Fits(text, n, pos[i], wire[i])
    BY <1>1, <2>3 DEF Sliced
  <2> QED
    BY <2>1, <2>2, <2>4
<1>6. ASSUME NEW j \in 1 .. Len(w) + 1, NEW k \in 1 .. Len(w) + 1, j <= k
      PROVE  q[j] <= q[k]
  <2> DEFINE a == j + 1
             b == k + 1
  <2>1. j \in 1 .. l /\ k \in 1 .. l
    BY <1>2
  <2>2. a \in 1 .. l + 1 /\ b \in 1 .. l + 1 /\ a <= b
    BY <1>2, <1>6, <2>1
  <2>3. q[j] = pos[a] /\ q[k] = pos[b]
    BY <1>4, <2>1
  <2> HIDE DEF a, b
  <2> QED
    BY <1>1, <2>2, <2>3 DEF Sliced
<1>7. Sliced(w, q, text, n, alive)
  BY <1>5, <1>6 DEF Sliced
<1>8. q[1] = pos[2] /\ q[Len(w) + 1] = last
  BY <1>1, <1>2, <1>4
<1>9. Slicing(w, pos[2], last, text, n, alive)
  BY <1>3, <1>7, <1>8 DEF Slicing
<1>10. 1 \in 1 .. l /\ 1 + 1 = 2
  BY <1>2
<1>11. IF wire[1] \in Ctrl
         THEN pos[1 + 1] = pos[1] /\ (alive => pos[1] = pos[l + 1])
         ELSE /\ Len(wire[1]) > 0 /\ pos[1 + 1] = pos[1] + Len(wire[1])
              /\ Fits(text, n, pos[1], wire[1])
  BY <1>1, <1>10 DEF Sliced
<1> QED
  BY <1>1, <1>2, <1>9, <1>10, <1>11 DEF w

(***************************************************************************)
(* Every step keeps the types.                                             *)
(***************************************************************************)
LEMMA SockIs ==
  ASSUME NEW wire, NEW rcv, NEW fin, NEW err, NEW open
  PROVE  LET s == Sock(wire, rcv, fin, err, open)
         IN  /\ s.wire = wire /\ s.rcv = rcv /\ s.fin = fin /\ s.err = err
             /\ s.open = open
BY DEF Sock

LEMMA ConnectFacts ==
  ASSUME Types, Connect
  PROVE  /\ Types'
         /\ pc[Client] = "connect" /\ said' = said
         /\ UNCHANGED <<choice, order, heard, missed, piped>>
         /\ \/ /\ \A e \in Ends : sock'[e] = Sock(sock[e].wire, sock[e].rcv, sock[e].fin,
                                                  sock[e].err, TRUE)
               /\ pc' = [pc EXCEPT ![Client] = "welcome"]
               /\ CallBecomes(Client, Call("get", <<>>, io[Client].cap, io[Client].rest,
                                           io[Client].part, io[Client].res))
            \/ /\ pc' = [e \in Ends |-> "closed"]
               /\ UNCHANGED <<sock, io>>
<1>1. Client \in Ends
  BY DEF Ends
<1>2. CASE /\ sock' = [e \in Ends |-> [sock[e] EXCEPT !.open = TRUE]]
           /\ pc' = [pc EXCEPT ![Client] = "welcome"]
           /\ StartGet(Client)
  <2>1. ASSUME NEW e \in Ends
        PROVE  /\ sock'[e] = Sock(sock[e].wire, sock[e].rcv, sock[e].fin, sock[e].err, TRUE)
               /\ sock'[e] \in Sockets
    <3>1. sock'[e] = Sock(sock[e].wire, sock[e].rcv, sock[e].fin, sock[e].err, TRUE)
      BY <1>2 DEF Types, Sockets, Sock
    <3>2. Sock(sock[e].wire, sock[e].rcv, sock[e].fin, sock[e].err, TRUE) \in Sockets
      BY Fields, SockType
    <3> QED
      BY <3>1, <3>2
  <2>2. sock' \in [Ends -> Sockets]
    <3> DEFINE opened(e) == [sock[e] EXCEPT !.open = TRUE]
    <3>1. sock' = [e \in Ends |-> opened(e)]
      BY <1>2
    <3> HIDE DEF opened
    <3> QED
      BY <2>1, <3>1
  <2>3. pc' \in [Ends -> Places]
    BY <1>2 DEF Types, Places
  <2>4. /\ CallBecomes(Client, Call("get", <<>>, io[Client].cap, io[Client].rest,
                                    io[Client].part, io[Client].res))
        /\ said' = said
    BY <1>1, <1>2, StartGetFacts
  <2>5. Types'
    BY <2>2, <2>3, <2>4 DEF Types, CallBecomes, Connect
  <2> QED
    BY <1>2, <2>1, <2>4, <2>5 DEF Connect
<1>3. CASE pc' = [e \in Ends |-> "closed"] /\ UNCHANGED <<sock, io, said>>
  <2>1. pc' \in [Ends -> Places]
    BY <1>3 DEF Places
  <2> QED
    BY <1>3, <2>1 DEF Types, Connect
<1> QED
  BY <1>2, <1>3 DEF Connect

LEMMA ChooseFacts ==
  ASSUME Types, Choose
  PROVE  /\ Types'
         /\ pc[Client] = "welcome" /\ io[Client].call = "none" /\ io[Client].res # 0
         /\ pc' = [pc EXCEPT ![Client] = "order"]
         /\ missed' = (missed \/ io[Client].res < 0)
         /\ UNCHANGED <<sock, order, heard, piped>>
         /\ choice' \in Burgers
         /\ CallBecomes(Client, Call("put", io[Client].buf, io[Client].cap, OrderLine(choice'),
                                     FALSE, io[Client].res))
         /\ said' = [said EXCEPT ![Client] = Append(said[Client], OrderLine(choice'))]
<1>1. Client \in Ends
  BY DEF Ends
<1>2. choice' \in Burgers /\ StartPut(Client, OrderLine(choice'))
  BY DEF Choose
<1>3. OrderLine(choice') \in Texts
  BY <1>2 DEF Texts
<1>4. /\ CallBecomes(Client, Call("put", io[Client].buf, io[Client].cap, OrderLine(choice'),
                                  FALSE, io[Client].res))
      /\ said' = [said EXCEPT ![Client] = Append(said[Client], OrderLine(choice'))]
      /\ said' \in [Ends -> Seq(Texts)]
  BY <1>1, <1>2, <1>3, StartPutFacts
<1>5. pc' \in [Ends -> Places] /\ missed' \in BOOLEAN
  BY DEF Choose, Types, Places
<1>6. Types'
  BY <1>2, <1>4, <1>5 DEF Types, Choose, CallBecomes
<1> QED
  BY <1>2, <1>4, <1>6 DEF Choose, Returned

LEMMA AwaitReplyFacts ==
  ASSUME Types, AwaitReply
  PROVE  /\ Types'
         /\ pc[Client] = "order" /\ io[Client].call = "none"
         /\ pc' = [pc EXCEPT ![Client] = "reply"]
         /\ missed' = (missed \/ io[Client].res < 0)
         /\ UNCHANGED <<sock, choice, order, said, heard, piped>>
         /\ CallBecomes(Client, Call("get", <<>>, io[Client].cap, io[Client].rest,
                                     io[Client].part, io[Client].res))
<1>1. Client \in Ends /\ StartGet(Client)
  BY DEF Ends, AwaitReply
<1>2. /\ CallBecomes(Client, Call("get", <<>>, io[Client].cap, io[Client].rest,
                                  io[Client].part, io[Client].res))
      /\ said' = said
  BY <1>1, StartGetFacts
<1>3. pc' \in [Ends -> Places] /\ missed' \in BOOLEAN
  BY DEF AwaitReply, Types, Places
<1>4. Types'
  BY <1>2, <1>3 DEF Types, AwaitReply, CallBecomes
<1> QED
  BY <1>2, <1>4 DEF AwaitReply, Returned

LEMMA ServeFacts ==
  ASSUME Types, Serve
  PROVE  /\ Types'
         /\ pc[Server] = "accept" /\ sock[Server].open
         /\ UNCHANGED <<sock, choice, order, heard, missed, piped>>
         /\ \/ /\ pc' = [pc EXCEPT ![Server] = "welcome"]
               /\ CallBecomes(Server, Call("put", io[Server].buf, io[Server].cap, Welcome,
                                           FALSE, io[Server].res))
               /\ said' = [said EXCEPT ![Server] = Append(said[Server], Welcome)]
            \/ pc' = [pc EXCEPT ![Server] = "abandoned"] /\ UNCHANGED <<io, said>>
<1>1. Server \in Ends /\ Welcome \in Texts
  BY DEF Ends, Texts
<1>2. CASE StartPut(Server, Welcome) /\ pc' = [pc EXCEPT ![Server] = "welcome"]
  <2>1. /\ CallBecomes(Server, Call("put", io[Server].buf, io[Server].cap, Welcome,
                                    FALSE, io[Server].res))
        /\ said' = [said EXCEPT ![Server] = Append(said[Server], Welcome)]
        /\ said' \in [Ends -> Seq(Texts)]
    BY <1>1, <1>2, StartPutFacts
  <2>2. pc' \in [Ends -> Places]
    BY <1>2 DEF Types, Places
  <2>3. Types'
    BY <2>1, <2>2 DEF Types, Serve, CallBecomes
  <2> QED
    BY <1>2, <2>1, <2>3 DEF Serve
<1>3. CASE pc' = [pc EXCEPT ![Server] = "abandoned"] /\ UNCHANGED <<io, said>>
  <2>1. pc' \in [Ends -> Places]
    BY <1>3 DEF Types, Places
  <2> QED
    BY <1>3, <2>1 DEF Types, Serve
<1> QED
  BY <1>2, <1>3 DEF Serve

LEMMA AwaitOrderFacts ==
  ASSUME Types, AwaitOrder
  PROVE  /\ Types'
         /\ pc[Server] = "welcome" /\ io[Server].call = "none" /\ io[Server].res >= 0
         /\ pc' = [pc EXCEPT ![Server] = "order"]
         /\ UNCHANGED <<sock, choice, order, said, heard, missed, piped>>
         /\ CallBecomes(Server, Call("get", <<>>, io[Server].cap, io[Server].rest,
                                     io[Server].part, io[Server].res))
<1>1. Server \in Ends /\ StartGet(Server)
  BY DEF Ends, AwaitOrder
<1>2. /\ CallBecomes(Server, Call("get", <<>>, io[Server].cap, io[Server].rest,
                                  io[Server].part, io[Server].res))
      /\ said' = said
  BY <1>1, StartGetFacts
<1>3. pc' \in [Ends -> Places]
  BY DEF AwaitOrder, Types, Places
<1>4. Types'
  BY <1>2, <1>3 DEF Types, AwaitOrder, CallBecomes
<1> QED
  BY <1>2, <1>4 DEF AwaitOrder, Returned

LEMMA TakeOrderFacts ==
  ASSUME Types, TakeOrder
  PROVE  /\ Types'
         /\ pc[Server] = "order" /\ io[Server].call = "none"
         /\ order' = Parse(io[Server].buf) /\ order' \in Burgers
         /\ \E b \in Burgers : order' = b /\ io[Server].buf \in {Name(b), OrderLine(b)}
         /\ pc' = [pc EXCEPT ![Server] = "kitchen"]
         /\ UNCHANGED <<sock, io, choice, said, heard, missed, piped>>
<1>1. order' = Parse(io[Server].buf) /\ order' # NoBurger
  BY DEF TakeOrder
<1>2. \E b \in Burgers : order' = b /\ io[Server].buf \in {Name(b), OrderLine(b)}
  BY <1>1 DEF Parse
<1>3. pc' \in [Ends -> Places]
  BY DEF TakeOrder, Types, Places
<1>4. Types'
  BY <1>2, <1>3 DEF Types, TakeOrder
<1> QED
  BY <1>1, <1>2, <1>4 DEF TakeOrder, Returned

LEMMA HandOverFacts ==
  ASSUME Types, HandOver, order \in Burgers
  PROVE  /\ Types'
         /\ pc[Server] = "kitchen"
         /\ pc' = [pc EXCEPT ![Server] = "goodbye"]
         /\ UNCHANGED <<sock, choice, order, heard, missed, piped>>
         /\ CallBecomes(Server, Call("put", io[Server].buf, io[Server].cap, Goodbye(order),
                                     FALSE, io[Server].res))
         /\ said' = [said EXCEPT ![Server] = Append(said[Server], Goodbye(order))]
<1>1. Server \in Ends /\ Goodbye(order) \in Texts /\ StartPut(Server, Goodbye(order))
  BY DEF Ends, Texts, HandOver
<1>2. /\ CallBecomes(Server, Call("put", io[Server].buf, io[Server].cap, Goodbye(order),
                                  FALSE, io[Server].res))
      /\ said' = [said EXCEPT ![Server] = Append(said[Server], Goodbye(order))]
      /\ said' \in [Ends -> Seq(Texts)]
  BY <1>1, StartPutFacts
<1>3. pc' \in [Ends -> Places]
  BY DEF HandOver, Types, Places
<1>4. Types'
  BY <1>2, <1>3 DEF Types, HandOver, CallBecomes
<1> QED
  BY <1>2, <1>4 DEF HandOver

(***************************************************************************)
(* The numbers and texts of the invariant.                                 *)
(***************************************************************************)
LEMMA TheEnds ==
  /\ Client \in Ends /\ Server \in Ends /\ Client # Server
  /\ Peer(Client) = Server /\ Peer(Server) = Client
  /\ \A e \in Ends : e = Client \/ e = Server
BY EndsAssumption DEF Ends, Peer

LEMMA Numbers ==
  ASSUME Types, NEW e \in Ends
  PROVE  /\ Spoken(e) \in 0 .. 7 /\ Heard(e) \in 0 .. 7 /\ Sent(e) \in Int
         /\ Pending(e) \in Nat /\ Len(sock[e].rcv) \in Nat
         /\ Left(e) \in Nat /\ Filled(e) \in Nat
         /\ Lines(e) \in Nat /\ Got(e) \in Nat
<1>1. /\ sock[e].rcv \in Seq(Bytes) /\ io[e].rest \in Seq(Bytes) /\ io[e].buf \in Seq(Bytes)
  BY Fields
<1>2. /\ Len(sock[e].rcv) \in Nat /\ Left(e) \in Nat /\ Filled(e) \in Nat
  BY <1>1, LenProperties DEF Left, Filled
<1>3. Spoken(e) \in 0 .. 7 /\ Heard(e) \in 0 .. 7
  BY DEF Spoken, Heard, LineEnd
<1>4. said[e] \in Seq(Texts) /\ heard[e] \in Seq(Seq(Bytes))
  BY DEF Types
<1> QED
  BY <1>2, <1>3, <1>4, LenProperties DEF Sent, Pending, Lines, Got

\* The numbers of the text to end e.
LEMMA StreamNumbers ==
  ASSUME Types, NEW e \in Ends
  PROVE  LET p == Peer(e)
         IN  /\ p \in Ends /\ Left(p) \in Nat /\ Spoken(p) \in Nat /\ Sent(p) \in Int
             /\ sock[e].wire \in Seq(Segments) /\ sock[e].rcv \in Seq(Bytes)
             /\ Len(sock[e].rcv) \in Nat /\ Heard(e) \in 0 .. 7 /\ (~Gone(e)) \in BOOLEAN
<1> DEFINE p == Peer(e)
<1>1. p \in Ends
  BY PeerFacts
<1> HIDE DEF p
<1>2. Left(p) \in Nat /\ Spoken(p) \in 0 .. 7 /\ Sent(p) \in Int
  BY <1>1, Numbers
<1>3. sock[e].wire \in Seq(Segments) /\ sock[e].rcv \in Seq(Bytes)
  BY Fields
<1>4. Len(sock[e].rcv) \in Nat /\ Heard(e) \in 0 .. 7
  BY Numbers
<1> QED
  BY <1>1, <1>2, <1>3, <1>4 DEF p

\* The bytes of the scripts.
LEMMA ScriptIs ==
  /\ Script(Client)[1] = "n" /\ Script(Client)[2] = choice /\ Script(Client)[3] = NL
  /\ Script(Server)[1] = "w" /\ Script(Server)[2] = "e" /\ Script(Server)[3] = "l"
  /\ Script(Server)[4] = NL /\ Script(Server)[5] = "y" /\ Script(Server)[6] = order
  /\ Script(Server)[7] = NL
BY EndsAssumption DEF Script

LEMMA FitsMore ==
  ASSUME NEW text, NEW text2, NEW n \in Nat, NEW m \in Nat, n <= m,
         \A k \in 1 .. n : text2[k] = text[k],
         NEW i \in Nat, NEW seg, Len(seg) \in Nat, Fits(text, n, i, seg)
  PROVE  Fits(text2, m, i, seg)
BY DEF Fits

LEMMA SlicingMore ==
  ASSUME NEW wire \in Seq(Segments), NEW first, NEW last, NEW text, NEW n \in Nat, NEW alive,
         Slicing(wire, first, last, text, n, alive),
         NEW text2, NEW m \in Nat, n <= m, \A k \in 1 .. n : text2[k] = text[k],
         NEW alive2, alive2 => alive
  PROVE  Slicing(wire, first, last, text2, m, alive2)
<1>1. PICK pos \in [1 .. Len(wire) + 1 -> Nat] :
        /\ Sliced(wire, pos, text, n, alive)
        /\ pos[1] = first /\ pos[Len(wire) + 1] = last
  BY DEF Slicing
<1>2. ASSUME NEW k \in 1 .. Len(wire), wire[k] \notin Ctrl
      PROVE  Fits(text2, m, pos[k], wire[k])
  <2>1. pos[k] \in Nat /\ wire[k] \in Segments
    BY LenProperties, ElementOfSeq
  <2>2. Len(wire[k]) \in Nat
    BY <1>2, <2>1, LenProperties DEF Segments
  <2>3. Fits(text, n, pos[k], wire[k])
    BY <1>1, <1>2 DEF Sliced
  <2> QED
    BY <2>1, <2>2, <2>3, FitsMore
<1>3. Sliced(wire, pos, text2, m, alive2)
  BY <1>1, <1>2 DEF Sliced
<1> QED
  BY <1>1, <1>3 DEF Slicing

\* What the text to end e has lost and gained in a step in which nothing is
\* sent to e or read by it.
Kept(e) ==
  LET p == Peer(e)
  IN  /\ Spoken(p) <= Spoken(p)'
      /\ \A k \in 1 .. Spoken(p) : (Script(p)')[k] = Script(p)[k]
      /\ Sent(p)' = Sent(p) /\ Heard(e)' = Heard(e)
      /\ Follows(e)' => Follows(e) /\ Pending(e)' = Pending(e)
      /\ Gone(e) => Gone(e)'

LEMMA FitsTail ==
  ASSUME NEW text, NEW n \in Nat, NEW i \in Nat, NEW seg \in Seq(Bytes), seg # <<>>,
         Fits(text, n, i, seg)
  PROVE  Fits(text, n, i + 1, Tail(seg)) /\ Head(seg) = text[i + 1] /\ i < n
<1>1. /\ Len(seg) \in Nat \ {0} /\ Len(Tail(seg)) = Len(seg) - 1 /\ Head(seg) = seg[1]
      /\ \A k \in 1 .. Len(seg) - 1 : Tail(seg)[k] = seg[k + 1]
  BY HeadTailProperties, LenProperties, EmptySeq
<1>2. i + Len(seg) <= n /\ \A k \in 1 .. Len(seg) : seg[k] = text[i + k]
  BY DEF Fits
<1>3. \A k \in 1 .. Len(seg) - 1 : Tail(seg)[k] = text[(i + 1) + k]
  <2> TAKE k \in 1 .. Len(seg) - 1
  <2> DEFINE m == k + 1
  <2>1. m \in 1 .. Len(seg) /\ Tail(seg)[k] = seg[m] /\ (i + 1) + k = i + m
    BY <1>1
  <2> QED
    BY <1>2, <2>1
<1>4. i + 1 + Len(Tail(seg)) <= n
  BY <1>1, <1>2
<1>5. Head(seg) = text[i + 1] /\ i < n
  <2>1. 1 \in 1 .. Len(seg)
    BY <1>1
  <2> QED
    BY <1>1, <1>2, <2>1
<1> QED
  BY <1>1, <1>3, <1>4, <1>5 DEF Fits

LEMMA FitsConcat ==
  ASSUME NEW text, NEW n \in Nat, NEW i \in Nat, NEW a \in Seq(Bytes), NEW b \in Seq(Bytes),
         Fits(text, n, i, a), Fits(text, n, i + Len(a), b)
  PROVE  Fits(text, n, i, a \o b)
<1>1. /\ Len(a) \in Nat /\ Len(b) \in Nat /\ Len(a \o b) = Len(a) + Len(b)
      /\ \A k \in 1 .. Len(a) + Len(b) :
           (a \o b)[k] = IF k <= Len(a) THEN a[k] ELSE b[k - Len(a)]
  BY ConcatProperties, LenProperties
<1>2. ASSUME NEW k \in 1 .. Len(a) + Len(b)
      PROVE  (a \o b)[k] = text[i + k]
  <2>1. CASE k <= Len(a)
    BY <1>1, <2>1 DEF Fits
  <2>2. CASE k > Len(a)
    <3> DEFINE m == k - Len(a)
    <3>1. m \in 1 .. Len(b) /\ (a \o b)[k] = b[m] /\ i + k = (i + Len(a)) + m
      BY <1>1, <2>2
    <3> HIDE DEF m
    <3> QED
      BY <3>1 DEF Fits
  <2> QED
    BY <1>1, <2>1, <2>2
<1>3. i + Len(a \o b) <= n
  BY <1>1 DEF Fits
<1> QED
  BY <1>1, <1>2, <1>3 DEF Fits

LEMMA FitsAppend ==
  ASSUME NEW text, NEW n \in Nat, NEW i \in Nat, NEW a \in Seq(Bytes), NEW x,
         x = text[i + Len(a) + 1], x \in Bytes, i + Len(a) + 1 <= n, Fits(text, n, i, a)
  PROVE  Fits(text, n, i, Append(a, x))
<1>1. /\ Len(a) \in Nat /\ Len(Append(a, x)) = Len(a) + 1
      /\ \A k \in 1 .. Len(a) : Append(a, x)[k] = a[k]
      /\ Append(a, x)[Len(a) + 1] = x
  BY AppendProperties, LenProperties
<1>2. ASSUME NEW k \in 1 .. Len(a) + 1
      PROVE  Append(a, x)[k] = text[i + k]
  <2>1. CASE k \in 1 .. Len(a)
    BY <1>1, <2>1 DEF Fits
  <2>2. CASE k = Len(a) + 1
    <3>1. i + k = i + Len(a) + 1
      BY <1>1, <2>2
    <3> QED
      BY <1>1, <2>2, <3>1
  <2> QED
    BY <1>1, <2>1, <2>2
<1> QED
  BY <1>1, <1>2 DEF Fits

\* What to know of a stream, with its pieces named.
StreamAt(e, first) ==
  LET p == Peer(e)
  IN  /\ Slicing(sock[e].wire, first, Sent(p), Script(p), Spoken(p), ~Gone(e))
      /\ first \in Nat /\ first - Len(sock[e].rcv) \in Nat
      /\ Heard(e) <= first - Len(sock[e].rcv)
      /\ Fits(Script(p), Spoken(p), first - Len(sock[e].rcv), sock[e].rcv)
      /\ Follows(e) => first - Len(sock[e].rcv) = Heard(e) + Pending(e)
      /\ ~Gone(e) /\ (sock[e].fin \/ sock[e].err # "none") => first = Sent(p)
      /\ first <= Sent(p) /\ Sent(p) <= Spoken(p)

LEMMA StreamIs ==
  ASSUME Types, NEW e \in Ends, Stream(e)
  PROVE  \E first \in Nat : StreamAt(e, first)
<1> DEFINE p == Peer(e)
<1>1. PICK first \in Nat :
        /\ Slicing(sock[e].wire, first, Sent(p), Script(p), Spoken(p), ~Gone(e))
        /\ Linked(e, first)
  BY DEF Stream
<1>2. first <= Sent(p)
  <2>1. sock[e].wire \in Seq(Segments)
    BY Fields
  <2> QED
    BY <1>1, <2>1, SlicingOrder
<1>3. Sent(p) <= Spoken(p)
  <2>1. Spoken(p) \in Nat /\ Left(p) \in Nat
    BY StreamNumbers
  <2> QED
    BY <2>1 DEF Sent
<1>4. /\ Heard(e) <= first - Len(sock[e].rcv)
      /\ Fits(Script(p), Spoken(p), first - Len(sock[e].rcv), sock[e].rcv)
      /\ Follows(e) => first - Len(sock[e].rcv) = Heard(e) + Pending(e)
      /\ ~Gone(e) /\ (sock[e].fin \/ sock[e].err # "none") => first = Sent(p)
  BY <1>1 DEF Linked
<1>5. first - Len(sock[e].rcv) \in Nat
  <2>1. Heard(e) \in 0 .. 7 /\ Len(sock[e].rcv) \in Nat
    BY Numbers
  <2> QED
    BY <1>4, <2>1
<1> QED
  BY <1>1, <1>2, <1>3, <1>4, <1>5 DEF StreamAt

\* No more is read than was sent.
LEMMA StreamOrder ==
  ASSUME Types, NEW e \in Ends, Stream(e)
  PROVE  /\ Heard(e) \in 0 .. 7 /\ Sent(Peer(e)) \in Nat /\ Heard(e) <= Sent(Peer(e))
         /\ sock[e].rcv # <<>> => Heard(e) < Sent(Peer(e))
<1> DEFINE l == Len(sock[e].rcv)
           s == Sent(Peer(e))
<1>1. PICK first \in Nat : StreamAt(e, first)
  BY StreamIs
<1>2. l \in Nat /\ Heard(e) \in 0 .. 7 /\ s \in Int
  BY StreamNumbers
<1>3. Heard(e) <= first - l /\ first <= s
  BY <1>1 DEF StreamAt
<1>4. sock[e].rcv # <<>> => l # 0
  BY Fields, EmptySeq
<1> HIDE DEF l, s
<1>5. s \in Nat /\ Heard(e) <= s /\ (l # 0 => Heard(e) < s)
  BY <1>2, <1>3
<1> QED
  BY <1>2, <1>4, <1>5 DEF s

\* Nothing comes to e but perhaps the end of the stream.
LEMMA StreamKept ==
  ASSUME Types, NEW e \in Ends, Stream(e), Kept(e),
         \/ sock'[e].wire = sock[e].wire
         \/ \E seg \in Ctrl : sock'[e].wire = Append(sock[e].wire, seg),
         sock'[e].rcv = sock[e].rcv,
         ~Gone(e)' /\ (sock'[e].fin \/ sock'[e].err # "none")
           => sock[e].fin \/ sock[e].err # "none"
  PROVE  Stream(e)'
<1> DEFINE p == Peer(e)
           wire == sock[e].wire
           rcv == sock[e].rcv
           n == Spoken(p)
           m == Spoken(p)'
<1>1. PICK first \in Nat : StreamAt(e, first)
  BY StreamIs
<1> DEFINE start == first - Len(rcv)
<1>2. /\ wire \in Seq(Segments) /\ n \in Nat /\ m \in Nat /\ n <= m /\ Len(rcv) \in Nat
      /\ start \in Nat
  <2>1. m \in Nat
    BY DEF Spoken, LineEnd
  <2>2. n <= m
    BY DEF Kept
  <2>3. start \in Nat
    BY <1>1 DEF StreamAt
  <2> QED
    BY <2>1, <2>2, <2>3, StreamNumbers
<1>3. /\ Slicing(wire, first, Sent(p), Script(p), n, ~Gone(e))
      /\ Fits(Script(p), n, start, rcv)
  BY <1>1 DEF StreamAt
<1>4. /\ \A k \in 1 .. n : (Script(p)')[k] = Script(p)[k]
      /\ ~Gone(e)' => ~Gone(e)
  BY DEF Kept
<1> HIDE DEF p, wire, n, m, start, rcv
<1>5. Slicing(wire, first, Sent(p), Script(p)', m, ~Gone(e)')
  BY <1>2, <1>3, <1>4, SlicingMore
<1>6. Fits(Script(p)', m, start, rcv)
  BY <1>2, <1>3, <1>4, FitsMore
<1>7. Slicing(sock'[e].wire, first, Sent(p), Script(p)', m, ~Gone(e)')
  BY <1>2, <1>5, SlicingCtrl DEF wire
<1>8. /\ Sent(p)' = Sent(p) /\ Heard(e)' = Heard(e)
      /\ Follows(e)' => Follows(e) /\ Pending(e)' = Pending(e)
  BY DEF Kept, p
<1>9. Linked(e, first)'
  BY <1>1, <1>4, <1>6, <1>8 DEF Linked, StreamAt, p, m, start, rcv
<1> QED
  BY <1>7, <1>8, <1>9 DEF Stream, p, m

\* The sender of the text to e says and sends nothing, and e hears nothing.
Still(e) ==
  LET p == Peer(e)
  IN  /\ Spoken(p)' = Spoken(p) /\ Script(p)' = Script(p)
      /\ Sent(p)' = Sent(p) /\ Heard(e)' = Heard(e)

\* End e leaves.
LEMMA StreamLeft ==
  ASSUME Types, NEW e \in Ends, Stream(e), Still(e), ~Follows(e)', Gone(e)',
         sock'[e].wire = sock[e].wire, sock'[e].rcv = <<>>
  PROVE  Stream(e)'
<1> DEFINE p == Peer(e)
<1>1. PICK first \in Nat : StreamAt(e, first)
  BY StreamIs
<1>2. /\ Spoken(p) \in Nat /\ sock[e].wire \in Seq(Segments) /\ Sent(p) \in Int
      /\ Len(sock[e].rcv) \in Nat /\ Heard(e) \in 0 .. 7
  BY StreamNumbers
<1>3. Slicing(sock[e].wire, first, Sent(p), Script(p), Spoken(p), ~Gone(e)')
  <2> DEFINE wire == sock[e].wire
             text == Script(p)
             n == Spoken(p)
             last == Sent(p)
  <2>1. Slicing(wire, first, last, text, n, ~Gone(e)) /\ n \in Nat /\ wire \in Seq(Segments)
    BY <1>1, <1>2 DEF StreamAt
  <2>2. (~Gone(e)') => ~Gone(e)
    OBVIOUS
  <2>3. n <= n /\ \A k \in 1 .. n : text[k] = text[k]
    BY <2>1
  <2> HIDE DEF wire, text, n, last
  <2>4. Slicing(wire, first, last, text, n, ~Gone(e)')
    BY <2>1, <2>2, <2>3, SlicingMore
  <2> QED
    BY <2>4 DEF wire, text, n, last
<1>4. Len(sock'[e].rcv) = 0 /\ Heard(e) <= first /\ first <= Spoken(p)
  BY <1>1, <1>2 DEF StreamAt
<1>5. Linked(e, first)'
  BY <1>4 DEF Linked, Fits, Still
<1> QED
  BY <1>3, <1>5 DEF Stream, Still

\* Some bytes are sent to e.
LEMMA StreamGrows ==
  ASSUME Types, NEW e \in Ends, Stream(e),
         NEW seg \in Seq(Bytes), Len(seg) > 0,
         sock'[e].wire = Append(sock[e].wire, seg), sock'[e].rcv = sock[e].rcv,
         ~sock'[e].fin, sock'[e].err = "none", Plain(sock[e].wire),
         Spoken(Peer(e))' = Spoken(Peer(e)), Script(Peer(e))' = Script(Peer(e)),
         Heard(e)' = Heard(e), Sent(Peer(e))' = Sent(Peer(e)) + Len(seg),
         Fits(Script(Peer(e)), Spoken(Peer(e)), Sent(Peer(e)), seg),
         Follows(e)' => Follows(e) /\ Pending(e)' = Pending(e),
         Gone(e)' <=> Gone(e)
  PROVE  Stream(e)'
<1> DEFINE p == Peer(e)
           wire == sock[e].wire
           text == Script(p)
           n == Spoken(p)
           last == Sent(p)
           alive == ~Gone(e)
<1>1. PICK first \in Nat : StreamAt(e, first)
  BY StreamIs
<1>2. n \in Nat /\ wire \in Seq(Segments)
  BY StreamNumbers
<1>3. /\ Slicing(wire, first, last, text, n, alive) /\ Plain(wire)
      /\ Fits(text, n, last, seg)
  BY <1>1 DEF StreamAt
<1>4. Slicing(Append(wire, seg), first, last + Len(seg), text, n, alive)
  <2> HIDE DEF wire, text, n, last, alive
  <2> QED
    BY <1>2, <1>3, SlicingData
<1>5. Linked(e, first)'
  BY <1>1 DEF StreamAt, Linked
<1>6. Slicing(sock'[e].wire, first, Sent(p)', Script(p)', Spoken(p)', ~Gone(e)')
  BY <1>4
<1> QED
  BY <1>5, <1>6 DEF Stream

\* End e reads a byte.
LEMMA StreamRead ==
  ASSUME Types, NEW e \in Ends, Stream(e), Follows(e),
         sock[e].rcv # <<>>, sock'[e].rcv = Tail(sock[e].rcv),
         sock'[e].wire = sock[e].wire, sock'[e].fin = sock[e].fin,
         sock'[e].err = sock[e].err,
         Spoken(Peer(e))' = Spoken(Peer(e)), Script(Peer(e))' = Script(Peer(e)),
         Sent(Peer(e))' = Sent(Peer(e)), Gone(e)' <=> Gone(e),
         Heard(e)' <= Heard(e) + Pending(e) + 1,
         Follows(e)' => Heard(e)' + Pending(e)' = Heard(e) + Pending(e) + 1
  PROVE  Stream(e)'
<1> DEFINE p == Peer(e)
           rcv == sock[e].rcv
           text == Script(p)
           n == Spoken(p)
<1>1. PICK first \in Nat : StreamAt(e, first)
  BY StreamIs
<1> DEFINE start == first - Len(rcv)
<1>2. n \in Nat /\ rcv \in Seq(Bytes) /\ Len(rcv) \in Nat /\ start \in Nat
  BY <1>1, StreamNumbers DEF StreamAt
<1>3. Len(Tail(rcv)) = Len(rcv) - 1
  BY <1>2, HeadTailProperties
<1>4. first - Len(Tail(rcv)) = start + 1
  <2> DEFINE a == Len(rcv)
             b == Len(Tail(rcv))
  <2>1. a \in Nat /\ b = a - 1
    BY <1>2, <1>3
  <2> HIDE DEF a, b
  <2>2. first - b = first - a + 1
    BY <2>1
  <2> QED
    BY <2>2 DEF a, b
<1>5. Fits(text, n, start + 1, Tail(rcv))
  <2>1. Fits(text, n, start, rcv) /\ rcv # <<>>
    BY <1>1 DEF StreamAt
  <2> HIDE DEF start, rcv, text, n
  <2> QED
    BY <1>2, <2>1, FitsTail
<1>6. Linked(e, first)'
  <2>1. start = Heard(e) + Pending(e)
    BY <1>1 DEF StreamAt
  <2>2. /\ sock'[e].rcv = Tail(rcv) /\ Heard(e)' <= start + 1
        /\ Follows(e)' => start + 1 = Heard(e)' + Pending(e)'
    BY <2>1
  <2> QED
    BY <1>1, <1>4, <1>5, <2>2 DEF Linked, StreamAt
<1> QED
  BY <1>1, <1>6 DEF Stream, StreamAt

\* A segment comes to e: the end of the stream, or data that is taken, or data
\* for an end that has gone.
LEMMA StreamDelivered ==
  ASSUME Types, NEW e \in Ends, Stream(e), Still(e), sock[e].wire # <<>>,
         NEW seg \in Segments, seg = Head(sock[e].wire),
         sock'[e].wire = Tail(sock[e].wire),
         Follows(e)' => Follows(e) /\ Pending(e)' = Pending(e),
         Gone(e)' <=> Gone(e),
         \/ seg \in Ctrl /\ sock'[e].rcv = sock[e].rcv
         \/ seg \notin Ctrl /\ sock'[e].rcv = sock[e].rcv \o seg
            /\ sock'[e].fin = sock[e].fin /\ sock'[e].err = sock[e].err
         \/ seg \notin Ctrl /\ sock'[e].rcv = <<>> /\ sock[e].rcv = <<>>
            /\ Gone(e) /\ ~Follows(e)
  PROVE  Stream(e)'
<1> DEFINE p == Peer(e)
           wire == sock[e].wire
           rcv == sock[e].rcv
           text == Script(p)
           n == Spoken(p)
           last == Sent(p)
           alive == ~Gone(e)
<1>1. PICK first \in Nat : StreamAt(e, first)
  BY StreamIs
<1> DEFINE start == first - Len(rcv)
<1>2. /\ n \in Nat /\ wire \in Seq(Segments) /\ rcv \in Seq(Bytes) /\ Len(rcv) \in Nat
      /\ last \in Int /\ Heard(e) \in 0 .. 7 /\ start \in Nat
  BY <1>1, StreamNumbers DEF StreamAt
<1>3. IF seg \in Ctrl
        THEN /\ alive => first = last
             /\ Slicing(Tail(wire), first, last, text, n, alive)
        ELSE /\ Len(seg) > 0 /\ Fits(text, n, first, seg)
             /\ Slicing(Tail(wire), first + Len(seg), last, text, n, alive)
  <2>1. Slicing(wire, first, last, text, n, alive) /\ wire # <<>> /\ seg = Head(wire)
    BY <1>1 DEF StreamAt
  <2> HIDE DEF wire, text, n, last, alive
  <2> QED
    BY <1>2, <2>1, SlicingTail
<1>4. Spoken(p)' = n /\ Script(p)' = text /\ Sent(p)' = last /\ Heard(e)' = Heard(e)
  BY DEF Still
<1>5. CASE seg \in Ctrl /\ sock'[e].rcv = rcv
  <2>1. Linked(e, first)'
    BY <1>1, <1>3, <1>4, <1>5 DEF Linked, StreamAt
  <2> QED
    BY <1>3, <1>4, <1>5, <2>1 DEF Stream
<1>6. ASSUME seg \notin Ctrl
      PROVE  /\ seg \in Seq(Bytes) /\ Len(seg) \in Nat /\ first + Len(seg) \in Nat
             /\ first + Len(seg) <= last
             /\ Slicing(Tail(wire), first + Len(seg), last, text, n, alive)
  <2>1. seg \in Seq(Bytes) /\ Len(seg) \in Nat
    BY <1>6, LenProperties DEF Segments
  <2>2. Slicing(Tail(wire), first + Len(seg), last, text, n, alive)
    BY <1>3, <1>6
  <2>3. Tail(wire) \in Seq(Segments)
    BY <1>2, HeadTailProperties
  <2>4. first + Len(seg) <= last
    BY <2>2, <2>3, SlicingOrder
  <2> QED
    BY <2>1, <2>2, <2>4
<1>7. CASE /\ seg \notin Ctrl /\ sock'[e].rcv = rcv \o seg
           /\ sock'[e].fin = sock[e].fin /\ sock'[e].err = sock[e].err
  <2>1. Fits(text, n, first, seg) /\ Len(seg) > 0
    BY <1>3, <1>7
  <2>2. Len(rcv \o seg) = Len(rcv) + Len(seg)
    BY <1>2, <1>6, <1>7, ConcatProperties
  <2>3. (first + Len(seg)) - Len(rcv \o seg) = start /\ start + Len(rcv) = first
    <3> DEFINE a == Len(rcv)
               b == Len(seg)
               ab == Len(rcv \o seg)
    <3>1. a \in Nat /\ b \in Nat /\ ab = a + b
      BY <1>2, <1>6, <1>7, <2>2
    <3> HIDE DEF a, b, ab
    <3>2. (first + b) - ab = first - a /\ first - a + a = first
      BY <3>1
    <3> QED
      BY <3>2 DEF a, b, ab
  <2>4. Fits(text, n, start, rcv \o seg)
    <3>1. Fits(text, n, start, rcv) /\ Fits(text, n, start + Len(rcv), seg)
      BY <1>1, <2>1, <2>3 DEF StreamAt
    <3> HIDE DEF start, rcv, text, n
    <3> QED
      BY <1>2, <1>6, <1>7, <3>1, FitsConcat
  <2>5. alive => ~sock[e].fin /\ sock[e].err = "none"
    BY <1>1, <1>2, <1>6, <1>7, <2>1 DEF StreamAt
  <2>6. Linked(e, first + Len(seg))'
    BY <1>1, <1>4, <1>7, <2>3, <2>4, <2>5 DEF Linked, StreamAt
  <2> QED
    BY <1>4, <1>6, <1>7, <2>6 DEF Stream
<1>8. CASE /\ seg \notin Ctrl /\ sock'[e].rcv = <<>> /\ sock[e].rcv = <<>>
           /\ Gone(e) /\ ~Follows(e)
  <2>1. Len(sock'[e].rcv) = 0 /\ Len(rcv) = 0 /\ Heard(e) <= first /\ last <= n
    BY <1>1, <1>8 DEF StreamAt
  <2>2. Heard(e) <= first + Len(seg) /\ first + Len(seg) <= n
    BY SMTT(30), <1>2, <1>6, <1>8, <2>1
  <2>3. Linked(e, first + Len(seg))'
    BY <1>4, <1>8, <2>1, <2>2 DEF Linked, Fits
  <2> QED
    BY <1>4, <1>6, <1>8, <2>3 DEF Stream
<1> QED
  BY <1>5, <1>7, <1>8

(***************************************************************************)
(* The lines in the scripts.                                               *)
(***************************************************************************)
LEMMA LineIsWhole ==
  ASSUME Types, SaidInv, NEW e \in Ends, NEW buf \in Seq(Bytes), Len(buf) > 0,
         Fits(Script(Peer(e)), Spoken(Peer(e)), Heard(e), buf),
         Heard(e) + Len(buf) <= LineEnd(Peer(e), Got(e) + 1)
  PROVE  LET h == Got(e)
             end == LineEnd(Peer(e), h + 1)
         IN  IF buf[Len(buf)] = NL
               THEN /\ Heard(e) + Len(buf) = end
                    /\ h + 1 <= Lines(Peer(e)) /\ buf = said[Peer(e)][h + 1]
               ELSE Heard(e) + Len(buf) < end
<1> DEFINE p == Peer(e)
           h == Got(e)
           l == Len(buf)
           Whole ==
             IF buf[l] = NL
               THEN Heard(e) + l = LineEnd(p, h + 1) /\ h + 1 <= Lines(p) /\ buf = said[p][h + 1]
               ELSE Heard(e) + l < LineEnd(p, h + 1)
<1>1. /\ h \in Nat /\ l \in Nat \ {0} /\ Lines(p) \in Nat /\ p \in Ends
  <2>1. l \in Nat
    BY LenProperties
  <2> QED
    BY <2>1, Numbers, PeerFacts
<1>2. /\ Heard(e) = LineEnd(p, h) /\ Spoken(p) = LineEnd(p, Lines(p))
  BY DEF Heard, Spoken
<1>3. /\ Heard(e) + l <= Spoken(p)
      /\ \A k \in 1 .. l : buf[k] = Script(p)[Heard(e) + k]
  BY DEF Fits
<1> DEFINE end == LineEnd(p, h + 1)
<1>4. Heard(e) + l <= end
  OBVIOUS
<1> HIDE DEF l, h
<1>5. ASSUME NEW b \in Burgers PROVE b # NL
  BY BurgersAssumption DEF NL
<1>6. ASSUME e = Server PROVE Whole
  <2>1. p = Client
    BY <1>6, TheEnds
  <2>2. h = 0 /\ Heard(e) = 0 /\ LineEnd(p, h + 1) = 3
    BY <1>1, <1>2, <2>1 DEF LineEnd
  <2>3. Lines(Client) = 1 /\ Spoken(p) = 3 /\ l \in 1 .. 3 /\ choice \in Burgers
    BY <1>1, <1>2, <1>3, <2>1, <2>2 DEF SaidInv, LineEnd, Types
  <2>4. \A k \in 1 .. l : buf[k] = Script(Client)[k]
    BY <1>3, <2>1, <2>2, <2>3
  <2>5. buf[l] = NL => l = 3
    <3>1. "n" # NL
      BY DEF NL
    <3> QED
      BY <1>5, <2>3, <2>4, <3>1, ScriptIs
  <2>6. ASSUME buf[l] = NL
        PROVE  buf = said[p][1]
    <3>1. l = 3 /\ buf[1] = "n" /\ buf[2] = choice /\ buf[3] = NL
      BY <2>4, <2>5, <2>6, ScriptIs
    <3> DEFINE t == <<"n", choice, NL>>
    <3>2. t \in Seq(Bytes) /\ Len(t) = 3 /\ t[1] = "n" /\ t[2] = choice /\ t[3] = NL
      BY <2>3 DEF Bytes
    <3> HIDE DEF t
    <3>3. \A k \in 1 .. 3 : buf[k] = t[k]
      BY <3>1, <3>2
    <3>4. buf = t
      BY <3>1, <3>2, <3>3, SeqEqual DEF l
    <3>5. said[Client][1] = OrderLine(choice)
      BY <2>3, TheEnds DEF SaidInv, Line
    <3> QED
      BY <2>1, <3>4, <3>5, OrderLineIs DEF t
  <2>7. l < 3 \/ l = 3
    BY <2>3
  <2> QED
    BY <2>1, <2>2, <2>3, <2>4, <2>5, <2>6, <2>7, ScriptIs
<1>7. ASSUME e = Client, h = 0 PROVE Whole
  <2>1. p = Server /\ Heard(e) = 0 /\ LineEnd(p, h + 1) = 4
    BY <1>2, <1>7, TheEnds DEF LineEnd
  <2>2. Lines(p) >= 1 /\ l \in 1 .. 4
    BY <1>1, <1>2, <1>3, <1>4, <2>1, TheEnds DEF LineEnd
  <2>3. \A k \in 1 .. l : buf[k] = Script(Server)[k]
    BY <1>3, <2>1, <2>2
  <2>4. buf[l] = NL => l = 4
    <3>1. "w" # NL /\ "e" # NL /\ "l" # NL
      BY DEF NL
    <3> QED
      BY <2>2, <2>3, <3>1, ScriptIs
  <2>5. ASSUME buf[l] = NL
        PROVE  buf = said[p][1]
    <3>1. l = 4 /\ buf[1] = "w" /\ buf[2] = "e" /\ buf[3] = "l" /\ buf[4] = NL
      BY <2>3, <2>4, <2>5, ScriptIs
    <3>2. /\ Welcome \in Seq(Bytes) /\ Len(Welcome) = 4
          /\ Welcome[1] = "w" /\ Welcome[2] = "e" /\ Welcome[3] = "l" /\ Welcome[4] = NL
      BY DEF Bytes, Welcome
    <3>3. \A k \in 1 .. 4 : buf[k] = Welcome[k]
      BY <3>1, <3>2
    <3>4. buf = Welcome
      BY <3>1, <3>2, <3>3, SeqEqual DEF l
    <3>5. said[Server][1] = Welcome
      BY <1>1, <2>1, <2>2, TheEnds DEF SaidInv, Line
    <3> QED
      BY <2>1, <3>4, <3>5
  <2>6. l < 4 \/ l = 4
    BY <2>2
  <2> QED
    BY <1>7, <2>1, <2>2, <2>3, <2>4, <2>5, <2>6, ScriptIs
<1>8. ASSUME e = Client, h # 0 PROVE Whole
  <2>1. p = Server
    BY <1>8, TheEnds
  <2>2. h = 1 /\ Heard(e) = 4 /\ LineEnd(p, h + 1) = 7
    BY <1>1, <1>2, <1>8, <2>1, TheEnds DEF LineEnd
  <2>3. Lines(Server) >= 2 /\ l \in 1 .. 3
    BY <1>1, <1>2, <1>3, <2>1, <2>2, TheEnds DEF LineEnd
  <2>4. Lines(Server) = 2 /\ order \in Burgers
    BY <1>1, <2>1, <2>3 DEF SaidInv, Types
  <2>5. \A k \in 1 .. l : buf[k] = Script(Server)[4 + k]
    BY <1>3, <2>1, <2>2
  <2>6. /\ 1 <= l => buf[1] = "y"
        /\ 2 <= l => buf[2] = order
        /\ 3 <= l => buf[3] = NL
    <3>1. 4 + 1 = 5 /\ 4 + 2 = 6 /\ 4 + 3 = 7
      OBVIOUS
    <3> QED
      BY <2>3, <2>5, <3>1, ScriptIs
  <2>7. buf[l] = NL => l = 3
    <3>1. "y" # NL
      BY DEF NL
    <3> QED
      BY <1>5, <2>3, <2>4, <2>6, <3>1
  <2>8. ASSUME buf[l] = NL
        PROVE  buf = said[p][2]
    <3>1. l = 3 /\ buf[1] = "y" /\ buf[2] = order /\ buf[3] = NL
      BY <2>6, <2>7, <2>8
    <3> DEFINE t == Goodbye(order)
    <3>2. t \in Seq(Bytes) /\ Len(t) = 3 /\ t[1] = "y" /\ t[2] = order /\ t[3] = NL
      BY <2>4 DEF Bytes, Goodbye
    <3> HIDE DEF t
    <3>3. \A k \in 1 .. 3 : buf[k] = t[k]
      BY <3>1, <3>2
    <3>4. buf = t
      BY <3>1, <3>2, <3>3, SeqEqual DEF l
    <3>5. said[Server][2] = Goodbye(order)
      BY <2>4, TheEnds DEF SaidInv, Line
    <3> QED
      BY <2>1, <3>4, <3>5 DEF t
  <2>9. l < 3 \/ l = 3
    BY <2>3
  <2> QED
    BY <2>1, <2>2, <2>3, <2>4, <2>6, <2>7, <2>8, <2>9
<1> QED
  BY <1>6, <1>7, <1>8, TheEnds DEF l, h
(***************************************************************************)
(* The steps of net.c and of the kernel.                                   *)
(***************************************************************************)
\* Such a step leaves what the programs have said, and where they stand.
TextStep == UNCHANGED <<pc, choice, order, said, missed, piped>>

LEMMA TextFrame ==
  ASSUME TextStep
  PROVE  /\ \A d \in Ends :
              /\ Lines(d)' = Lines(d) /\ Script(d)' = Script(d)
              /\ Spoken(d)' = Spoken(d) /\ (Gone(d)' <=> Gone(d))
         /\ SaidInv => SaidInv'
<1> USE DEF TextStep
<1>1. ASSUME NEW d \in Ends
      PROVE  /\ Lines(d)' = Lines(d) /\ Script(d)' = Script(d)
             /\ Spoken(d)' = Spoken(d) /\ (Gone(d)' <=> Gone(d))
  BY DEF Lines, Script, Spoken, LineEnd, Gone
<1>2. SaidInv => SaidInv'
  BY <1>1, TheEnds DEF SaidInv, Line
<1> QED
  BY <1>1, <1>2

\* The byte that is read is the next one of the line.
LEMMA NextByte ==
  ASSUME SessionInv, NEW e \in Ends, GetByte(e)
  PROVE  LET buf == Append(io[e].buf, Head(sock[e].rcv))
         IN  /\ ~GaveUp(e) /\ Follows(e) /\ Pending(e) = Filled(e)
             /\ Fits(Script(Peer(e)), Spoken(Peer(e)), Heard(e), buf)
             /\ Heard(e) + Len(buf) <= LineEnd(Peer(e), Got(e) + 1)
<1> DEFINE p == Peer(e)
           rcv == sock[e].rcv
           old == io[e].buf
           buf == Append(old, Head(rcv))
<1>1. io[e].call = "get" /\ rcv # <<>>
  BY DEF GetByte
<1>2. ~GaveUp(e)
  <2>1. GaveUp(e) => e = Client
    BY DEF GaveUp
  <2> QED
    BY <1>1, <2>1 DEF SessionInv, HeardInv
<1>3. Follows(e) /\ Pending(e) = Filled(e)
  BY <1>1, <1>2 DEF Follows, Pending
<1>4. PICK first \in Nat : StreamAt(e, first)
  BY StreamIs DEF SessionInv, Streams
<1> DEFINE start == first - Len(rcv)
<1>5. start \in Nat /\ start = Heard(e) + Filled(e) /\ Fits(Script(p), Spoken(p), start, rcv)
  BY <1>3, <1>4 DEF StreamAt
<1>6. /\ rcv \in Seq(Bytes) /\ old \in Seq(Bytes) /\ Spoken(p) \in Nat
      /\ Heard(e) \in Nat /\ Filled(e) \in Nat /\ Filled(e) = Len(old)
  <2>1. Types
    BY DEF SessionInv
  <2>2. rcv \in Seq(Bytes) /\ old \in Seq(Bytes)
    BY <2>1, Fields
  <2>3. Spoken(p) \in Nat
    BY <2>1, StreamNumbers
  <2>4. Heard(e) \in 0 .. 7 /\ Filled(e) \in Nat
    BY <2>1, Numbers
  <2> QED
    BY <2>2, <2>3, <2>4 DEF Filled
<1>7. Head(rcv) = Script(p)[start + 1] /\ start < Spoken(p)
  <2> DEFINE text == Script(p)
             n == Spoken(p)
  <2>1. n \in Nat /\ start \in Nat /\ rcv \in Seq(Bytes) /\ rcv # <<>> /\ Fits(text, n, start, rcv)
    BY <1>1, <1>5, <1>6
  <2> HIDE DEF start, rcv, text, n
  <2>2. Head(rcv) = text[start + 1] /\ start < n
    BY <2>1, FitsTail
  <2> QED
    BY <2>2 DEF text, n
<1>8. /\ Fits(Script(p), Spoken(p), Heard(e), old)
      /\ Heard(e) + Filled(e) < LineEnd(p, Got(e) + 1)
  BY <1>1, <1>2 DEF SessionInv, GetInv
<1>9. Fits(Script(p), Spoken(p), Heard(e), buf)
  <2> DEFINE x == Head(rcv)
  <2>1. x \in Bytes
    BY <1>1, <1>6, HeadTailProperties
  <2>2. x = Script(p)[Heard(e) + Len(old) + 1] /\ Heard(e) + Len(old) + 1 <= Spoken(p)
    <3> HIDE DEF start
    <3> QED
      BY <1>5, <1>6, <1>7
  <2> HIDE DEF x, p, old
  <2> QED
    BY <1>6, <1>8, <2>1, <2>2, FitsAppend DEF x, old
<1>10. Heard(e) + Len(buf) <= LineEnd(p, Got(e) + 1)
  <2>1. Len(buf) = Filled(e) + 1
    BY <1>1, <1>6, HeadTailProperties, AppendProperties
  <2>2. LineEnd(p, Got(e) + 1) \in Nat
    BY DEF LineEnd
  <2> QED
    BY <1>6, <1>8, <2>1, <2>2
<1> QED
  BY <1>2, <1>3, <1>9, <1>10

LEMMA GetByteKeeps ==
  ASSUME SessionInv, NEW e \in Ends, GetByte(e)
  PROVE  SessionInv'
<1> DEFINE p == Peer(e)
           buf == Append(io[e].buf, Head(sock[e].rcv))
           whole == Last(buf) = NL
<1>1. /\ Types /\ PlacesInv /\ SaidInv /\ HeardInv /\ PutInv /\ GetInv
      /\ NoCtrl /\ Streams /\ Clean /\ Answered /\ SigpipeIsNarrow
  BY DEF SessionInv
<1>2. /\ io[e].call = "get" /\ sock[e].rcv # <<>> /\ TextStep
      /\ heard' = IF whole THEN [heard EXCEPT ![e] = Append(@, buf)] ELSE heard
  BY DEF GetByte, TextStep
<1>3. /\ p \in Ends /\ p # e /\ \A d \in Ends : d = e \/ d = p
      /\ (e = Client /\ p = Server) \/ (e = Server /\ p = Client)
  BY PeerFacts, TheEnds
<1>4. /\ io'[e].call = IF whole THEN "none" ELSE "get"
      /\ io'[e].buf = buf /\ io'[e].rest = io[e].rest /\ io'[e].part = io[e].part
      /\ io'[e].res = IF whole THEN Len(buf) ELSE io[e].res
      /\ io'[p] = io[p]
  <2>1. CallBecomes(e, Call(IF whole THEN "none" ELSE "get", buf, Grown(io[e].cap, Len(buf)),
                            io[e].rest, io[e].part, IF whole THEN Len(buf) ELSE io[e].res))
    BY <1>1, GetByteFacts
  <2> HIDE DEF p, buf, whole
  <2> QED
    BY <1>3, <2>1 DEF CallBecomes, Call
<1>5. /\ sock'[e].wire = sock[e].wire /\ sock'[e].rcv = Tail(sock[e].rcv)
      /\ sock'[e].fin = sock[e].fin /\ sock'[e].err = sock[e].err
      /\ sock'[e].open = sock[e].open /\ sock'[p] = sock[p]
  BY <1>1, <1>3, GetByteFacts, SockIs DEF SockBecomes
<1>6. Types' /\ buf \in Seq(Bytes) /\ Len(buf) = Len(io[e].buf) + 1
  BY <1>1, GetByteFacts
<1> HIDE DEF p, buf, whole
<1>7. /\ ~GaveUp(e) /\ Follows(e) /\ Pending(e) = Filled(e)
      /\ Fits(Script(p), Spoken(p), Heard(e), buf)
      /\ Heard(e) + Len(buf) <= LineEnd(p, Got(e) + 1)
  BY NextByte DEF p, buf
<1>8. /\ Len(buf) \in Nat \ {0} /\ Len(buf) = Filled(e) + 1 /\ Filled(e)' = Len(buf)
      /\ Heard(e) \in Nat /\ Got(e) \in Nat /\ Filled(e) \in Nat
  <2>1. Filled(e) \in Nat /\ Heard(e) \in 0 .. 7 /\ Got(e) \in Nat
    BY <1>1, Numbers
  <2> QED
    BY <1>4, <1>6, <2>1 DEF Filled
<1>9. IF whole
        THEN /\ Heard(e) + Len(buf) = LineEnd(p, Got(e) + 1)
             /\ Got(e) + 1 <= Lines(p) /\ buf = said[p][Got(e) + 1]
        ELSE Heard(e) + Len(buf) < LineEnd(p, Got(e) + 1)
  <2>1. Len(buf) > 0
    BY <1>8
  <2>2. whole <=> buf[Len(buf)] = NL
    BY DEF Last, whole
  <2> QED
    BY <1>1, <1>6, <1>7, <2>1, <2>2, LineIsWhole DEF p
<1>10. /\ \A d \in Ends :
            /\ Lines(d)' = Lines(d) /\ Script(d)' = Script(d)
            /\ Spoken(d)' = Spoken(d) /\ (Gone(d)' <=> Gone(d))
            /\ Left(d)' = Left(d) /\ Sent(d)' = Sent(d)
       /\ SaidInv'
  BY <1>1, <1>2, <1>3, <1>4, TextFrame DEF Left, Sent
<1>11. /\ heard'[p] = heard[p] /\ Got(p)' = Got(p) /\ Heard(p)' = Heard(p)
       /\ Filled(p)' = Filled(p) /\ Pending(p)' = Pending(p)
  BY <1>2, <1>3, <1>4 DEF Got, Heard, LineEnd, Filled, Pending
<1>12. /\ Got(e)' = IF whole THEN Got(e) + 1 ELSE Got(e)
       /\ \A n \in 1 .. Got(e) : heard'[e][n] = heard[e][n]
       /\ whole => heard'[e][Got(e) + 1] = buf
  <2>1. heard[e] \in Seq(Seq(Bytes)) /\ heard \in [Ends -> Seq(Seq(Bytes))]
    BY <1>1 DEF Types
  <2>2. heard'[e] = IF whole THEN Append(heard[e], buf) ELSE heard[e]
    BY <1>2, <2>1
  <2> QED
    BY <1>6, <2>1, <2>2, AppendProperties DEF Got
<1>13. Heard(e)' = IF whole THEN Heard(e) + Len(buf) ELSE Heard(e)
  BY <1>9, <1>12 DEF Heard, LineEnd, p
<1>14. PlacesInv'
  BY <1>1, <1>2, <1>3, <1>4, <1>5, <1>10 DEF PlacesInv, TextStep
<1>15. HeardInv'
  <2>1. ASSUME NEW d \in Ends
        PROVE  /\ Got(d)' <= Lines(Peer(d))'
               /\ \A n \in 1 .. Got(d)' : heard'[d][n] = said'[Peer(d)][n]
    <3>1. CASE d = e
      <4>1. Got(e) <= Lines(p) /\ \A n \in 1 .. Got(e) : heard[e][n] = said[p][n]
        BY <1>1 DEF HeardInv, p
      <4>2. /\ Got(e)' <= Lines(p)'
            /\ \A n \in 1 .. Got(e)' : heard'[e][n] = said[p][n]
        BY <1>3, <1>8, <1>9, <1>10, <1>12, <4>1
      <4> QED
        BY <1>2, <3>1, <4>2 DEF TextStep, p
    <3>2. CASE d = p
      BY <1>1, <1>2, <1>3, <1>10, <1>11, <3>2, PeerFacts DEF HeardInv, TextStep
    <3> QED
      BY <1>3, <3>1, <3>2
  <2>2. CASE e = Client
    <3>1. pc[Client] \in {"welcome", "reply"} /\ pc' = pc
      BY <1>1, <1>2, <2>2 DEF PlacesInv, TextStep
    <3>2. pc[Client] = "welcome" => Got(e) = 0
      BY <1>1, <1>2, <2>2 DEF HeardInv
    <3>3. pc[Client] = "reply" => Got(e) # 0
      BY <1>7, <2>2, <3>1 DEF GaveUp
    <3>4. pc[Server] \in {"accept", "welcome"} => Got(Server) = 0
      BY <1>1 DEF HeardInv
    <3>5. Got(Client)' >= Got(Client) /\ (choice # NoBurger /\ ~Gone(Server) => Got(Client) > 0)
      BY <1>1, <1>8, <1>12, <2>2 DEF HeardInv
    <3>6. pc'[Client] = "welcome" =>
            /\ Got(Client)' = IF io'[Client].call = "none" /\ io'[Client].res > 0 THEN 1 ELSE 0
            /\ io'[Client].call = "none" => io'[Client].res >= 0
      BY <1>4, <1>8, <1>12, <2>2, <3>1, <3>2
    <3>7. ~GaveUp(Client)' /\ pc'[Client] \notin {"connect", "order"}
      BY <1>8, <1>12, <2>2, <3>1, <3>3 DEF GaveUp
    <3>8. pc'[Server] \in {"accept", "welcome"} => Got(Server)' = 0
      BY <1>3, <1>11, <2>2, <3>1, <3>4
    <3>9. choice' # NoBurger /\ ~Gone(Server)' => Got(Client)' > 0
      BY <1>2, <1>3, <1>8, <1>10, <1>12, <2>2, <3>5 DEF TextStep
    <3> QED
      BY <1>4, <1>8, <2>1, <2>2, <3>6, <3>7, <3>8, <3>9 DEF HeardInv
  <2>3. CASE e = Server
    <3>1. pc[Server] = "order" /\ pc' = pc
      BY <1>1, <1>2, <2>3 DEF PlacesInv, TextStep
    <3>2. pc'[Client] = "connect" => Got(Client)' = 0
      BY <1>1, <1>3, <1>11, <2>3, <3>1 DEF HeardInv
    <3>3. pc'[Client] = "welcome" =>
       /\ Got(Client)' = IF io'[Client].call = "none" /\ io'[Client].res > 0 THEN 1 ELSE 0
       /\ io'[Client].call = "none" /\ io'[Client].res < 0 =>
            sock'[Client].err = "dead" /\ sock'[Client].rcv = <<>>
      BY <1>1, <1>3, <1>4, <1>5, <1>11, <2>3, <3>1 DEF HeardInv
    <3>4. pc'[Client] = "order" => Got(Client)' <= 1
      BY <1>1, <1>3, <1>11, <2>3, <3>1 DEF HeardInv
    <3>5. pc'[Server] \in {"accept", "welcome"} => Got(Server)' = 0
      BY <3>1
    <3>6. GaveUp(Client)' => sock'[Client].err = "dead" /\ sock'[Client].rcv = <<>> /\ missed'
      BY <1>1, <1>2, <1>3, <1>5, <1>11, <2>3, <3>1 DEF HeardInv, GaveUp, TextStep
    <3>7. choice' # NoBurger /\ ~Gone(Server)' => Got(Client)' > 0
      BY <1>1, <1>2, <1>3, <1>11, <1>10, <2>3, <3>1 DEF HeardInv, TextStep
    <3> QED
      BY <2>1, <3>2, <3>3, <3>4, <3>5, <3>6, <3>7 DEF HeardInv
  <2> QED
    BY <1>3, <2>2, <2>3
<1>16. PutInv'
  BY <1>1, <1>2, <1>3, <1>4, <1>10 DEF PutInv, PlacesInv, TextStep, Fits, LineEnd
<1>17. GetInv'
  <2>1. ASSUME NEW d \in Ends, io'[d].call = "get", ~GaveUp(d)'
        PROVE  /\ Fits(Script(Peer(d)), Spoken(Peer(d)), Heard(d), io[d].buf)'
               /\ Heard(d)' + Filled(d)' < LineEnd(Peer(d), Got(d) + 1)'
    <3>1. CASE d = e
      BY <1>3, <1>4, <1>7, <1>8, <1>9, <1>10, <1>12, <1>13, <2>1, <3>1 DEF p, LineEnd, Fits
    <3>2. CASE d = p
      BY <1>1, <1>2, <1>3, <1>4, <1>10, <1>11, <2>1, <3>2, PeerFacts
         DEF GetInv, GaveUp, TextStep, LineEnd, Fits
    <3> QED
      BY <1>3, <3>1, <3>2
  <2>2. ASSUME pc'[Server] = "order"
        PROVE  Fits(Script(Client), Spoken(Client), 0, io[Server].buf)'
    <3>1. CASE e = Server
      <4>1. Heard(e) = 0
        BY <1>1, <1>2, <2>2, <3>1 DEF GetInv, TextStep, Heard, LineEnd
      <4> QED
        BY <1>3, <1>4, <1>7, <1>10, <3>1, <4>1, TheEnds DEF Fits
    <3>2. CASE p = Server
      BY <1>1, <1>2, <1>3, <1>4, <1>10, <2>2, <3>2, TheEnds DEF GetInv, TextStep, Fits
    <3> QED
      BY <1>3, <3>1, <3>2
  <2>3. pc'[Server] = "order" /\ io'[Server].call = "get" => Got(Server)' = 0
    BY <1>1, <1>2, <1>3, <1>4, <1>11, <1>12 DEF GetInv, TextStep
  <2> QED
    BY <2>1, <2>2, <2>3 DEF GetInv
<1>18. NoCtrl'
  BY <1>1, <1>3, <1>5, <1>10, PeerFacts DEF NoCtrl, Plain
<1>19. Streams'
  <2>1. Stream(e)'
    <3>1. /\ Heard(e)' <= Heard(e) + Pending(e) + 1
          /\ Follows(e)' => Heard(e)' + Pending(e)' = Heard(e) + Pending(e) + 1
      BY <1>4, <1>7, <1>8, <1>13 DEF Pending
    <3> QED
      BY <1>1, <1>2, <1>3, <1>5, <1>7, <1>10, <3>1, StreamRead DEF Streams, p
  <2>2. Stream(p)'
    <3>1. Kept(p)
      BY <1>1, <1>2, <1>3, <1>4, <1>10, <1>11, PeerFacts
         DEF Kept, Follows, GaveUp, Ready, TextStep, Spoken, LineEnd, p
    <3> QED
      BY <1>1, <1>3, <1>5, <1>10, <3>1, StreamKept DEF Streams
  <2> QED
    BY <1>3, <2>1, <2>2 DEF Streams
<1>20. Clean'
  <2>1. ~Gone(e) /\ Peer(p) = e
    BY <1>1, <1>2, PeerFacts DEF PlacesInv, p
  <2>2. sock[p].err = "none" /\ \A k \in 1 .. Len(sock[p].wire) : sock[p].wire[k] # Rst
    BY <1>1, <1>3, <2>1 DEF NoCtrl, Plain, Ctrl
  <2>3. Quiet(e)' => Quiet(e)
    BY <1>2, <1>3, <1>10, <1>11, TheEnds DEF Quiet, p
  <2> QED
    BY <1>1, <1>3, <1>5, <2>2, <2>3 DEF Clean
<1>21. Answered'
  <2>1. Served' => Served
    BY <1>1, <1>2, <1>3, <1>4, <1>10 DEF Served, PlacesInv, TextStep, Gone
  <2>2. Failed' => Failed
    BY <1>1, <1>2, <1>3, <1>4, <1>7, <1>8, <1>11, <1>12 DEF Failed, TextStep, PlacesInv, GaveUp
  <2> QED
    BY <1>1, <1>10, <2>1, <2>2, TheEnds DEF Answered
<1>22. SigpipeIsNarrow'
  <2>1. piped \subseteq Ends
    BY <1>1 DEF Types
  <2> QED
    BY <1>1, <1>2, <1>3, <1>4, <2>1 DEF SigpipeIsNarrow, TextStep
<1> QED
  BY <1>6, <1>10, <1>14, <1>15, <1>16, <1>17, <1>18, <1>19, <1>20, <1>21, <1>22
     DEF SessionInv

\* A call that ends without a line, or before its line has all been sent.
Fails(e) == GetEnd(e) \/ PutFails(e)

LEMMA FailsFacts ==
  ASSUME Types, NEW e \in Ends, Fails(e)
  PROVE  /\ io[e].call \in {"get", "put"} /\ (io[e].call = "get" => sock[e].rcv = <<>>)
         /\ sock[e].fin \/ sock[e].err # "none"
         /\ TextStep /\ heard' = heard /\ Types'
         /\ io'[e].call = "none" /\ io'[e].buf = io[e].buf /\ io'[e].rest = io[e].rest
         /\ io'[e].part = io[e].part
         /\ io'[e].res \in {-1, 0} /\ (io'[e].res = -1 => sock[e].err = "reset")
         /\ (io[e].call = "put" => io'[e].res = -1)
         /\ sock'[e].wire = sock[e].wire /\ sock'[e].rcv = sock[e].rcv
         /\ sock'[e].fin = sock[e].fin /\ sock'[e].open = sock[e].open
         /\ sock'[e].err = IF sock[e].err = "reset" THEN "dead" ELSE sock[e].err
         /\ \A d \in Ends : d # e => sock'[d] = sock[d] /\ io'[d] = io[d]
<1>1. CASE GetEnd(e)
  <2>1. PICK r \in EndResults(e) :
          /\ CallBecomes(e, Call("none", io[e].buf, io[e].cap, io[e].rest, io[e].part, r))
          /\ SockBecomes(e, Sock(sock[e].wire, sock[e].rcv, sock[e].fin,
               IF sock[e].err = "reset" THEN "dead" ELSE sock[e].err, sock[e].open))
          /\ Types'
    BY <1>1, GetEndFacts
  <2>2. r \in {-1, 0} /\ (r = -1 => sock[e].err = "reset")
    BY DEF EndResults
  <2>3. /\ io[e].call = "get" /\ sock[e].rcv = <<>> /\ (sock[e].fin \/ sock[e].err # "none")
        /\ TextStep /\ heard' = heard
    BY <1>1 DEF GetEnd, TextStep
  <2> QED
    BY <2>1, <2>2, <2>3 DEF CallBecomes, SockBecomes, Call, Sock
<1>2. CASE PutFails(e)
  <2>1. /\ CallBecomes(e, Call("none", io[e].buf, io[e].cap, io[e].rest, io[e].part, -1))
        /\ SockBecomes(e, Sock(sock[e].wire, sock[e].rcv, sock[e].fin, "dead", sock[e].open))
        /\ Types'
    BY <1>2, PutFailsFacts
  <2>2. io[e].call = "put" /\ sock[e].err = "reset" /\ TextStep /\ heard' = heard
    BY <1>2 DEF PutFails, TextStep
  <2> QED
    BY <2>1, <2>2 DEF CallBecomes, SockBecomes, Call, Sock
<1> QED
  BY <1>1, <1>2 DEF Fails

LEMMA FailsKeeps ==
  ASSUME SessionInv, NEW e \in Ends, Fails(e)
  PROVE  SessionInv'
<1> DEFINE p == Peer(e)
<1>1. /\ Types /\ PlacesInv /\ SaidInv /\ HeardInv /\ PutInv /\ GetInv
      /\ NoCtrl /\ Streams /\ Clean /\ Answered /\ SigpipeIsNarrow
  BY DEF SessionInv
<1>2. /\ io[e].call \in {"get", "put"} /\ (io[e].call = "get" => sock[e].rcv = <<>>)
      /\ sock[e].fin \/ sock[e].err # "none"
      /\ TextStep /\ heard' = heard /\ Types'
  BY <1>1, FailsFacts
<1>3. /\ p \in Ends /\ p # e /\ p = Peer(e) /\ Peer(p) = e /\ \A d \in Ends : d = e \/ d = p
      /\ (e = Client /\ p = Server) \/ (e = Server /\ p = Client)
  BY PeerFacts, TheEnds
<1>4. /\ io'[e].call = "none" /\ io'[e].buf = io[e].buf /\ io'[e].rest = io[e].rest
      /\ io'[e].part = io[e].part
      /\ io'[e].res \in {-1, 0} /\ (io'[e].res = -1 => sock[e].err = "reset")
      /\ (io[e].call = "put" => io'[e].res = -1)
      /\ io'[p] = io[p]
  BY <1>1, <1>3, FailsFacts
<1>5. /\ sock'[e].wire = sock[e].wire /\ sock'[e].rcv = sock[e].rcv
      /\ sock'[e].fin = sock[e].fin /\ sock'[e].open = sock[e].open
      /\ sock'[e].err = IF sock[e].err = "reset" THEN "dead" ELSE sock[e].err
      /\ sock'[p] = sock[p]
  BY <1>1, <1>3, FailsFacts
<1> HIDE DEF p
<1>6. ~Gone(e) /\ Gone(p)
  BY <1>1, <1>2, <1>3 DEF PlacesInv, NoCtrl
<1>7. /\ \A d \in Ends :
           /\ Lines(d)' = Lines(d) /\ Script(d)' = Script(d)
           /\ Spoken(d)' = Spoken(d) /\ (Gone(d)' <=> Gone(d))
           /\ Left(d)' = Left(d) /\ Sent(d)' = Sent(d)
           /\ Got(d)' = Got(d) /\ Heard(d)' = Heard(d) /\ Filled(d)' = Filled(d)
      /\ SaidInv'
  BY <1>1, <1>2, <1>3, <1>4, TextFrame DEF Left, Sent, Got, Heard, Filled, LineEnd
<1>8. /\ e = Client => pc[Client] \in {"welcome", "order", "reply"}
      /\ e = Client /\ pc[Client] = "welcome" => io[e].call = "get" /\ Got(e) = 0
      /\ e = Client /\ pc[Client] = "reply" => io[e].call = "get"
      /\ e = Client /\ pc[Client] = "order" => io[e].call = "put"
      /\ e = Server => pc[Server] \in {"welcome", "order", "goodbye"}
      /\ e = Server /\ pc[Server] \in {"welcome", "goodbye"} => io[e].call = "put"
      /\ pc' = pc
  BY <1>1, <1>2, TheEnds DEF PlacesInv, HeardInv, TextStep
<1>9. PlacesInv'
  BY <1>1, <1>2, <1>3, <1>4, <1>5, <1>7 DEF PlacesInv, TextStep
<1>10. HeardInv'
  <2>1. \A d \in Ends :
          /\ Got(d)' <= Lines(Peer(d))'
          /\ \A n \in 1 .. Got(d)' : heard'[d][n] = said'[Peer(d)][n]
    BY <1>1, <1>2, <1>7, PeerFacts DEF HeardInv, TextStep
  <2>2. ASSUME pc'[Client] = "welcome"
        PROVE  /\ Got(Client)' = IF io'[Client].call = "none" /\ io'[Client].res > 0 THEN 1 ELSE 0
               /\ io'[Client].call = "none" /\ io'[Client].res < 0 =>
                    sock'[Client].err = "dead" /\ sock'[Client].rcv = <<>>
    <3>1. CASE e = Client
      BY <1>2, <1>4, <1>5, <1>7, <1>8, <2>2, <3>1
    <3>2. CASE p = Client
      BY <1>1, <1>3, <1>4, <1>5, <1>7, <1>8, <2>2, <3>2 DEF HeardInv
    <3> QED
      BY <1>3, <3>1, <3>2
  <2>3. GaveUp(Client)' => sock'[Client].err = "dead" /\ sock'[Client].rcv = <<>> /\ missed'
    BY <1>1, <1>2, <1>3, <1>5, <1>7, <1>8, TheEnds DEF HeardInv, GaveUp, TextStep
  <2> QED
    BY <1>1, <1>2, <1>7, <1>8, <2>1, <2>2, <2>3, TheEnds DEF HeardInv, TextStep
<1>11. PutInv'
  BY <1>1, <1>2, <1>3, <1>4, <1>7, <1>8 DEF PutInv, PlacesInv, TextStep, Fits, LineEnd
<1>12. GetInv'
  <2>1. ASSUME NEW d \in Ends, io'[d].call = "get", ~GaveUp(d)'
        PROVE  /\ Fits(Script(Peer(d)), Spoken(Peer(d)), Heard(d), io[d].buf)'
               /\ Heard(d)' + Filled(d)' < LineEnd(Peer(d), Got(d) + 1)'
    <3>1. d = p
      BY <1>3, <1>4, <2>1
    <3> QED
      BY <1>1, <1>3, <1>4, <1>7, <1>8, <2>1, <3>1, PeerFacts DEF GetInv, GaveUp, LineEnd, Fits
  <2>2. pc'[Server] = "order" => Fits(Script(Client), Spoken(Client), 0, io[Server].buf)'
    BY <1>1, <1>3, <1>4, <1>7, <1>8, TheEnds DEF GetInv, Fits
  <2>3. pc'[Server] = "order" /\ io'[Server].call = "get" => Got(Server)' = 0
    BY <1>1, <1>3, <1>4, <1>7, <1>8, TheEnds DEF GetInv
  <2> QED
    BY <2>1, <2>2, <2>3 DEF GetInv
<1>13. NoCtrl'
  BY <1>1, <1>3, <1>5, <1>6, <1>7 DEF NoCtrl, Plain
<1>14. Streams'
  <2>1. Kept(e)
    BY <1>1, <1>3, <1>4, <1>7, <1>8, TheEnds
       DEF Kept, Follows, GaveUp, Ready, Pending, Spoken, LineEnd, p
  <2>2. Kept(p)
    BY <1>1, <1>3, <1>4, <1>7, <1>8 DEF Kept, Follows, GaveUp, Ready, Pending, Spoken, LineEnd
  <2>3. Stream(e)'
    BY <1>1, <1>5, <2>1, StreamKept DEF Streams
  <2>4. Stream(p)'
    BY <1>1, <1>3, <1>5, <1>7, <2>2, StreamKept DEF Streams
  <2> QED
    BY <1>3, <2>3, <2>4 DEF Streams
<1>15. Clean'
  <2>1. \A d \in Ends : Quiet(d)' => Quiet(d)
    BY <1>2, <1>3, <1>7, PeerFacts, TheEnds DEF Quiet
  <2> QED
    BY <1>1, <1>3, <1>5, <2>1 DEF Clean
<1>16. Answered'
  <2>1. Served' => Served
    BY <1>3, <1>4, <1>7, <1>8 DEF Served
  <2>2. ASSUME Failed', ~Failed
        PROVE  Gone(Server) /\ ~Served
    <3>1. /\ e = Client /\ p = Server /\ io[e].call = "get" /\ ~GaveUp(e)
      BY <1>3, <1>4, <1>7, <1>8, <2>2, TheEnds DEF Failed, GaveUp
    <3>2. PICK first \in Nat : StreamAt(e, first)
      BY <1>1, StreamIs DEF Streams
    <3>3. Len(sock[e].rcv) = 0 /\ Follows(e) /\ Pending(e) = Filled(e)
      BY <1>2, <3>1 DEF Follows, Pending
    <3>4. Sent(p) = Heard(e) + Filled(e)
      BY <1>2, <1>6, <3>2, <3>3 DEF StreamAt, p
    <3>5. Heard(e) + Filled(e) < LineEnd(p, Got(e) + 1)
      BY <1>1, <3>1 DEF GetInv, p
    <3>6. LineEnd(p, Got(e) + 1) \in 0 .. 7
      BY DEF LineEnd
    <3>7. Served => Sent(Server) = 7
      <4>1. Lines(Server) = 2 => Spoken(Server) = 7
        BY TheEnds DEF Spoken, LineEnd
      <4> QED
        BY <1>1, <4>1 DEF Answered, Served, Sent
    <3>8. Heard(e) \in 0 .. 7 /\ Filled(e) \in Nat
      BY <1>1, Numbers
    <3> QED
      BY <1>6, <3>1, <3>4, <3>5, <3>6, <3>7, <3>8, TheEnds
  <2> QED
    BY <1>1, <1>7, <2>1, <2>2, TheEnds DEF Answered
<1>17. SigpipeIsNarrow'
  <2>1. piped \subseteq Ends
    BY <1>1 DEF Types
  <2> QED
    BY <1>1, <1>2, <1>3, <1>4, <2>1 DEF SigpipeIsNarrow, TextStep
<1> QED
  BY <1>2, <1>7, <1>9, <1>10, <1>11, <1>12, <1>13, <1>14, <1>15, <1>16, <1>17 DEF SessionInv

LEMMA FitsSplit ==
  ASSUME NEW text, NEW n \in Nat, NEW i \in Nat,
         NEW c \in Seq(Bytes), NEW k \in 1 .. Len(c),
         NEW a \in Seq(Bytes), Len(a) = k, \A j \in 1 .. k : a[j] = c[j],
         NEW b \in Seq(Bytes), Len(b) = Len(c) - k,
         \A j \in 1 .. Len(c) - k : b[j] = c[k + j],
         Fits(text, n, i, c)
  PROVE  Fits(text, n, i, a) /\ Fits(text, n, i + k, b)
<1> DEFINE m == Len(c)
<1>1. m \in Nat /\ k \in Nat /\ k <= m
  BY LenProperties
<1>2. i + m <= n /\ \A j \in 1 .. m : c[j] = text[i + j]
  BY DEF Fits
<1>3. Len(a) = k /\ Len(b) = m - k /\ \A j \in 1 .. m - k : b[j] = c[k + j]
  OBVIOUS
<1> HIDE DEF m
<1>4. Fits(text, n, i, a)
  <2>1. i + Len(a) <= n
    BY <1>1, <1>2, <1>3
  <2>2. ASSUME NEW j \in 1 .. Len(a)
        PROVE  a[j] = text[i + j]
    <3>1. j \in 1 .. k /\ j \in 1 .. m
      BY <1>1, <1>3
    <3>2. a[j] = c[j] /\ c[j] = text[i + j]
      BY <1>2, <3>1
    <3> QED
      BY <3>2
  <2> QED
    BY <2>1, <2>2 DEF Fits
<1>5. ASSUME NEW j \in 1 .. m - k
      PROVE  b[j] = text[(i + k) + j]
  <2> DEFINE l == k + j
  <2>1. l \in 1 .. m /\ i + l = (i + k) + j
    BY <1>1
  <2>2. b[j] = c[l]
    BY <1>3
  <2> HIDE DEF l
  <2> QED
    BY <1>2, <2>1, <2>2
<1>6. Fits(text, n, i + k, b)
  <2>1. (i + k) + Len(b) <= n
    BY <1>1, <1>2, <1>3
  <2>2. ASSUME NEW j \in 1 .. Len(b)
        PROVE  b[j] = text[(i + k) + j]
    <3>1. j \in 1 .. m - k
      BY <1>3
    <3> QED
      BY <1>5, <3>1
  <2> QED
    BY <2>1, <2>2 DEF Fits
<1> QED
  BY <1>4, <1>6

LEMMA PutSomeKeeps ==
  ASSUME SessionInv, NEW e \in Ends, PutSome(e)
  PROVE  SessionInv'
<1> DEFINE p == Peer(e)
<1>1. /\ Types /\ PlacesInv /\ SaidInv /\ HeardInv /\ PutInv /\ GetInv
      /\ NoCtrl /\ Streams /\ Clean /\ Answered /\ SigpipeIsNarrow
  BY DEF SessionInv
<1>2. /\ io[e].call = "put" /\ sock[e].err = "none" /\ TextStep /\ heard' = heard
  BY DEF PutSome, TextStep
<1>3. /\ p \in Ends /\ p # e /\ p = Peer(e) /\ Peer(p) = e /\ \A d \in Ends : d = e \/ d = p
      /\ (e = Client /\ p = Server) \/ (e = Server /\ p = Client)
  BY PeerFacts, TheEnds
<1>4. PICK n \in 1 .. Len(io[e].rest) :
        LET rest == SubSeq(io[e].rest, n + 1, Len(io[e].rest))
            seg  == SubSeq(io[e].rest, 1, n)
        IN  /\ CallBecomes(e, Call(IF rest = <<>> THEN "none" ELSE "put", io[e].buf,
                               io[e].cap, rest, io[e].part \/ rest # <<>>, 1))
            /\ SockBecomes(p, Sock(Append(sock[p].wire, seg), sock[p].rcv,
                               sock[p].fin, sock[p].err, sock[p].open))
            /\ seg \in Seq(Bytes) /\ Len(seg) = n
            /\ \A k \in 1 .. n : seg[k] = io[e].rest[k]
            /\ rest \in Seq(Bytes) /\ Len(rest) = Len(io[e].rest) - n
            /\ \A k \in 1 .. Len(rest) : rest[k] = io[e].rest[n + k]
            /\ Types'
  BY <1>1, PutSomeFacts
<1> DEFINE rest == SubSeq(io[e].rest, n + 1, Len(io[e].rest))
           seg  == SubSeq(io[e].rest, 1, n)
<1>5. /\ seg \in Seq(Bytes) /\ Len(seg) = n /\ \A k \in 1 .. n : seg[k] = io[e].rest[k]
      /\ rest \in Seq(Bytes) /\ Len(rest) = Len(io[e].rest) - n
      /\ \A k \in 1 .. Len(io[e].rest) - n : rest[k] = io[e].rest[n + k]
      /\ Types'
  BY <1>4
<1>6. /\ CallBecomes(e, Call(IF rest = <<>> THEN "none" ELSE "put", io[e].buf,
                             io[e].cap, rest, io[e].part \/ rest # <<>>, 1))
      /\ SockBecomes(p, Sock(Append(sock[p].wire, seg), sock[p].rcv,
                             sock[p].fin, sock[p].err, sock[p].open))
  BY <1>4
<1> HIDE DEF p, rest, seg
<1>7. /\ io'[e].call = IF rest = <<>> THEN "none" ELSE "put"
      /\ io'[e].buf = io[e].buf /\ io'[e].rest = rest
      /\ (io'[e].part <=> io[e].part \/ rest # <<>>) /\ io'[e].res = 1 /\ io'[p] = io[p]
  <2> DEFINE part == io[e].part \/ rest # <<>>
  <2>1. CallBecomes(e, Call(IF rest = <<>> THEN "none" ELSE "put", io[e].buf,
                            io[e].cap, rest, part, 1))
    BY <1>6
  <2> HIDE DEF part
  <2>2. /\ io'[e].call = IF rest = <<>> THEN "none" ELSE "put"
        /\ io'[e].buf = io[e].buf /\ io'[e].rest = rest
        /\ io'[e].part = part /\ io'[e].res = 1 /\ io'[p] = io[p]
    BY <1>3, <2>1 DEF CallBecomes, Call
  <2> QED
    BY <2>2 DEF part
<1>8. /\ sock'[p].wire = Append(sock[p].wire, seg) /\ sock'[p].rcv = sock[p].rcv
      /\ sock'[p].fin = sock[p].fin /\ sock'[p].err = sock[p].err
      /\ sock'[p].open = sock[p].open /\ sock'[e] = sock[e]
  BY <1>3, <1>6 DEF SockBecomes, Sock
<1>9. /\ Left(e) \in Nat /\ n \in 1 .. Left(e) /\ Left(e)' = Left(e) - n
      /\ rest = <<>> <=> Left(e) = n
  <2>1. Left(e) \in Nat /\ n \in 1 .. Left(e) /\ Len(rest) = Left(e) - n
    BY <1>1, <1>5, Numbers DEF Left
  <2>2. rest = <<>> <=> Len(rest) = 0
    BY <1>5, EmptySeq
  <2> QED
    BY <1>7, <2>1, <2>2 DEF Left
<1>10. /\ \A d \in Ends :
            /\ Lines(d)' = Lines(d) /\ Script(d)' = Script(d)
            /\ Spoken(d)' = Spoken(d) /\ (Gone(d)' <=> Gone(d))
            /\ Got(d)' = Got(d) /\ Heard(d)' = Heard(d) /\ Filled(d)' = Filled(d)
       /\ SaidInv'
       /\ Left(p)' = Left(p) /\ Sent(p)' = Sent(p)
  BY <1>1, <1>2, <1>3, <1>7, TextFrame DEF Left, Sent, Got, Heard, Filled, LineEnd
<1>11. Sent(e) \in Nat /\ Sent(e)' = Sent(e) + n /\ Spoken(e) \in Nat
  <2>1. Spoken(e) \in 0 .. 7 /\ Sent(e) \in Int /\ Sent(e) >= 0
    BY <1>1, Numbers DEF PutInv
  <2> QED
    BY <1>9, <1>10, <2>1 DEF Sent
<1>12. /\ Fits(Script(e), Spoken(e), Sent(e), seg)
       /\ Fits(Script(e), Spoken(e), Sent(e) + n, rest)
  <2> DEFINE text == Script(e)
             all == io[e].rest
             s == Spoken(e)
             i == Sent(e)
  <2>1. all \in Seq(Bytes) /\ Fits(text, s, i, all) /\ s \in Nat /\ i \in Nat
    BY <1>1, <1>11, Fields DEF PutInv
  <2> HIDE DEF text, all, s, i
  <2>2. Fits(text, s, i, seg) /\ Fits(text, s, i + n, rest)
    BY <1>4, <1>5, <2>1, FitsSplit DEF all
  <2> QED
    BY <2>2 DEF text, s, i
<1>13. /\ e = Client => pc[Client] = "order"
       /\ e = Server => pc[Server] \in {"welcome", "goodbye"}
       /\ pc' = pc /\ ~Gone(e) /\ pc[Client] # "connect"
  BY <1>1, <1>2, TheEnds DEF PlacesInv, TextStep
<1>14. ~sock[p].fin /\ sock[p].err = "none" /\ Plain(sock[p].wire)
  BY <1>1, <1>3, <1>13 DEF NoCtrl
<1>15. PlacesInv'
  BY <1>1, <1>2, <1>3, <1>7, <1>8, <1>10, <1>13 DEF PlacesInv, TextStep
<1>16. HeardInv'
  <2>1. \A d \in Ends :
          /\ Got(d)' <= Lines(Peer(d))'
          /\ \A k \in 1 .. Got(d)' : heard'[d][k] = said'[Peer(d)][k]
    BY <1>1, <1>2, <1>10, PeerFacts DEF HeardInv, TextStep
  <2>2. ASSUME pc'[Client] = "welcome"
        PROVE  /\ Got(Client)' = IF io'[Client].call = "none" /\ io'[Client].res > 0 THEN 1 ELSE 0
               /\ io'[Client].call = "none" /\ io'[Client].res < 0 =>
                    sock'[Client].err = "dead" /\ sock'[Client].rcv = <<>>
    <3>1. p = Client
      BY <1>3, <1>13, <2>2
    <3> QED
      BY <1>1, <1>3, <1>7, <1>8, <1>10, <1>13, <2>2, <3>1 DEF HeardInv
  <2>3. GaveUp(Client)' => sock'[Client].err = "dead" /\ sock'[Client].rcv = <<>> /\ missed'
    BY <1>1, <1>2, <1>3, <1>8, <1>10, <1>13, TheEnds DEF HeardInv, GaveUp, TextStep
  <2> QED
    BY <1>1, <1>2, <1>10, <1>13, <2>1, <2>2, <2>3, TheEnds DEF HeardInv, TextStep
<1>17. PutInv'
  <2>1. ASSUME NEW d \in Ends
        PROVE  /\ Sent(d)' >= 0 /\ Fits(Script(d), Spoken(d), Sent(d), io[d].rest)'
               /\ Lines(d)' = 0 => Left(d)' = 0
               /\ io'[d].call = "put" =>
                    /\ Left(d)' > 0
                    /\ ~io'[d].part => Sent(d)' = LineEnd(d, Lines(d) - 1)'
    <3>1. CASE d = e
      <4>1. Sent(e)' >= 0 /\ Fits(Script(e), Spoken(e), Sent(e), io[e].rest)'
        BY <1>4, <1>7, <1>10, <1>11, <1>12, <3>1 DEF Fits
      <4>2. Lines(e)' # 0
        BY <1>1, <1>9, <1>10 DEF PutInv
      <4> QED
        BY <1>7, <1>9, <3>1, <4>1, <4>2
    <3>2. CASE d = p
      BY <1>1, <1>3, <1>7, <1>10, <3>2 DEF PutInv, Fits, LineEnd
    <3> QED
      BY <1>3, <3>1, <3>2
  <2>2. /\ pc'[Server] = "welcome" /\ io'[Server].call = "none" /\ io'[Server].res >= 0
             => Left(Server)' = 0
        /\ pc'[Server] \in {"order", "kitchen"} => Left(Server)' = 0
        /\ pc'[Server] = "goodbye" /\ io'[Server].call = "none" /\ io'[Server].res > 0
             => Left(Server)' = 0
    <3>1. CASE e = Server
      BY <1>7, <1>9, <1>13, <3>1
    <3>2. CASE p = Server
      BY <1>1, <1>7, <1>10, <1>13, <3>2 DEF PutInv
    <3> QED
      BY <1>3, <3>1, <3>2
  <2> QED
    BY <2>1, <2>2 DEF PutInv
<1>18. GetInv'
  <2>1. ASSUME NEW d \in Ends, io'[d].call = "get", ~GaveUp(d)'
        PROVE  /\ Fits(Script(Peer(d)), Spoken(Peer(d)), Heard(d), io[d].buf)'
               /\ Heard(d)' + Filled(d)' < LineEnd(Peer(d), Got(d) + 1)'
    <3>1. d = p
      BY <1>3, <1>7, <2>1
    <3> QED
      BY <1>1, <1>3, <1>7, <1>10, <1>13, <2>1, <3>1, PeerFacts DEF GetInv, GaveUp, LineEnd, Fits
  <2>2. pc'[Server] = "order" => Fits(Script(Client), Spoken(Client), 0, io[Server].buf)'
    BY <1>1, <1>3, <1>7, <1>10, <1>13, TheEnds DEF GetInv, Fits
  <2>3. pc'[Server] = "order" /\ io'[Server].call = "get" => Got(Server)' = 0
    BY <1>1, <1>3, <1>7, <1>10, <1>13, TheEnds DEF GetInv
  <2> QED
    BY <2>1, <2>2, <2>3 DEF GetInv
<1>19. NoCtrl'
  <2>1. Plain(sock'[p].wire)
    <3> DEFINE wire == sock[p].wire
    <3>1. wire \in Seq(Segments) /\ Plain(wire)
      BY <1>1, <1>3, <1>14, Fields
    <3>2. seg \in Segments /\ seg \notin Ctrl
      BY <1>5, CtrlIsNotData DEF Segments
    <3> HIDE DEF wire
    <3>3. Plain(Append(wire, seg))
      BY <3>1, <3>2, AppendProperties, LenProperties DEF Plain
    <3> QED
      BY <1>8, <3>3 DEF wire
  <2> QED
    BY <1>1, <1>3, <1>8, <1>10, <1>14, <2>1 DEF NoCtrl, Plain
<1>20. Streams'
  <2>1. Stream(p)'
    <3>1. Follows(p)' => Follows(p) /\ Pending(p)' = Pending(p)
      BY <1>3, <1>7, <1>10, <1>13 DEF Follows, GaveUp, Ready, Pending
    <3> QED
      <4>1. /\ Len(seg) > 0 /\ Sent(Peer(p))' = Sent(Peer(p)) + Len(seg)
            /\ Fits(Script(Peer(p)), Spoken(Peer(p)), Sent(Peer(p)), seg)
            /\ Spoken(Peer(p))' = Spoken(Peer(p)) /\ Script(Peer(p))' = Script(Peer(p))
        BY <1>3, <1>4, <1>5, <1>10, <1>11, <1>12
      <4>2. /\ Stream(p) /\ Heard(p)' = Heard(p) /\ (Gone(p)' <=> Gone(p))
            /\ ~sock'[p].fin /\ sock'[p].err = "none"
        BY <1>1, <1>3, <1>8, <1>10, <1>14 DEF Streams
      <4> QED
        BY <1>1, <1>3, <1>5, <1>8, <1>14, <3>1, <4>1, <4>2, StreamGrows
  <2>2. Stream(e)'
    <3>1. Kept(e)
      BY <1>2, <1>3, <1>7, <1>10, <1>13 DEF Kept, Follows, GaveUp, Ready, Pending, Spoken, LineEnd
    <3> QED
      BY <1>1, <1>3, <1>8, <1>10, <3>1, StreamKept DEF Streams
  <2> QED
    BY <1>3, <2>1, <2>2 DEF Streams
<1>21. Clean'
  <2>1. Heard(p) \in 0 .. 7 /\ Heard(p) <= Sent(e)
    BY <1>1, <1>3, StreamOrder DEF Streams
  <2>2. n \in Nat \ {0}
    BY <1>9
  <2>3. ~Quiet(e)'
    BY <1>3, <1>10, <1>11, <2>1, <2>2 DEF Quiet
  <2>4. sock'[p].err = "none" /\ \A k \in 1 .. Len(sock'[p].wire) : sock'[p].wire[k] # Rst
    BY <1>3, <1>10, <1>13, <1>19 DEF NoCtrl, Plain, Ctrl
  <2> QED
    BY <1>3, <2>3, <2>4 DEF Clean
<1>22. Answered'
  BY <1>1, <1>3, <1>7, <1>10, <1>13 DEF Answered, Served, Failed
<1>23. SigpipeIsNarrow'
  <2>1. piped \subseteq Ends
    BY <1>1 DEF Types
  <2> QED
    BY <1>1, <1>2, <1>3, <1>7, <2>1 DEF SigpipeIsNarrow, TextStep
<1> QED
  BY <1>5, <1>10, <1>15, <1>16, <1>17, <1>18, <1>19, <1>20, <1>21, <1>22, <1>23 DEF SessionInv

\* An end leaves: by itself, when no call is running, or it is killed.
LEMMA LeaveKeeps ==
  ASSUME SessionInv, NEW e \in Ends, NEW how \in {"closed", "killed"}, Leave(e, how),
         sock[e].open,
         \/ piped' = piped
         \/ piped' = piped \cup {e} /\ (io[e].part \/ (e = Client /\ missed)),
         how = "closed" =>
           /\ io[e].call = "none"
           /\ e = Client => \/ pc[Client] = "reply"
                            \/ pc[Client] = "welcome" /\ io[Client].res = 0
  PROVE  SessionInv'
<1> DEFINE p == Peer(e)
           last == IF sock[e].rcv # <<>> \/ pc[e] = "accept" THEN Rst ELSE Fin
<1>1. /\ Types /\ PlacesInv /\ SaidInv /\ HeardInv /\ PutInv /\ GetInv
      /\ NoCtrl /\ Streams /\ Clean /\ Answered /\ SigpipeIsNarrow
  BY DEF SessionInv
<1>2. /\ choice' = choice /\ order' = order /\ said' = said /\ heard' = heard
      /\ missed' = missed
  BY DEF Leave
<1>3. /\ p \in Ends /\ p # e /\ p = Peer(e) /\ Peer(p) = e /\ \A d \in Ends : d = e \/ d = p
      /\ (e = Client /\ p = Server) \/ (e = Server /\ p = Client)
  BY PeerFacts, TheEnds
<1>4. /\ sock'[e] = Sock(sock[e].wire, <<>>, sock[e].fin, sock[e].err, FALSE)
      /\ sock'[p] = IF sock[e].err # "none" THEN sock[p]
                    ELSE Sock(Append(sock[p].wire, last), sock[p].rcv, sock[p].fin,
                              sock[p].err, sock[p].open)
      /\ CallBecomes(e, Call("none", io[e].buf, io[e].cap, io[e].rest, io[e].part, io[e].res))
      /\ pc' = [pc EXCEPT ![e] = how]
      /\ Types'
  <2>1. piped' \subseteq Ends
    BY <1>1 DEF Types
  <2> QED
    BY <1>1, <2>1, LeaveFacts
<1>5. last \in Ctrl /\ (last = Rst => sock[e].rcv # <<>> \/ pc[e] = "accept")
  BY DEF Ctrl, Fin, Rst
<1> HIDE DEF p, last
<1>6. /\ io'[e].call = "none" /\ io'[e].buf = io[e].buf /\ io'[e].rest = io[e].rest
      /\ io'[e].part = io[e].part /\ io'[e].res = io[e].res /\ io'[p] = io[p]
  BY <1>3, <1>4 DEF CallBecomes, Call
<1>7. /\ sock'[e].wire = sock[e].wire /\ sock'[e].rcv = <<>>
      /\ sock'[e].fin = sock[e].fin /\ sock'[e].err = sock[e].err /\ ~sock'[e].open
  BY <1>4 DEF Sock
<1>8. /\ \/ sock'[p].wire = sock[p].wire
         \/ sock'[p].wire = Append(sock[p].wire, last)
      /\ sock'[p].rcv = sock[p].rcv
      /\ sock'[p].fin = sock[p].fin /\ sock'[p].err = sock[p].err
      /\ sock'[p].open = sock[p].open
  BY <1>4 DEF Sock
<1>9. /\ pc[Client] # "connect" /\ ~Gone(e)
      /\ e = Client => pc[Client] \in {"welcome", "order", "reply"}
      /\ e = Server => pc[Server] \in {"accept", "welcome", "order", "kitchen", "goodbye",
                                       "abandoned"}
  BY <1>1, TheEnds DEF PlacesInv, Gone
<1>10. pc'[e] = how /\ pc'[p] = pc[p] /\ Gone(e)' /\ (Gone(p)' <=> Gone(p))
  BY <1>1, <1>3, <1>4 DEF Types, Gone
<1>11. /\ \A d \in Ends :
            /\ Lines(d)' = Lines(d) /\ Script(d)' = Script(d) /\ Spoken(d)' = Spoken(d)
            /\ Got(d)' = Got(d) /\ Heard(d)' = Heard(d) /\ Filled(d)' = Filled(d)
            /\ Left(d)' = Left(d) /\ Sent(d)' = Sent(d)
            /\ Gone(d) => Gone(d)'
       /\ \A n : Line(Client, n)' = Line(Client, n) /\ Line(Server, n)' = Line(Server, n)
  BY <1>2, <1>3, <1>6, <1>10
     DEF Lines, Script, Spoken, Got, Heard, Filled, Left, Sent, LineEnd, Line
<1>12. PlacesInv'
  <2>1. \A d \in Ends :
          /\ sock'[d].open <=> pc'[Client] # "connect" /\ ~Gone(d)'
          /\ ~sock'[d].open => sock'[d].rcv = <<>> /\ io'[d].call = "none"
          /\ pc'[Client] = "connect" => sock'[d].wire = <<>>
          /\ d \in piped' => Gone(d)'
    BY <1>1, <1>3, <1>6, <1>7, <1>8, <1>9, <1>10 DEF PlacesInv
  <2>2. CASE e = Client
    BY <1>1, <1>3, <1>6, <1>9, <1>10, <2>1, <2>2 DEF PlacesInv
  <2>3. CASE e = Server
    BY <1>1, <1>3, <1>6, <1>9, <1>10, <2>1, <2>3 DEF PlacesInv
  <2> QED
    BY <1>3, <2>2, <2>3
<1>13. SaidInv'
  <2>1. \A d \in Ends : \A n \in 1 .. Lines(d)' : said'[d][n] = Line(d, n)'
    BY <1>1, <1>2, <1>11, TheEnds DEF SaidInv
  <2>2. CASE e = Client
    BY <1>1, <1>2, <1>3, <1>9, <1>10, <1>11, <2>1, <2>2 DEF SaidInv
  <2>3. CASE e = Server
    BY <1>1, <1>2, <1>3, <1>9, <1>10, <1>11, <2>1, <2>3 DEF SaidInv
  <2> QED
    BY <1>3, <2>2, <2>3
<1>14. HeardInv'
  <2>1. \A d \in Ends :
          /\ Got(d)' <= Lines(Peer(d))'
          /\ \A k \in 1 .. Got(d)' : heard'[d][k] = said'[Peer(d)][k]
    BY <1>1, <1>2, <1>11, PeerFacts DEF HeardInv
  <2>2. choice' # NoBurger /\ ~Gone(Server)' => Got(Client)' > 0
    BY <1>1, <1>2, <1>11, TheEnds DEF HeardInv
  <2>3. CASE e = Client
    BY <1>1, <1>3, <1>10, <1>11, <2>1, <2>2, <2>3 DEF HeardInv, GaveUp
  <2>4. CASE e = Server
    <3>1. pc'[Client] = "welcome" =>
            /\ Got(Client)' = IF io'[Client].call = "none" /\ io'[Client].res > 0 THEN 1 ELSE 0
            /\ io'[Client].call = "none" /\ io'[Client].res < 0 =>
                 sock'[Client].err = "dead" /\ sock'[Client].rcv = <<>>
      BY <1>1, <1>3, <1>6, <1>8, <1>10, <1>11, <2>4 DEF HeardInv
    <3>2. GaveUp(Client)' => sock'[Client].err = "dead" /\ sock'[Client].rcv = <<>> /\ missed'
      BY <1>1, <1>2, <1>3, <1>8, <1>10, <1>11, <2>4 DEF HeardInv, GaveUp
    <3>3. pc'[Server] \notin {"accept", "welcome"}
      BY <1>10, <2>4
    <3>4. /\ pc'[Client] = "connect" => Got(Client)' = 0
          /\ pc'[Client] = "order" => Got(Client)' <= 1
      BY <1>1, <1>3, <1>10, <1>11, <2>4 DEF HeardInv
    <3> QED
      BY <2>1, <2>2, <3>1, <3>2, <3>3, <3>4 DEF HeardInv
  <2> QED
    BY <1>3, <2>3, <2>4
<1>15. PutInv'
  <2>1. ASSUME NEW d \in Ends
        PROVE  /\ Sent(d)' >= 0 /\ Fits(Script(d), Spoken(d), Sent(d), io[d].rest)'
               /\ Lines(d)' = 0 => Left(d)' = 0
               /\ io'[d].call = "put" =>
                    /\ Left(d)' > 0
                    /\ ~io'[d].part => Sent(d)' = LineEnd(d, Lines(d) - 1)'
    BY <1>1, <1>3, <1>6, <1>11 DEF PutInv, Fits, LineEnd
  <2> QED
    BY <1>1, <1>3, <1>6, <1>10, <1>11, <2>1 DEF PutInv
<1>16. GetInv'
  <2>1. ASSUME NEW d \in Ends, io'[d].call = "get", ~GaveUp(d)'
        PROVE  /\ Fits(Script(Peer(d)), Spoken(Peer(d)), Heard(d), io[d].buf)'
               /\ Heard(d)' + Filled(d)' < LineEnd(Peer(d), Got(d) + 1)'
    <3>1. d = p
      BY <1>3, <1>6, <2>1
    <3> QED
      BY <1>1, <1>3, <1>6, <1>10, <1>11, <2>1, <3>1 DEF GetInv, GaveUp, LineEnd, Fits
  <2>2. pc'[Server] = "order" => Fits(Script(Client), Spoken(Client), 0, io[Server].buf)'
    BY <1>1, <1>3, <1>6, <1>10, <1>11 DEF GetInv, Fits
  <2>3. pc'[Server] = "order" /\ io'[Server].call = "get" => Got(Server)' = 0
    BY <1>1, <1>3, <1>6, <1>10, <1>11 DEF GetInv
  <2> QED
    BY <2>1, <2>2, <2>3 DEF GetInv
<1>17. NoCtrl'
  BY <1>1, <1>3, <1>7, <1>10 DEF NoCtrl, Plain
<1>18. Streams'
  <2>1. Stream(e)'
    <3>1. ~Follows(e)'
      BY <1>6, <1>10 DEF Follows, Ready
    <3>2. Still(e)
      BY <1>3, <1>11 DEF Still
    <3> QED
      BY <1>1, <1>7, <1>10, <3>1, <3>2, StreamLeft DEF Streams
  <2>2. Stream(p)'
    <3>1. Follows(p)' => Follows(p) /\ Pending(p)' = Pending(p)
      BY <1>3, <1>6, <1>10, <1>11 DEF Follows, GaveUp, Ready, Pending
    <3>2. Spoken(e) <= Spoken(e)
      BY <1>1, Numbers
    <3>3. Kept(p)
      BY <1>3, <1>11, <3>1, <3>2 DEF Kept
    <3> QED
      BY <1>1, <1>3, <1>5, <1>8, <3>3, StreamKept DEF Streams
  <2> QED
    BY <1>3, <2>1, <2>2 DEF Streams
<1>19. Clean'
  <2>1. ASSUME NEW d \in Ends, Quiet(d)' PROVE Quiet(d)
    BY <1>3, <1>11, <2>1, TheEnds DEF Quiet
  <2>2. ASSUME Quiet(p)' PROVE last # Rst
    <3>1. Sent(p) = Heard(e) /\ ~(p = Client /\ Lines(Server) = 0)
      BY <1>3, <1>10, <1>11, <2>2 DEF Quiet
    <3>2. sock[e].rcv = <<>>
      BY <1>1, <1>3, <3>1, StreamOrder DEF Streams
    <3>3. pc[e] # "accept"
      BY <1>1, <1>3, <1>9, <3>1 DEF SaidInv
    <3> QED
      BY <1>5, <3>2, <3>3
  <2>3. ASSUME Quiet(p)' PROVE \A k \in 1 .. Len(sock'[p].wire) : sock'[p].wire[k] # Rst
    <3> DEFINE wire == sock[p].wire
    <3>1. wire \in Seq(Segments) /\ \A k \in 1 .. Len(wire) : wire[k] # Rst
      BY <1>1, <1>3, <2>1, <2>3, Fields DEF Clean
    <3>2. last # Rst /\ last \in Segments
      BY <1>5, <2>2, <2>3 DEF Segments
    <3>3. sock'[p].wire = wire \/ sock'[p].wire = Append(wire, last)
      BY <1>8
    <3> HIDE DEF wire
    <3>4. \A k \in 1 .. Len(Append(wire, last)) : Append(wire, last)[k] # Rst
      BY <3>1, <3>2, AppendProperties, LenProperties
    <3> QED
      BY <3>1, <3>3, <3>4
  <2> QED
    BY <1>1, <1>3, <1>7, <1>8, <2>1, <2>3 DEF Clean
<1>20. Answered'
  <2>1. CASE e = Server
    <3>1. Served' => Left(Server)' = 0
      BY <1>1, <1>6, <1>9, <1>10, <1>11, <2>1, TheEnds DEF Served, PutInv, SaidInv
    <3>2. ~Failed'
      BY <1>1, <1>3, <1>6, <1>9, <1>10, <1>11, <2>1 DEF Answered, Failed
    <3> QED
      BY <3>1, <3>2 DEF Answered
  <2>2. CASE e = Client
    <3>1. Served' <=> Served
      BY <1>3, <1>6, <1>10, <1>11, <2>2 DEF Served
    <3>2. Failed' => Failed
      BY <1>1, <1>6, <1>9, <1>10, <1>11, <2>2 DEF Failed, HeardInv
    <3> QED
      BY <1>1, <1>3, <1>10, <1>11, <2>2, <3>1, <3>2 DEF Answered
  <2> QED
    BY <1>3, <2>1, <2>2
<1>21. SigpipeIsNarrow'
  <2>1. piped \subseteq Ends
    BY <1>1 DEF Types
  <2>2. \A d \in Ends : io'[d].part <=> io[d].part
    BY <1>3, <1>6
  <2> QED
    BY <1>1, <1>2, <2>1, <2>2 DEF SigpipeIsNarrow
<1> QED
  BY <1>4, <1>12, <1>13, <1>14, <1>15, <1>16, <1>17, <1>18, <1>19, <1>20, <1>21 DEF SessionInv

\* Data under way has not been heard; the end of the stream comes after it.
LEMMA DataComes ==
  ASSUME Types, NEW e \in Ends, Stream(e), sock[e].wire # <<>>, Head(sock[e].wire) \notin Ctrl
  PROVE  /\ Heard(e) < Sent(Peer(e))
         /\ ~Gone(e) => ~sock[e].fin /\ sock[e].err = "none"
<1> DEFINE p == Peer(e)
           wire == sock[e].wire
           seg == Head(wire)
           text == Script(p)
           n == Spoken(p)
           last == Sent(p)
           alive == ~Gone(e)
           l == Len(sock[e].rcv)
           m == Len(seg)
<1>1. PICK first \in Nat : StreamAt(e, first)
  BY StreamIs
<1>2. n \in Nat /\ wire \in Seq(Segments) /\ l \in Nat /\ last \in Int /\ Heard(e) \in 0 .. 7
  BY StreamNumbers
<1>3. /\ Slicing(wire, first, last, text, n, alive) /\ Heard(e) <= first - l
      /\ ~Gone(e) /\ (sock[e].fin \/ sock[e].err # "none") => first = last
  BY <1>1 DEF StreamAt
<1>4. seg \in Seq(Bytes) /\ m \in Nat /\ Tail(wire) \in Seq(Segments)
  <2>1. seg \in Segments /\ Tail(wire) \in Seq(Segments)
    BY <1>2, HeadTailProperties
  <2> QED
    BY <2>1, LenProperties DEF Segments
<1>5. m > 0 /\ Slicing(Tail(wire), first + m, last, text, n, alive)
  <2>1. wire # <<>> /\ seg \notin Ctrl
    OBVIOUS
  <2> HIDE DEF wire, text, n, last, alive
  <2> QED
    BY <1>2, <1>3, <2>1, SlicingTail
<1>6. first + m <= last
  <2> HIDE DEF wire, text, n, last, alive, m
  <2> QED
    BY <1>4, <1>5, SlicingOrder
<1> HIDE DEF l, m, last
<1>7. Heard(e) < last /\ first # last
  BY <1>2, <1>3, <1>4, <1>5, <1>6
<1> QED
  BY <1>3, <1>7 DEF last

LEMMA DeliverKeeps ==
  ASSUME SessionInv, NEW e \in Ends, Deliver(e)
  PROVE  SessionInv'
<1> DEFINE p == Peer(e)
           seg == Head(sock[e].wire)
           rest == Tail(sock[e].wire)
           up == sock[e].open /\ sock[e].err = "none"
<1>1. /\ Types /\ PlacesInv /\ SaidInv /\ HeardInv /\ PutInv /\ GetInv
      /\ NoCtrl /\ Streams /\ Clean /\ Answered /\ SigpipeIsNarrow
  BY DEF SessionInv
<1>2. TextStep /\ io' = io /\ heard' = heard
  BY DEF Deliver, TextStep
<1>3. /\ p \in Ends /\ p # e /\ p = Peer(e) /\ Peer(p) = e /\ \A d \in Ends : d = e \/ d = p
      /\ (e = Client /\ p = Server) \/ (e = Server /\ p = Client)
  BY PeerFacts, TheEnds
<1>4. /\ sock[e].wire # <<>> /\ Types'
      /\ \/ /\ seg = Fin /\ sock'[p] = sock[p]
            /\ sock'[e] = Sock(rest, sock[e].rcv, sock[e].fin \/ up, sock[e].err, sock[e].open)
         \/ /\ seg = Rst /\ up /\ sock'[p] = sock[p]
            /\ sock'[e] = Sock(rest, sock[e].rcv, sock[e].fin,
                 IF sock[e].fin THEN "dead" ELSE "reset", sock[e].open)
         \/ /\ seg = Rst /\ ~up /\ sock'[p] = sock[p]
            /\ sock'[e] = Sock(rest, sock[e].rcv, sock[e].fin, sock[e].err, sock[e].open)
         \/ /\ seg \in Seq(Bytes) \ Ctrl /\ up /\ sock'[p] = sock[p]
            /\ sock'[e] = Sock(rest, sock[e].rcv \o seg, sock[e].fin, sock[e].err, sock[e].open)
         \/ /\ seg \in Seq(Bytes) \ Ctrl /\ ~up
            /\ sock'[e] = Sock(rest, sock[e].rcv, sock[e].fin, sock[e].err, sock[e].open)
            /\ sock'[p] = Sock(Append(sock[p].wire, Rst), sock[p].rcv, sock[p].fin,
                               sock[p].err, sock[p].open)
  BY <1>1, DeliverFacts
<1>5. /\ sock[e].wire \in Seq(Segments) /\ sock[e].wire # <<>>
      /\ seg = sock[e].wire[1] /\ Len(sock[e].wire) \in Nat /\ 1 \in 1 .. Len(sock[e].wire)
      /\ Len(rest) \in Nat
      /\ \A k \in 1 .. Len(rest) :
           k + 1 \in 1 .. Len(sock[e].wire) /\ rest[k] = sock[e].wire[k + 1]
      /\ seg \in Segments
  <2> DEFINE wire == sock[e].wire
  <2>1. wire \in Seq(Segments) /\ wire # <<>>
    BY <1>1, <1>4, Fields
  <2> HIDE DEF wire
  <2>2. /\ Head(wire) \in Segments /\ Head(wire) = wire[1]
        /\ Len(wire) \in Nat \ {0} /\ Len(Tail(wire)) = Len(wire) - 1
        /\ \A k \in 1 .. Len(Tail(wire)) : Tail(wire)[k] = wire[k + 1]
    BY <2>1, HeadTailProperties, LenProperties, EmptySeq
  <2> QED
    BY <2>1, <2>2 DEF wire
<1>6. Fin \in Ctrl /\ Rst \in Ctrl /\ Fin # Rst
  BY DEF Ctrl, Fin, Rst
<1> HIDE DEF p, seg, rest, up
<1>7. /\ sock'[e].wire = rest /\ sock'[e].open = sock[e].open
      /\ sock'[p].rcv = sock[p].rcv /\ sock'[p].fin = sock[p].fin
      /\ sock'[p].err = sock[p].err /\ sock'[p].open = sock[p].open
  BY <1>4 DEF Sock
\* What becomes of the segment.
<1>8. /\ seg \in Ctrl => sock'[e].rcv = sock[e].rcv /\ sock'[p].wire = sock[p].wire
      /\ seg \notin Ctrl => sock'[e].fin = sock[e].fin /\ sock'[e].err = sock[e].err
      /\ seg \notin Ctrl /\ up =>
           sock'[e].rcv = sock[e].rcv \o seg /\ sock'[p].wire = sock[p].wire
      /\ seg \notin Ctrl /\ ~up =>
           sock'[e].rcv = sock[e].rcv /\ sock'[p].wire = Append(sock[p].wire, Rst)
      /\ sock[e].err # "none" => sock'[e].err = sock[e].err /\ sock'[e].rcv = sock[e].rcv
      /\ ~sock[e].open => sock'[e].rcv = sock[e].rcv
      /\ seg # Rst => sock'[e].err = sock[e].err
  BY <1>4, <1>6 DEF Sock, up
<1>9. pc' = pc /\ choice' = choice /\ order' = order /\ missed' = missed /\ piped' = piped
  BY <1>2 DEF TextStep
<1>10. /\ \A d \in Ends :
            /\ Lines(d)' = Lines(d) /\ Script(d)' = Script(d)
            /\ Spoken(d)' = Spoken(d) /\ (Gone(d)' <=> Gone(d))
            /\ Left(d)' = Left(d) /\ Sent(d)' = Sent(d)
            /\ Got(d)' = Got(d) /\ Heard(d)' = Heard(d) /\ Filled(d)' = Filled(d)
            /\ Pending(d)' = Pending(d) /\ (Follows(d)' <=> Follows(d))
       /\ SaidInv'
  <2>1. /\ \A d \in Ends :
             /\ Lines(d)' = Lines(d) /\ Script(d)' = Script(d)
             /\ Spoken(d)' = Spoken(d) /\ (Gone(d)' <=> Gone(d))
             /\ Got(d)' = Got(d) /\ Left(d)' = Left(d) /\ Filled(d)' = Filled(d)
        /\ SaidInv'
    BY <1>1, <1>2, TextFrame DEF Got, Left, Filled
  <2> QED
    BY <1>2, <1>9, <2>1 DEF Sent, Heard, LineEnd, Pending, Follows, GaveUp, Ready
<1>11. PlacesInv'
  BY <1>1, <1>2, <1>3, <1>4, <1>7, <1>8, <1>9, <1>10 DEF PlacesInv
<1>12. HeardInv'
  <2>1. \A d \in Ends :
          /\ Got(d)' <= Lines(Peer(d))'
          /\ \A k \in 1 .. Got(d)' : heard'[d][k] = said'[Peer(d)][k]
    BY <1>1, <1>2, <1>10, PeerFacts DEF HeardInv, TextStep
  <2>2. sock[Client].err = "dead" /\ sock[Client].rcv = <<>>
          => sock'[Client].err = "dead" /\ sock'[Client].rcv = <<>>
    BY <1>3, <1>7, <1>8
  <2>3. pc'[Client] = "welcome" =>
          /\ Got(Client)' = IF io'[Client].call = "none" /\ io'[Client].res > 0 THEN 1 ELSE 0
          /\ io'[Client].call = "none" /\ io'[Client].res < 0 =>
               sock'[Client].err = "dead" /\ sock'[Client].rcv = <<>>
    BY <1>1, <1>2, <1>9, <1>10, <2>2, TheEnds DEF HeardInv
  <2>4. GaveUp(Client)' => sock'[Client].err = "dead" /\ sock'[Client].rcv = <<>> /\ missed'
    BY <1>1, <1>2, <1>9, <1>10, <2>2, TheEnds DEF HeardInv, GaveUp
  <2> QED
    BY <1>1, <1>9, <1>10, <2>1, <2>3, <2>4, TheEnds DEF HeardInv
<1>13. PutInv'
  BY <1>1, <1>2, <1>9, <1>10, TheEnds DEF PutInv, Fits, LineEnd
<1>14. GetInv'
  <2>1. ASSUME NEW d \in Ends, io'[d].call = "get", ~GaveUp(d)'
        PROVE  /\ Fits(Script(Peer(d)), Spoken(Peer(d)), Heard(d), io[d].buf)'
               /\ Heard(d)' + Filled(d)' < LineEnd(Peer(d), Got(d) + 1)'
    BY <1>1, <1>2, <1>9, <1>10, <2>1, PeerFacts DEF GetInv, GaveUp, LineEnd, Fits
  <2> QED
    BY <1>1, <1>2, <1>9, <1>10, <2>1, TheEnds DEF GetInv, Fits
<1>15. seg \notin Ctrl => Heard(e) < Sent(p) /\ (~up => Gone(e))
  BY <1>1, <1>3, <1>4, <1>9, DataComes DEF Streams, PlacesInv, seg, up
<1>16. NoCtrl'
  <2>1. ASSUME ~Gone(p) PROVE ~sock'[e].fin /\ sock'[e].err = "none" /\ Plain(rest)
    BY <1>1, <1>3, <1>5, <1>8, <2>1 DEF NoCtrl, Plain
  <2>2. ASSUME ~Gone(e) PROVE sock'[p].wire = sock[p].wire
    BY <1>8, <1>15, <2>2
  <2> QED
    BY <1>1, <1>3, <1>7, <1>10, <2>1, <2>2 DEF NoCtrl, Plain
<1>17. Streams'
  <2>1. Stream(e)'
    <3>1. Still(e)
      BY <1>3, <1>10 DEF Still
    <3>2. seg \notin Ctrl /\ ~up =>
            /\ sock'[e].rcv = <<>> /\ sock[e].rcv = <<>> /\ Gone(e) /\ ~Follows(e)
      BY <1>1, <1>8, <1>15 DEF PlacesInv, Follows, Ready, Gone
    <3> QED
      BY <1>1, <1>3, <1>4, <1>5, <1>7, <1>8, <1>10, <3>1, <3>2, StreamDelivered
         DEF Streams, seg, rest
  <2>2. Stream(p)'
    <3>1. Spoken(e) <= Spoken(e)
      BY <1>1, Numbers
    <3>2. Kept(p)
      BY <1>3, <1>10, <3>1 DEF Kept
    <3> QED
      BY <1>1, <1>3, <1>6, <1>7, <1>8, <3>2, StreamKept DEF Streams
  <2> QED
    BY <1>3, <2>1, <2>2 DEF Streams
<1>18. Clean'
  <2>1. ASSUME NEW d \in Ends, Quiet(d)' PROVE Quiet(d)
    BY <1>3, <1>10, <2>1, PeerFacts, TheEnds DEF Quiet
  <2>2. ASSUME Quiet(e)'
        PROVE  /\ sock'[e].err = "none"
               /\ \A k \in 1 .. Len(sock'[e].wire) : sock'[e].wire[k] # Rst
    <3>1. sock[e].err = "none" /\ \A k \in 1 .. Len(sock[e].wire) : sock[e].wire[k] # Rst
      BY <1>1, <2>1, <2>2 DEF Clean
    <3> QED
      BY <1>5, <1>7, <1>8, <3>1
  <2>3. ASSUME Quiet(p)'
        PROVE  /\ sock'[p].err = "none"
               /\ \A k \in 1 .. Len(sock'[p].wire) : sock'[p].wire[k] # Rst
    <3>1. Sent(p) = Heard(e)
      BY <1>3, <2>1, <2>3 DEF Quiet
    <3>2. Heard(e) \in 0 .. 7
      BY <1>1, Numbers
    <3>3. seg \in Ctrl \/ up
      BY <1>15, <3>1, <3>2
    <3> QED
      BY <1>1, <1>3, <1>7, <1>8, <2>1, <2>3, <3>3 DEF Clean
  <2> QED
    BY <1>3, <2>2, <2>3 DEF Clean
<1>19. Answered'
  BY <1>1, <1>2, <1>9, <1>10, TheEnds DEF Answered, Served, Failed
<1>20. SigpipeIsNarrow'
  BY <1>1, <1>2, <1>9 DEF SigpipeIsNarrow
<1> QED
  BY <1>4, <1>10, <1>11, <1>12, <1>13, <1>14, <1>16, <1>17, <1>18, <1>19, <1>20 DEF SessionInv

(***************************************************************************)
(* The steps of the two programs.                                          *)
(***************************************************************************)
\* In such a step nothing moves through the sockets.
SameSocks ==
  \A d \in Ends : /\ sock'[d].wire = sock[d].wire /\ sock'[d].rcv = sock[d].rcv
                  /\ sock'[d].fin = sock[d].fin /\ sock'[d].err = sock[d].err

LEMMA SocksFrame ==
  ASSUME Types, Streams, NoCtrl, Clean, SameSocks,
         \A d \in Ends : Kept(d) /\ (Quiet(d)' => Quiet(d))
  PROVE  Streams' /\ NoCtrl' /\ Clean'
<1>1. \A d \in Ends : Gone(d) => Gone(d)'
  BY DEF Kept
<1>2. NoCtrl'
  BY <1>1, PeerFacts DEF NoCtrl, Plain, SameSocks
<1>3. Clean'
  BY DEF Clean, SameSocks
<1>4. Streams'
  BY StreamKept DEF Streams, SameSocks
<1> QED
  BY <1>2, <1>3, <1>4

LEMMA ConnectKeeps ==
  ASSUME SessionInv, Connect
  PROVE  SessionInv'
<1>1. /\ Types /\ PlacesInv /\ SaidInv /\ HeardInv /\ PutInv /\ GetInv
      /\ NoCtrl /\ Streams /\ Clean /\ Answered /\ SigpipeIsNarrow
  BY DEF SessionInv
<1>2. /\ Types' /\ pc[Client] = "connect" /\ said' = said /\ choice' = choice /\ order' = order
      /\ heard' = heard /\ missed' = missed /\ piped' = piped
  BY <1>1, ConnectFacts
<1>3. /\ pc[Server] = "accept" /\ choice = NoBurger /\ order = NoBurger
      /\ Lines(Server) = 0 /\ Lines(Client) = 0 /\ Got(Client) = 0 /\ Got(Server) = 0
      /\ \A d \in Ends : ~sock[d].open /\ io[d].call = "none" /\ sock[d].wire = <<>>
      /\ piped = {}
  BY <1>1, <1>2, TheEnds DEF PlacesInv, SaidInv, HeardInv, Types, Gone
<1>4. /\ SameSocks
      /\ \A d \in Ends : /\ io'[d].rest = io[d].rest /\ io'[d].part = io[d].part
                         /\ io'[d].res = io[d].res
      /\ io'[Server] = io[Server]
      /\ \/ /\ pc'[Client] = "welcome" /\ pc'[Server] = "accept"
            /\ \A d \in Ends : sock'[d].open
            /\ io'[Client].call = "get" /\ io'[Client].buf = <<>>
         \/ /\ pc'[Client] = "closed" /\ pc'[Server] = "closed"
            /\ sock' = sock /\ io' = io
  <2>1. CASE /\ \A e \in Ends : sock'[e] = Sock(sock[e].wire, sock[e].rcv, sock[e].fin,
                                                sock[e].err, TRUE)
             /\ pc' = [pc EXCEPT ![Client] = "welcome"]
             /\ CallBecomes(Client, Call("get", <<>>, io[Client].cap, io[Client].rest,
                                         io[Client].part, io[Client].res))
    <3>1. SameSocks /\ \A d \in Ends : sock'[d].open
      <4>1. ASSUME NEW d \in Ends
            PROVE  /\ sock'[d].wire = sock[d].wire /\ sock'[d].rcv = sock[d].rcv
                   /\ sock'[d].fin = sock[d].fin /\ sock'[d].err = sock[d].err
                   /\ sock'[d].open
        <5>1. sock'[d] = Sock(sock[d].wire, sock[d].rcv, sock[d].fin, sock[d].err, TRUE)
          BY <2>1
        <5> QED
          BY <5>1 DEF Sock
      <4> QED
        BY <4>1 DEF SameSocks
    <3>2. /\ \A d \in Ends : /\ io'[d].rest = io[d].rest /\ io'[d].part = io[d].part
                             /\ io'[d].res = io[d].res
          /\ io'[Server] = io[Server] /\ io'[Client].call = "get" /\ io'[Client].buf = <<>>
      BY <2>1, TheEnds DEF CallBecomes, Call
    <3>3. pc'[Client] = "welcome" /\ pc'[Server] = "accept"
      BY <1>1, <1>3, <2>1, TheEnds DEF Types
    <3> QED
      BY <3>1, <3>2, <3>3
  <2>2. CASE pc' = [e \in Ends |-> "closed"] /\ sock' = sock /\ io' = io
    BY <2>2, TheEnds DEF SameSocks
  <2> QED
    BY <1>1, <2>1, <2>2, ConnectFacts
<1>5. /\ \A d \in Ends :
           /\ Lines(d)' = Lines(d) /\ Script(d)' = Script(d) /\ Spoken(d)' = Spoken(d)
           /\ Got(d)' = Got(d) /\ Heard(d)' = Heard(d)
           /\ Left(d)' = Left(d) /\ Sent(d)' = Sent(d)
           /\ ~Gone(d)
      /\ \A n : Line(Client, n)' = Line(Client, n) /\ Line(Server, n)' = Line(Server, n)
  BY <1>2, <1>3, <1>4, TheEnds
     DEF Lines, Script, Spoken, Got, Heard, Left, Sent, LineEnd, Line, Gone
<1>6. PlacesInv'
  BY <1>1, <1>2, <1>3, <1>4, TheEnds DEF PlacesInv, Gone, SameSocks
<1>7. SaidInv'
  <2>1. \A d \in Ends : \A n \in 1 .. Lines(d)' : said'[d][n] = Line(d, n)'
    BY <1>3, <1>5, TheEnds
  <2> QED
    BY <1>2, <1>3, <1>4, <1>5, <2>1, TheEnds DEF SaidInv
<1>8. HeardInv'
  <2>1. \A d \in Ends :
          /\ Got(d)' <= Lines(Peer(d))'
          /\ \A k \in 1 .. Got(d)' : heard'[d][k] = said'[Peer(d)][k]
    BY <1>1, <1>2, <1>5, PeerFacts DEF HeardInv
  <2> QED
    BY <1>2, <1>3, <1>4, <1>5, <2>1, TheEnds DEF HeardInv, GaveUp
<1>9. PutInv'
  <2>1. ASSUME NEW d \in Ends
        PROVE  /\ Sent(d)' >= 0 /\ Fits(Script(d), Spoken(d), Sent(d), io[d].rest)'
               /\ Lines(d)' = 0 => Left(d)' = 0
               /\ io'[d].call # "put"
    BY <1>1, <1>3, <1>4, <1>5, TheEnds DEF PutInv, Fits
  <2> QED
    BY <1>4, <2>1 DEF PutInv
<1>10. GetInv'
  <2>1. ASSUME NEW d \in Ends, io'[d].call = "get", ~GaveUp(d)'
        PROVE  /\ Fits(Script(Peer(d)), Spoken(Peer(d)), Heard(d), io[d].buf)'
               /\ Heard(d)' + Filled(d)' < LineEnd(Peer(d), Got(d) + 1)'
    <3>1. d = Client /\ Peer(d) = Server /\ io'[d].buf = <<>> /\ Len(<<>>) = 0
      BY <1>3, <1>4, <2>1, TheEnds
    <3>2. Heard(d) = 0 /\ Heard(d)' = 0 /\ Filled(d)' = 0 /\ Spoken(Server)' = 0
      BY <1>3, <1>5, <3>1, TheEnds DEF Heard, Filled, LineEnd, Spoken
    <3>3. LineEnd(Peer(d), Got(d) + 1)' = 4
      BY <1>3, <1>5, <3>1, TheEnds DEF LineEnd
    <3> QED
      BY <3>1, <3>2, <3>3 DEF Fits
  <2> QED
    BY <1>4, <2>1 DEF GetInv
<1>11. Streams' /\ NoCtrl' /\ Clean'
  <2>1. ASSUME NEW d \in Ends
        PROVE  Kept(d) /\ (Quiet(d)' => Quiet(d))
    <3>1. Follows(d)' => Follows(d) /\ Pending(d)' = Pending(d)
      <4>1. CASE pc'[Client] = "welcome"
        <5>1. Follows(d)
          BY <1>2, <1>3, TheEnds DEF Follows, Ready, GaveUp
        <5>2. Pending(d)' = 0 /\ Pending(d) = 0
          BY <1>3, <1>4, <4>1, TheEnds DEF Pending, Filled
        <5> QED
          BY <5>1, <5>2
      <4>2. CASE pc'[Client] = "closed"
        BY <1>3, <1>4, <4>2, TheEnds DEF Follows, Ready
      <4>3. pc'[Client] \in {"welcome", "closed"}
        BY <1>4
      <4> QED
        BY <4>1, <4>2, <4>3
    <3>2. Peer(d) \in Ends /\ Spoken(Peer(d)) <= Spoken(Peer(d))
      BY <1>1, StreamNumbers
    <3>3. Kept(d)
      BY <1>5, <3>1, <3>2 DEF Kept
    <3>4. Quiet(d)' => Quiet(d)
      BY <1>5, PeerFacts, TheEnds DEF Quiet
    <3> QED
      BY <3>3, <3>4
  <2> QED
    BY <1>1, <1>4, <2>1, SocksFrame
<1>12. Answered'
  BY <1>2, <1>3, <1>4, <1>5, TheEnds DEF Answered, Served, Failed, Gone
<1>13. SigpipeIsNarrow'
  BY <1>2, <1>3 DEF SigpipeIsNarrow
<1> QED
  BY <1>2, <1>6, <1>7, <1>8, <1>9, <1>10, <1>11, <1>12, <1>13 DEF SessionInv

LEMMA ChooseKeeps ==
  ASSUME SessionInv, Choose
  PROVE  SessionInv'
<1>1. /\ Types /\ PlacesInv /\ SaidInv /\ HeardInv /\ PutInv /\ GetInv
      /\ NoCtrl /\ Streams /\ Clean /\ Answered /\ SigpipeIsNarrow
  BY DEF SessionInv
<1>2. /\ Types' /\ pc[Client] = "welcome" /\ io[Client].call = "none" /\ io[Client].res # 0
      /\ pc' = [pc EXCEPT ![Client] = "order"]
      /\ missed' = (missed \/ io[Client].res < 0)
      /\ sock' = sock /\ order' = order /\ heard' = heard /\ piped' = piped
      /\ choice' \in Burgers
      /\ CallBecomes(Client, Call("put", io[Client].buf, io[Client].cap, OrderLine(choice'),
                                  FALSE, io[Client].res))
      /\ said' = [said EXCEPT ![Client] = Append(said[Client], OrderLine(choice'))]
  BY <1>1, ChooseFacts
<1>3. /\ choice = NoBurger /\ order = NoBurger /\ choice' # NoBurger /\ ~Gone(Client)
      /\ Lines(Client) = 0 /\ Spoken(Client) = 0 /\ Left(Client) = 0 /\ Sent(Client) = 0
      /\ Got(Server) = 0 /\ Got(Client) = IF io[Client].res > 0 THEN 1 ELSE 0
      /\ pc[Server] \notin {"kitchen", "goodbye"}
      /\ Got(Client) = 0 => sock[Client].err = "dead" /\ sock[Client].rcv = <<>>
  <2>1. choice = NoBurger /\ order = NoBurger /\ choice' # NoBurger /\ Lines(Client) = 0
    BY <1>1, <1>2, BurgersAssumption DEF SaidInv
  <2>2. Left(Client) = 0 /\ Spoken(Client) = 0
    BY <1>1, <2>1, TheEnds DEF PutInv, Spoken, LineEnd
  <2>3. Got(Server) = 0
    BY <1>1, <2>1, TheEnds, Numbers DEF HeardInv
  <2>4. io[Client].res \in Int
    BY <1>1, TheEnds, Fields
  <2>5. /\ Got(Client) = IF io[Client].res > 0 THEN 1 ELSE 0
        /\ Got(Client) = 0 => sock[Client].err = "dead" /\ sock[Client].rcv = <<>>
    BY <1>1, <1>2, <2>4 DEF HeardInv
  <2> QED
    BY <1>1, <1>2, <2>1, <2>2, <2>3, <2>5 DEF Sent, Gone, SaidInv
<1>4. /\ io'[Client].call = "put" /\ io'[Client].rest = OrderLine(choice')
      /\ io'[Client].res = io[Client].res /\ ~io'[Client].part /\ io'[Server] = io[Server]
      /\ pc'[Client] = "order" /\ pc'[Server] = pc[Server]
      /\ said'[Client] = Append(said[Client], OrderLine(choice'))
      /\ said'[Server] = said[Server]
  BY <1>1, <1>2, TheEnds DEF CallBecomes, Call, Types
<1>5. /\ Lines(Client)' = 1 /\ said'[Client][1] = OrderLine(choice')
      /\ Lines(Server)' = Lines(Server)
  <2>1. said[Client] \in Seq(Texts) /\ Len(said[Client]) = 0 /\ OrderLine(choice') \in Texts
    BY <1>1, <1>2, <1>3, TheEnds DEF Types, Lines, Texts
  <2> QED
    BY <1>4, <2>1, AppendProperties DEF Lines
<1>6. /\ Left(Client)' = 3 /\ Spoken(Client)' = 3 /\ Sent(Client)' = 0
      /\ Fits(Script(Client), Spoken(Client), Sent(Client), io[Client].rest)'
  <2> DEFINE b == choice'
             line == OrderLine(b)
  <2>1. line = <<"n", b, NL>>
    BY OrderLineIs
  <2>2. Len(line) = 3 /\ \A k \in 1 .. 3 : line[k] = Script(Client)'[k]
    BY <2>1, TheEnds DEF Script
  <2> HIDE DEF line
  <2>3. Left(Client)' = 3 /\ Spoken(Client)' = 3
    BY <1>4, <1>5, <2>2, TheEnds DEF Left, Spoken, LineEnd, line
  <2>4. Sent(Client)' = 0
    BY <2>3 DEF Sent
  <2>5. \A k \in 1 .. 3 : line[k] = Script(Client)'[0 + k]
    BY <2>2
  <2> QED
    BY <1>4, <2>2, <2>3, <2>4, <2>5 DEF Fits, line
<1>7. /\ Script(Server)' = Script(Server) /\ Spoken(Server)' = Spoken(Server)
      /\ Left(Server)' = Left(Server) /\ Sent(Server)' = Sent(Server)
      /\ Filled(Server)' = Filled(Server) /\ (Gone(Server)' <=> Gone(Server))
      /\ \A d \in Ends : Got(d)' = Got(d) /\ Heard(d)' = Heard(d)
      /\ \A n : Line(Server, n)' = Line(Server, n)
  BY <1>2, <1>4, <1>5, TheEnds
     DEF Script, Spoken, Left, Sent, Filled, Gone, Got, Heard, LineEnd, Line
<1>8. PlacesInv'
  BY <1>1, <1>2, <1>4, <1>7, TheEnds DEF PlacesInv, Gone
<1>9. SaidInv'
  <2>1. \A d \in Ends : \A n \in 1 .. Lines(d)' : said'[d][n] = Line(d, n)'
    <3>1. ASSUME NEW n \in 1 .. Lines(Client)' PROVE said'[Client][n] = Line(Client, n)'
      <4>1. n = 1
        BY <1>5
      <4> QED
        BY <1>5, <4>1 DEF Line
    <3>2. ASSUME NEW n \in 1 .. Lines(Server)' PROVE said'[Server][n] = Line(Server, n)'
      BY <1>1, <1>4, <1>5, <1>7, TheEnds DEF SaidInv
    <3> QED
      BY <3>1, <3>2, TheEnds
  <2> QED
    BY <1>1, <1>2, <1>3, <1>4, <1>5, <2>1 DEF SaidInv
<1>10. HeardInv'
  <2>1. \A d \in Ends :
          /\ Got(d)' <= Lines(Peer(d))'
          /\ \A k \in 1 .. Got(d)' : heard'[d][k] = said'[Peer(d)][k]
    BY <1>1, <1>2, <1>3, <1>4, <1>5, <1>7, TheEnds DEF HeardInv
  <2>2. GaveUp(Client)' => sock'[Client].err = "dead" /\ sock'[Client].rcv = <<>> /\ missed'
    <3>1. io[Client].res \in Int
      BY <1>1, TheEnds, Fields
    <3>2. io[Client].res < 0 => missed'
      BY <1>2
    <3> QED
      BY <1>2, <1>3, <1>7, <3>1, <3>2, TheEnds DEF GaveUp
  <2>3. ~Gone(Server)' => Got(Client)' > 0
    <3>1. Got(Client) = 0 => Failed
      BY <1>2 DEF Failed
    <3> QED
      BY <1>1, <1>3, <1>7, <3>1, TheEnds DEF Answered
  <2> QED
    BY <1>3, <1>4, <1>7, <2>1, <2>2, <2>3, TheEnds DEF HeardInv
<1>11. PutInv'
  <2>1. ASSUME NEW d \in Ends
        PROVE  /\ Sent(d)' >= 0 /\ Fits(Script(d), Spoken(d), Sent(d), io[d].rest)'
               /\ Lines(d)' = 0 => Left(d)' = 0
               /\ io'[d].call = "put" =>
                    /\ Left(d)' > 0
                    /\ ~io'[d].part => Sent(d)' = LineEnd(d, Lines(d) - 1)'
    <3>1. CASE d = Client
      BY <1>4, <1>5, <1>6, <3>1, TheEnds DEF LineEnd
    <3>2. CASE d = Server
      BY <1>1, <1>4, <1>5, <1>7, <3>2, TheEnds DEF PutInv, Fits, LineEnd
    <3> QED
      BY <3>1, <3>2, TheEnds
  <2> QED
    BY <1>1, <1>4, <1>7, <2>1 DEF PutInv
<1>12. GetInv'
  <2>1. ASSUME \/ io[Server].call = "get"
               \/ pc[Server] = "order"
        PROVE  Fits(Script(Client), Spoken(Client), 0, io[Server].buf)'
    <3>1. /\ Heard(Server) = 0 /\ Heard(Server) \in 0 .. 7 /\ ~GaveUp(Server)
          /\ Len(io[Server].buf) \in Nat
      BY <1>1, <1>3, TheEnds, Numbers DEF Heard, LineEnd, GaveUp, Filled
    <3>2. Fits(Script(Client), Spoken(Client), 0, io[Server].buf)
      BY <1>1, <2>1, <3>1, TheEnds DEF GetInv
    <3>3. Len(io[Server].buf) = 0
      BY <1>3, <3>1, <3>2 DEF Fits
    <3> QED
      BY <1>4, <1>6, <3>3 DEF Fits
  <2>2. ASSUME NEW d \in Ends, io'[d].call = "get", ~GaveUp(d)'
        PROVE  /\ Fits(Script(Peer(d)), Spoken(Peer(d)), Heard(d), io[d].buf)'
               /\ Heard(d)' + Filled(d)' < LineEnd(Peer(d), Got(d) + 1)'
    <3>1. d = Server /\ Heard(d)' = 0 /\ Peer(d) = Client
      BY <1>3, <1>4, <1>7, <2>2, TheEnds DEF Heard, LineEnd
    <3>2. Heard(d) + Filled(d) < LineEnd(Peer(d), Got(d) + 1)
      BY <1>1, <1>4, <2>2, <3>1, TheEnds DEF GetInv, GaveUp
    <3> QED
      BY <1>4, <1>7, <2>1, <2>2, <3>1, <3>2 DEF LineEnd
  <2> QED
    BY <1>1, <1>4, <1>7, <2>1, <2>2, TheEnds DEF GetInv
<1>13. Streams' /\ NoCtrl' /\ Clean'
  <2>1. Kept(Server)
    BY <1>3, <1>4, <1>6, <1>7, TheEnds DEF Kept, Follows, GaveUp, Ready, Pending
  <2>2. Kept(Client)
    <3>1. Follows(Client)' => Follows(Client) /\ Pending(Client)' = Pending(Client)
      <4>1. Follows(Client)' => Got(Client) > 0
        BY <1>3, <1>4, <1>7, TheEnds DEF Follows, GaveUp
      <4>2. Got(Client) > 0 => Follows(Client)
        BY <1>2, TheEnds DEF Follows, GaveUp, Ready
      <4>3. Pending(Client)' = 0 /\ Pending(Client) = 0
        BY <1>2, <1>4 DEF Pending
      <4> QED
        BY <4>1, <4>2, <4>3
    <3>2. Spoken(Server) <= Spoken(Server)
      <4>1. Spoken(Server) \in 0 .. 7
        BY <1>1, TheEnds, Numbers
      <4> QED
        BY <4>1
    <3> QED
      BY <1>3, <1>7, <3>1, <3>2, TheEnds DEF Kept
  <2>3. \A d \in Ends : Quiet(d)' => Quiet(d)
    BY <1>3, <1>5, <1>6, <1>7, TheEnds DEF Quiet
  <2>4. SameSocks
    BY <1>2 DEF SameSocks
  <2> QED
    BY <1>1, <2>1, <2>2, <2>3, <2>4, TheEnds, SocksFrame
<1>14. Answered'
  <2>1. Failed' => Failed
    BY <1>2, <1>4, <1>7, TheEnds DEF Failed
  <2> QED
    BY <1>1, <1>4, <1>5, <1>7, <2>1 DEF Answered, Served
<1>15. SigpipeIsNarrow'
  <2>1. \A d \in piped : d = Server
    BY <1>1, <1>3, TheEnds DEF PlacesInv, Types
  <2> QED
    BY <1>1, <1>2, <1>4, <2>1 DEF SigpipeIsNarrow
<1> QED
  BY <1>2, <1>8, <1>9, <1>10, <1>11, <1>12, <1>13, <1>14, <1>15 DEF SessionInv

LEMMA AwaitReplyKeeps ==
  ASSUME SessionInv, AwaitReply
  PROVE  SessionInv'
<1>1. /\ Types /\ PlacesInv /\ SaidInv /\ HeardInv /\ PutInv /\ GetInv
      /\ NoCtrl /\ Streams /\ Clean /\ Answered /\ SigpipeIsNarrow
  BY DEF SessionInv
<1>2. /\ Types' /\ pc[Client] = "order" /\ io[Client].call = "none"
      /\ pc' = [pc EXCEPT ![Client] = "reply"]
      /\ missed => missed'
      /\ sock' = sock /\ choice' = choice /\ order' = order /\ said' = said
      /\ heard' = heard /\ piped' = piped
      /\ CallBecomes(Client, Call("get", <<>>, io[Client].cap, io[Client].rest,
                                  io[Client].part, io[Client].res))
  BY <1>1, AwaitReplyFacts
<1>3. choice # NoBurger /\ ~Gone(Client) /\ Got(Client) <= 1 /\ Got(Client) \in Nat
  BY <1>1, <1>2, TheEnds, Numbers DEF SaidInv, HeardInv, Gone
<1>4. /\ io'[Client].call = "get" /\ io'[Client].buf = <<>>
      /\ \A d \in Ends : io'[d].rest = io[d].rest /\ io'[d].part = io[d].part
      /\ io'[Server] = io[Server]
      /\ pc'[Client] = "reply" /\ pc'[Server] = pc[Server]
  <2>1. /\ io'[Client].call = "get" /\ io'[Client].buf = <<>>
        /\ io'[Client].rest = io[Client].rest /\ io'[Client].part = io[Client].part
        /\ io'[Server] = io[Server]
    BY <1>2, TheEnds DEF CallBecomes, Call
  <2>2. pc'[Client] = "reply" /\ pc'[Server] = pc[Server]
    BY <1>1, <1>2, TheEnds DEF Types
  <2>3. \A d \in Ends : io'[d].rest = io[d].rest /\ io'[d].part = io[d].part
    BY <2>1, TheEnds
  <2> QED
    BY <2>1, <2>2, <2>3
<1>5. /\ \A d \in Ends :
           /\ Lines(d)' = Lines(d) /\ Script(d)' = Script(d) /\ Spoken(d)' = Spoken(d)
           /\ Got(d)' = Got(d) /\ Heard(d)' = Heard(d)
           /\ Left(d)' = Left(d) /\ Sent(d)' = Sent(d)
           /\ (Gone(d)' <=> Gone(d))
      /\ Filled(Client)' = 0 /\ Filled(Server)' = Filled(Server)
      /\ \A n : Line(Client, n)' = Line(Client, n) /\ Line(Server, n)' = Line(Server, n)
  <2>1. /\ \A d \in Ends :
             /\ Lines(d)' = Lines(d) /\ Script(d)' = Script(d) /\ Got(d)' = Got(d)
             /\ Left(d)' = Left(d)
        /\ \A n : Line(Client, n)' = Line(Client, n) /\ Line(Server, n)' = Line(Server, n)
    BY <1>2, <1>4, TheEnds DEF Lines, Script, Got, Left, Line
  <2>2. \A d \in Ends : Spoken(d)' = Spoken(d) /\ Heard(d)' = Heard(d)
    BY <2>1, TheEnds DEF Spoken, Heard, LineEnd
  <2>3. \A d \in Ends : Sent(d)' = Sent(d)
    BY <2>1, <2>2 DEF Sent
  <2>4. \A d \in Ends : Gone(d)' <=> Gone(d)
    BY <1>2, <1>4, TheEnds DEF Gone
  <2>5. Filled(Client)' = 0 /\ Filled(Server)' = Filled(Server)
    BY <1>4 DEF Filled
  <2> QED
    BY <2>1, <2>2, <2>3, <2>4, <2>5
<1>6. PlacesInv'
  <2>1. pc[Client] # "connect" /\ pc'[Client] # "connect" /\ sock[Client].open
    BY <1>1, <1>2, <1>3, <1>4, TheEnds DEF PlacesInv
  <2>2. ASSUME NEW d \in Ends
        PROVE  /\ sock'[d].open <=> pc'[Client] # "connect" /\ ~Gone(d)'
               /\ ~sock'[d].open => sock'[d].rcv = <<>> /\ io'[d].call = "none"
               /\ d \in piped' => Gone(d)'
    BY <1>1, <1>2, <1>4, <1>5, <2>1, TheEnds DEF PlacesInv
  <2> QED
    BY <1>1, <1>2, <1>4, <2>1, <2>2, TheEnds DEF PlacesInv
<1>7. SaidInv'
  <2>1. \A d \in Ends : \A n \in 1 .. Lines(d)' : said'[d][n] = Line(d, n)'
    BY <1>1, <1>2, <1>5, TheEnds DEF SaidInv
  <2> QED
    BY <1>1, <1>2, <1>3, <1>4, <1>5, <2>1, TheEnds DEF SaidInv
<1>8. HeardInv'
  <2>1. \A d \in Ends :
          /\ Got(d)' <= Lines(Peer(d))'
          /\ \A k \in 1 .. Got(d)' : heard'[d][k] = said'[Peer(d)][k]
    BY <1>1, <1>2, <1>5, TheEnds DEF HeardInv
  <2>2. GaveUp(Client)' => sock'[Client].err = "dead" /\ sock'[Client].rcv = <<>> /\ missed'
    BY <1>1, <1>2, <1>5, TheEnds DEF HeardInv, GaveUp
  <2>3. choice' # NoBurger /\ ~Gone(Server)' => Got(Client)' > 0
    BY <1>1, <1>2, <1>5, TheEnds DEF HeardInv
  <2> QED
    BY <1>1, <1>4, <1>5, <2>1, <2>2, <2>3, TheEnds DEF HeardInv
<1>9. PutInv'
  <2>1. ASSUME NEW d \in Ends
        PROVE  /\ Sent(d)' >= 0 /\ Fits(Script(d), Spoken(d), Sent(d), io[d].rest)'
               /\ Lines(d)' = 0 => Left(d)' = 0
               /\ io'[d].call = "put" =>
                    /\ Left(d)' > 0
                    /\ ~io'[d].part => Sent(d)' = LineEnd(d, Lines(d) - 1)'
    BY <1>1, <1>4, <1>5, TheEnds DEF PutInv, Fits, LineEnd
  <2> QED
    BY <1>1, <1>4, <1>5, <2>1, TheEnds DEF PutInv
<1>10. GetInv'
  <2>1. ASSUME NEW d \in Ends, io'[d].call = "get", ~GaveUp(d)'
        PROVE  /\ Fits(Script(Peer(d)), Spoken(Peer(d)), Heard(d), io[d].buf)'
               /\ Heard(d)' + Filled(d)' < LineEnd(Peer(d), Got(d) + 1)'
    <3>1. CASE d = Client
      <4>1. Got(Client) = 1
        BY <1>3, <1>4, <1>5, <2>1, <3>1, TheEnds DEF GaveUp
      <4>2. /\ Heard(Client)' = 4 /\ LineEnd(Peer(d), Got(d) + 1)' = 7
            /\ Spoken(Server)' >= 4
        <5>1. 1 <= Lines(Server) /\ Lines(Server) \in Nat
          BY <1>1, <4>1, TheEnds, Numbers DEF HeardInv
        <5> QED
          BY <1>5, <3>1, <4>1, <5>1, TheEnds DEF Heard, LineEnd, Spoken
      <4>3. io'[Client].buf = <<>> /\ Len(<<>>) = 0
        BY <1>4
      <4> QED
        BY <1>5, <3>1, <4>2, <4>3, TheEnds DEF Fits
    <3>2. CASE d = Server
      BY <1>1, <1>4, <1>5, <2>1, <3>2, TheEnds DEF GetInv, GaveUp, LineEnd, Fits
    <3> QED
      BY <3>1, <3>2, TheEnds
  <2> QED
    BY <1>1, <1>4, <1>5, <2>1, TheEnds DEF GetInv, Fits
<1>11. Streams' /\ NoCtrl' /\ Clean'
  <2>1. ASSUME NEW d \in Ends
        PROVE  Kept(d) /\ (Quiet(d)' => Quiet(d))
    <3>1. Follows(d)' => Follows(d) /\ Pending(d)' = Pending(d)
      <4>1. CASE d = Client
        <5>1. Follows(d)' => Got(Client) # 0
          BY <1>4, <1>5, <4>1, TheEnds DEF Follows, GaveUp
        <5>2. Got(Client) # 0 => Follows(d)
          BY <1>2, <4>1 DEF Follows, GaveUp, Ready
        <5>3. Pending(d)' = 0 /\ Pending(d) = 0
          BY <1>2, <1>4, <1>5, <4>1 DEF Pending
        <5> QED
          BY <5>1, <5>2, <5>3
      <4>2. CASE d = Server
        BY <1>4, <1>5, <4>2, TheEnds DEF Follows, Ready, GaveUp, Pending
      <4> QED
        BY <4>1, <4>2, TheEnds
    <3>2. Peer(d) \in Ends /\ Spoken(Peer(d)) <= Spoken(Peer(d))
      BY <1>1, StreamNumbers
    <3>3. Kept(d)
      BY <1>5, <3>1, <3>2 DEF Kept
    <3>4. Quiet(d)' => Quiet(d)
      BY <1>5, PeerFacts, TheEnds DEF Quiet
    <3> QED
      BY <3>3, <3>4
  <2>2. SameSocks
    BY <1>2 DEF SameSocks
  <2> QED
    BY <1>1, <2>1, <2>2, SocksFrame
<1>12. Answered'
  <2>1. Failed' => Failed
    BY <1>2, <1>4, <1>5, TheEnds DEF Failed
  <2> QED
    BY <1>1, <1>4, <1>5, <2>1, TheEnds DEF Answered, Served
<1>13. SigpipeIsNarrow'
  <2>1. piped \subseteq Ends
    BY <1>1 DEF Types
  <2> QED
    BY <1>1, <1>2, <1>4, <2>1 DEF SigpipeIsNarrow
<1> QED
  BY <1>2, <1>6, <1>7, <1>8, <1>9, <1>10, <1>11, <1>12, <1>13 DEF SessionInv

LEMMA AwaitOrderKeeps ==
  ASSUME SessionInv, AwaitOrder
  PROVE  SessionInv'
<1>1. /\ Types /\ PlacesInv /\ SaidInv /\ HeardInv /\ PutInv /\ GetInv
      /\ NoCtrl /\ Streams /\ Clean /\ Answered /\ SigpipeIsNarrow
  BY DEF SessionInv
<1>2. /\ Types' /\ pc[Server] = "welcome" /\ io[Server].call = "none" /\ io[Server].res >= 0
      /\ pc' = [pc EXCEPT ![Server] = "order"]
      /\ sock' = sock /\ choice' = choice /\ order' = order /\ said' = said
      /\ heard' = heard /\ missed' = missed /\ piped' = piped
      /\ CallBecomes(Server, Call("get", <<>>, io[Server].cap, io[Server].rest,
                                  io[Server].part, io[Server].res))
  BY <1>1, AwaitOrderFacts
<1>3. /\ order = NoBurger /\ ~Gone(Server) /\ Got(Server) = 0 /\ Left(Server) = 0
      /\ Lines(Server) = 1 /\ Heard(Server) = 0
  BY <1>1, <1>2, TheEnds DEF SaidInv, HeardInv, PutInv, Gone, Heard, LineEnd
<1>4. /\ io'[Server].call = "get" /\ io'[Server].buf = <<>>
      /\ \A d \in Ends : io'[d].rest = io[d].rest /\ io'[d].part = io[d].part
      /\ io'[Client] = io[Client]
      /\ pc'[Server] = "order" /\ pc'[Client] = pc[Client]
  <2>1. /\ io'[Server].call = "get" /\ io'[Server].buf = <<>>
        /\ io'[Server].rest = io[Server].rest /\ io'[Server].part = io[Server].part
        /\ io'[Client] = io[Client]
    BY <1>2, TheEnds DEF CallBecomes, Call
  <2>2. pc'[Server] = "order" /\ pc'[Client] = pc[Client]
    BY <1>1, <1>2, TheEnds DEF Types
  <2>3. \A d \in Ends : io'[d].rest = io[d].rest /\ io'[d].part = io[d].part
    BY <2>1, TheEnds
  <2> QED
    BY <2>1, <2>2, <2>3
<1>5. /\ \A d \in Ends :
           /\ Lines(d)' = Lines(d) /\ Script(d)' = Script(d) /\ Spoken(d)' = Spoken(d)
           /\ Got(d)' = Got(d) /\ Heard(d)' = Heard(d)
           /\ Left(d)' = Left(d) /\ Sent(d)' = Sent(d)
           /\ (Gone(d)' <=> Gone(d))
      /\ Filled(Server)' = 0 /\ Filled(Client)' = Filled(Client)
      /\ \A n : Line(Client, n)' = Line(Client, n) /\ Line(Server, n)' = Line(Server, n)
  <2>1. /\ \A d \in Ends :
             /\ Lines(d)' = Lines(d) /\ Script(d)' = Script(d) /\ Got(d)' = Got(d)
             /\ Left(d)' = Left(d)
        /\ \A n : Line(Client, n)' = Line(Client, n) /\ Line(Server, n)' = Line(Server, n)
    BY <1>2, <1>4, TheEnds DEF Lines, Script, Got, Left, Line
  <2>2. \A d \in Ends : Spoken(d)' = Spoken(d) /\ Heard(d)' = Heard(d)
    BY <2>1, TheEnds DEF Spoken, Heard, LineEnd
  <2>3. \A d \in Ends : Sent(d)' = Sent(d)
    BY <2>1, <2>2 DEF Sent
  <2>4. \A d \in Ends : Gone(d)' <=> Gone(d)
    BY <1>2, <1>4, TheEnds DEF Gone
  <2>5. Filled(Server)' = 0 /\ Filled(Client)' = Filled(Client)
    BY <1>4 DEF Filled
  <2> QED
    BY <2>1, <2>2, <2>3, <2>4, <2>5
<1>6. PlacesInv'
  <2>1. pc[Client] # "connect" /\ pc'[Client] # "connect" /\ sock[Server].open
    BY <1>1, <1>2, <1>3, <1>4, TheEnds DEF PlacesInv
  <2>2. ASSUME NEW d \in Ends
        PROVE  /\ sock'[d].open <=> pc'[Client] # "connect" /\ ~Gone(d)'
               /\ ~sock'[d].open => sock'[d].rcv = <<>> /\ io'[d].call = "none"
               /\ d \in piped' => Gone(d)'
    BY <1>1, <1>2, <1>4, <1>5, <2>1, TheEnds DEF PlacesInv
  <2> QED
    BY <1>1, <1>2, <1>4, <2>1, <2>2, TheEnds DEF PlacesInv
<1>7. SaidInv'
  <2>1. \A d \in Ends : \A n \in 1 .. Lines(d)' : said'[d][n] = Line(d, n)'
    BY <1>1, <1>2, <1>5, TheEnds DEF SaidInv
  <2> QED
    BY <1>1, <1>2, <1>3, <1>4, <1>5, <2>1, TheEnds DEF SaidInv
<1>8. HeardInv'
  <2>1. \A d \in Ends :
          /\ Got(d)' <= Lines(Peer(d))'
          /\ \A k \in 1 .. Got(d)' : heard'[d][k] = said'[Peer(d)][k]
    BY <1>1, <1>2, <1>5, TheEnds DEF HeardInv
  <2>2. GaveUp(Client)' => sock'[Client].err = "dead" /\ sock'[Client].rcv = <<>> /\ missed'
    BY <1>1, <1>2, <1>4, <1>5, TheEnds DEF HeardInv, GaveUp
  <2>3. choice' # NoBurger /\ ~Gone(Server)' => Got(Client)' > 0
    BY <1>1, <1>2, <1>5, TheEnds DEF HeardInv
  <2> QED
    BY <1>1, <1>2, <1>4, <1>5, <2>1, <2>2, <2>3, TheEnds DEF HeardInv
<1>9. PutInv'
  <2>1. ASSUME NEW d \in Ends
        PROVE  /\ Sent(d)' >= 0 /\ Fits(Script(d), Spoken(d), Sent(d), io[d].rest)'
               /\ Lines(d)' = 0 => Left(d)' = 0
               /\ io'[d].call = "put" =>
                    /\ Left(d)' > 0
                    /\ ~io'[d].part => Sent(d)' = LineEnd(d, Lines(d) - 1)'
    BY <1>1, <1>4, <1>5, TheEnds DEF PutInv, Fits, LineEnd
  <2> QED
    BY <1>3, <1>4, <1>5, <2>1, TheEnds DEF PutInv
<1>10. GetInv'
  <2>1. Fits(Script(Client), Spoken(Client), 0, io[Server].buf)'
    <3>1. io'[Server].buf = <<>> /\ Len(<<>>) = 0 /\ Spoken(Client) \in 0 .. 7
      BY <1>1, <1>4, TheEnds, Numbers
    <3> QED
      BY <1>5, <3>1, TheEnds DEF Fits
  <2>2. ASSUME NEW d \in Ends, io'[d].call = "get", ~GaveUp(d)'
        PROVE  /\ Fits(Script(Peer(d)), Spoken(Peer(d)), Heard(d), io[d].buf)'
               /\ Heard(d)' + Filled(d)' < LineEnd(Peer(d), Got(d) + 1)'
    <3>1. CASE d = Server
      <4>1. Heard(d)' = 0 /\ LineEnd(Peer(d), Got(d) + 1)' = 3
        BY <1>3, <1>5, <3>1, TheEnds DEF LineEnd
      <4> QED
        BY <1>5, <2>1, <3>1, <4>1, TheEnds
    <3>2. CASE d = Client
      BY <1>1, <1>4, <1>5, <2>2, <3>2, TheEnds DEF GetInv, GaveUp, LineEnd, Fits
    <3> QED
      BY <3>1, <3>2, TheEnds
  <2> QED
    BY <1>3, <1>5, <2>1, <2>2, TheEnds DEF GetInv
<1>11. Streams' /\ NoCtrl' /\ Clean'
  <2>1. ASSUME NEW d \in Ends
        PROVE  Kept(d) /\ (Quiet(d)' => Quiet(d))
    <3>1. Follows(d)' => Follows(d) /\ Pending(d)' = Pending(d)
      <4>1. CASE d = Server
        <5>1. Follows(d)
          BY <1>2, <4>1, TheEnds DEF Follows, GaveUp, Ready
        <5>2. Pending(d)' = 0 /\ Pending(d) = 0
          BY <1>2, <1>4, <1>5, <4>1 DEF Pending
        <5> QED
          BY <5>1, <5>2
      <4>2. CASE d = Client
        BY <1>4, <1>5, <4>2, TheEnds DEF Follows, Ready, GaveUp, Pending
      <4> QED
        BY <4>1, <4>2, TheEnds
    <3>2. Peer(d) \in Ends /\ Spoken(Peer(d)) <= Spoken(Peer(d))
      BY <1>1, StreamNumbers
    <3>3. Kept(d)
      BY <1>5, <3>1, <3>2 DEF Kept
    <3>4. Quiet(d)' => Quiet(d)
      BY <1>5, PeerFacts, TheEnds DEF Quiet
    <3> QED
      BY <3>3, <3>4
  <2>2. SameSocks
    BY <1>2 DEF SameSocks
  <2> QED
    BY <1>1, <2>1, <2>2, SocksFrame
<1>12. Answered'
  BY <1>1, <1>2, <1>4, <1>5, TheEnds DEF Answered, Served, Failed
<1>13. SigpipeIsNarrow'
  <2>1. piped \subseteq Ends
    BY <1>1 DEF Types
  <2> QED
    BY <1>1, <1>2, <1>4, <2>1 DEF SigpipeIsNarrow
<1> QED
  BY <1>2, <1>6, <1>7, <1>8, <1>9, <1>10, <1>11, <1>12, <1>13 DEF SessionInv

\* asprintf fails: the server's thread ends, its socket stays open.
LEMMA AbandonKeeps ==
  ASSUME SessionInv, Types', pc[Server] = "accept", sock[Server].open,
         pc' = [pc EXCEPT ![Server] = "abandoned"],
         UNCHANGED <<sock, io, choice, order, said, heard, missed, piped>>
  PROVE  SessionInv'
<1>1. /\ Types /\ PlacesInv /\ SaidInv /\ HeardInv /\ PutInv /\ GetInv
      /\ NoCtrl /\ Streams /\ Clean /\ Answered /\ SigpipeIsNarrow
  BY DEF SessionInv
<1>2. /\ sock' = sock /\ io' = io /\ choice' = choice /\ order' = order /\ said' = said
      /\ heard' = heard /\ missed' = missed /\ piped' = piped
  OBVIOUS
<1>3. /\ pc'[Server] = "abandoned" /\ pc'[Client] = pc[Client]
      /\ pc[Client] # "connect" /\ io[Server].call = "none" /\ Lines(Server) = 0
  <2>1. pc[Client] # "connect"
    BY <1>1, TheEnds DEF PlacesInv
  <2>2. pc'[Server] = "abandoned" /\ pc'[Client] = pc[Client]
    BY <1>1, TheEnds DEF Types
  <2>3. io[Server].call = "none"
    BY <1>1, TheEnds, Fields DEF PlacesInv
  <2>4. Lines(Server) = 0
    BY <1>1 DEF SaidInv
  <2> QED
    BY <2>1, <2>2, <2>3, <2>4
<1>4. /\ \A d \in Ends :
           /\ Lines(d)' = Lines(d) /\ Script(d)' = Script(d) /\ Spoken(d)' = Spoken(d)
           /\ Got(d)' = Got(d) /\ Heard(d)' = Heard(d)
           /\ Left(d)' = Left(d) /\ Sent(d)' = Sent(d) /\ Filled(d)' = Filled(d)
           /\ (Gone(d)' <=> Gone(d))
      /\ \A n : Line(Client, n)' = Line(Client, n) /\ Line(Server, n)' = Line(Server, n)
  BY <1>2, <1>3, TheEnds
     DEF Lines, Script, Spoken, Got, Heard, Left, Sent, Filled, LineEnd, Line, Gone
<1>5. PlacesInv'
  BY <1>1, <1>2, <1>3, <1>4, TheEnds DEF PlacesInv
<1>6. SaidInv'
  <2>1. \A d \in Ends : \A n \in 1 .. Lines(d)' : said'[d][n] = Line(d, n)'
    BY <1>1, <1>2, <1>4, TheEnds DEF SaidInv
  <2> QED
    BY <1>1, <1>2, <1>3, <1>4, <2>1, TheEnds DEF SaidInv
<1>7. HeardInv'
  BY <1>1, <1>2, <1>3, <1>4, TheEnds DEF HeardInv, GaveUp
<1>8. PutInv'
  BY <1>1, <1>2, <1>3, <1>4, TheEnds DEF PutInv, Fits, LineEnd
<1>9. GetInv'
  BY <1>1, <1>2, <1>3, <1>4, TheEnds DEF GetInv, Fits, LineEnd, GaveUp
<1>10. Streams' /\ NoCtrl' /\ Clean'
  <2>1. ASSUME NEW d \in Ends
        PROVE  Kept(d) /\ (Quiet(d)' => Quiet(d))
    <3>1. Follows(d)' => Follows(d) /\ Pending(d)' = Pending(d)
      BY <1>2, <1>3, <1>4, TheEnds DEF Follows, GaveUp, Ready, Pending
    <3>2. Peer(d) \in Ends /\ Spoken(Peer(d)) <= Spoken(Peer(d))
      BY <1>1, StreamNumbers
    <3>3. Kept(d)
      BY <1>4, <3>1, <3>2 DEF Kept
    <3>4. Quiet(d)' => Quiet(d)
      BY <1>4, PeerFacts, TheEnds DEF Quiet
    <3> QED
      BY <3>3, <3>4
  <2>2. SameSocks
    BY <1>2 DEF SameSocks
  <2> QED
    BY <1>1, <2>1, <2>2, SocksFrame
<1>11. Answered'
  BY <1>1, <1>2, <1>3, <1>4, TheEnds DEF Answered, Served, Failed
<1>12. SigpipeIsNarrow'
  BY <1>1, <1>2 DEF SigpipeIsNarrow
<1> QED
  BY <1>5, <1>6, <1>7, <1>8, <1>9, <1>10, <1>11, <1>12 DEF SessionInv

\* The first line to the client.
LEMMA WelcomeKeeps ==
  ASSUME SessionInv, Types', pc[Server] = "accept", sock[Server].open,
         UNCHANGED <<sock, choice, order, heard, missed, piped>>,
         pc' = [pc EXCEPT ![Server] = "welcome"],
         CallBecomes(Server, Call("put", io[Server].buf, io[Server].cap, Welcome,
                                  FALSE, io[Server].res)),
         said' = [said EXCEPT ![Server] = Append(said[Server], Welcome)]
  PROVE  SessionInv'
<1>1. /\ Types /\ PlacesInv /\ SaidInv /\ HeardInv /\ PutInv /\ GetInv
      /\ NoCtrl /\ Streams /\ Clean /\ Answered /\ SigpipeIsNarrow
  BY DEF SessionInv
<1>2. /\ sock' = sock /\ choice' = choice /\ order' = order
      /\ heard' = heard /\ missed' = missed /\ piped' = piped
  OBVIOUS
<1>3. /\ pc[Client] # "connect" /\ ~Gone(Server) /\ choice = NoBurger /\ order = NoBurger
      /\ Lines(Server) = 0 /\ Spoken(Server) = 0 /\ Left(Server) = 0 /\ Sent(Server) = 0
      /\ Got(Client) = 0 /\ Heard(Client) = 0 /\ Got(Server) = 0 /\ io[Server].call = "none"
      /\ pc[Client] \notin {"order", "reply"}
  <2>1. pc[Client] # "connect" /\ ~Gone(Server)
    BY <1>1, TheEnds DEF PlacesInv, Gone
  <2>2. order = NoBurger /\ Lines(Server) = 0
    BY <1>1 DEF SaidInv
  <2>3. Spoken(Server) = 0 /\ Left(Server) = 0 /\ Sent(Server) = 0
    BY <1>1, <2>2, TheEnds DEF PutInv, Spoken, LineEnd, Sent
  <2>4. Got(Client) = 0 /\ Heard(Client) = 0
    BY <1>1, <2>2, TheEnds, Numbers DEF HeardInv, Heard, LineEnd
  <2>5. Got(Server) = 0 /\ choice = NoBurger
    BY <1>1, <2>1, <2>4 DEF HeardInv
  <2>6. pc[Client] \notin {"order", "reply"}
    BY <1>1, <2>5 DEF SaidInv
  <2>7. io[Server].call = "none"
    BY <1>1, TheEnds, Fields DEF PlacesInv
  <2> QED
    BY <2>1, <2>2, <2>3, <2>4, <2>5, <2>6, <2>7
<1>4. /\ io'[Server].call = "put" /\ io'[Server].rest = Welcome /\ ~io'[Server].part
      /\ io'[Client] = io[Client]
      /\ pc'[Server] = "welcome" /\ pc'[Client] = pc[Client]
      /\ said'[Server] = Append(said[Server], Welcome) /\ said'[Client] = said[Client]
  <2>1. /\ io'[Server].call = "put" /\ io'[Server].rest = Welcome /\ ~io'[Server].part
        /\ io'[Client] = io[Client]
    BY TheEnds DEF CallBecomes, Call
  <2>2. /\ pc'[Server] = "welcome" /\ pc'[Client] = pc[Client]
        /\ said'[Server] = Append(said[Server], Welcome) /\ said'[Client] = said[Client]
    BY <1>1, TheEnds DEF Types
  <2> QED
    BY <2>1, <2>2
<1>5. /\ Lines(Server)' = 1 /\ said'[Server][1] = Welcome
      /\ Lines(Client)' = Lines(Client)
  <2>1. said[Server] \in Seq(Texts) /\ Len(said[Server]) = 0 /\ Welcome \in Texts
    BY <1>1, <1>3, TheEnds DEF Types, Lines, Texts
  <2> QED
    BY <1>4, <2>1, AppendProperties DEF Lines
<1>6. /\ Left(Server)' = 4 /\ Spoken(Server)' = 4 /\ Sent(Server)' = 0
      /\ Fits(Script(Server), Spoken(Server), Sent(Server), io[Server].rest)'
  <2> DEFINE line == Welcome
  <2>1. Len(line) = 4 /\ \A k \in 1 .. 4 : line[k] = Script(Server)'[0 + k]
    BY TheEnds DEF Script, Welcome
  <2> HIDE DEF line
  <2>2. Left(Server)' = 4 /\ Spoken(Server)' = 4
    BY <1>4, <1>5, <2>1, TheEnds DEF Left, Spoken, LineEnd, line
  <2>3. Sent(Server)' = 0
    BY <2>2 DEF Sent
  <2> QED
    BY <1>4, <2>1, <2>2, <2>3 DEF Fits, line
<1>7. /\ Script(Client)' = Script(Client) /\ Spoken(Client)' = Spoken(Client)
      /\ Left(Client)' = Left(Client) /\ Sent(Client)' = Sent(Client)
      /\ Script(Server)' = Script(Server) /\ Filled(Client)' = Filled(Client)
      /\ \A d \in Ends : /\ Got(d)' = Got(d) /\ Heard(d)' = Heard(d)
                         /\ (Gone(d)' <=> Gone(d))
      /\ \A n : Line(Client, n)' = Line(Client, n)
  BY <1>2, <1>3, <1>4, <1>5, TheEnds
     DEF Script, Spoken, Left, Sent, Filled, Gone, Got, Heard, LineEnd, Line
<1>8. PlacesInv'
  BY <1>1, <1>2, <1>3, <1>4, <1>7, TheEnds DEF PlacesInv
<1>9. SaidInv'
  <2>1. ASSUME NEW n \in 1 .. Lines(Server)' PROVE said'[Server][n] = Line(Server, n)'
    <3>1. n = 1
      BY <1>5
    <3> QED
      BY <1>5, <3>1, TheEnds DEF Line
  <2>2. ASSUME NEW n \in 1 .. Lines(Client)' PROVE said'[Client][n] = Line(Client, n)'
    BY <1>1, <1>4, <1>5, <1>7, TheEnds DEF SaidInv
  <2>3. \A d \in Ends : \A n \in 1 .. Lines(d)' : said'[d][n] = Line(d, n)'
    BY <2>1, <2>2, TheEnds
  <2> QED
    BY <1>1, <1>2, <1>3, <1>4, <1>5, <2>3 DEF SaidInv
<1>10. HeardInv'
  <2>1. \A d \in Ends :
          /\ Got(d)' <= Lines(Peer(d))'
          /\ \A k \in 1 .. Got(d)' : heard'[d][k] = said'[Peer(d)][k]
    <3>1. Got(Client)' = 0 /\ Got(Server)' = 0
      BY <1>3, <1>7, TheEnds
    <3>2. Lines(Client)' >= 0 /\ Lines(Server)' >= 0
      BY <1>1, <1>5, TheEnds, Numbers
    <3> QED
      BY <3>1, <3>2, TheEnds
  <2> QED
    BY <1>1, <1>2, <1>3, <1>4, <1>7, <2>1, TheEnds DEF HeardInv, GaveUp
<1>11. PutInv'
  <2>1. ASSUME NEW d \in Ends
        PROVE  /\ Sent(d)' >= 0 /\ Fits(Script(d), Spoken(d), Sent(d), io[d].rest)'
               /\ Lines(d)' = 0 => Left(d)' = 0
               /\ io'[d].call = "put" =>
                    /\ Left(d)' > 0
                    /\ ~io'[d].part => Sent(d)' = LineEnd(d, Lines(d) - 1)'
    <3>1. CASE d = Server
      BY <1>4, <1>5, <1>6, <3>1, TheEnds DEF LineEnd
    <3>2. CASE d = Client
      BY <1>1, <1>4, <1>5, <1>7, <3>2, TheEnds DEF PutInv, Fits, LineEnd
    <3> QED
      BY <3>1, <3>2, TheEnds
  <2> QED
    BY <1>4, <2>1, TheEnds DEF PutInv
<1>12. GetInv'
  <2>1. ASSUME NEW d \in Ends, io'[d].call = "get", ~GaveUp(d)'
        PROVE  /\ Fits(Script(Peer(d)), Spoken(Peer(d)), Heard(d), io[d].buf)'
               /\ Heard(d)' + Filled(d)' < LineEnd(Peer(d), Got(d) + 1)'
    <3>1. d = Client /\ Peer(d) = Server /\ ~GaveUp(Client) /\ io[Client].call = "get"
      BY <1>4, <1>7, <2>1, TheEnds DEF GaveUp
    <3>2. /\ Fits(Script(Server), 0, 0, io[Client].buf)
          /\ Heard(Client) + Filled(Client) < LineEnd(Server, Got(Client) + 1)
      BY <1>1, <1>3, <3>1, TheEnds DEF GetInv
    <3>3. Filled(Client) = 0 /\ Filled(Client) = Len(io[Client].buf)
      BY <1>1, <3>2, TheEnds, Numbers DEF Fits, Filled
    <3>4. LineEnd(Peer(d), Got(d) + 1)' = 4 /\ Heard(d)' = 0 /\ Filled(d)' = 0
      BY <1>3, <1>7, <3>1, <3>3, TheEnds DEF LineEnd
    <3> QED
      BY <1>4, <1>6, <3>1, <3>3, <3>4 DEF Fits
  <2> QED
    BY <1>4, <2>1, TheEnds DEF GetInv
<1>13. Streams' /\ NoCtrl' /\ Clean'
  <2>1. Kept(Server)
    <3>1. Follows(Server)' => Follows(Server) /\ Pending(Server)' = Pending(Server)
      BY <1>3, <1>4, TheEnds DEF Follows, GaveUp, Ready, Pending
    <3>2. Spoken(Client) <= Spoken(Client)
      <4>1. Spoken(Client) \in 0 .. 7
        BY <1>1, TheEnds, Numbers
      <4> QED
        BY <4>1
    <3> QED
      BY <1>7, <3>1, <3>2, TheEnds DEF Kept
  <2>2. Kept(Client)
    <3>1. Follows(Client)' => Follows(Client) /\ Pending(Client)' = Pending(Client)
      BY <1>4, <1>7, TheEnds DEF Follows, GaveUp, Ready, Pending
    <3> QED
      BY <1>3, <1>6, <1>7, <3>1, TheEnds DEF Kept
  <2>3. \A d \in Ends : Quiet(d)' => Quiet(d)
    BY <1>3, <1>6, <1>7, TheEnds DEF Quiet
  <2>4. SameSocks
    BY <1>2 DEF SameSocks
  <2> QED
    BY <1>1, <2>1, <2>2, <2>3, <2>4, TheEnds, SocksFrame
<1>14. Answered'
  <2>1. Failed' => Failed
    BY <1>2, <1>4, <1>7, TheEnds DEF Failed
  <2> QED
    BY <1>1, <1>4, <1>7, <2>1, TheEnds DEF Answered, Served
<1>15. SigpipeIsNarrow'
  <2>1. \A d \in piped : d = Client
    BY <1>1, <1>3, TheEnds DEF PlacesInv, Types
  <2> QED
    BY <1>1, <1>2, <1>4, <2>1 DEF SigpipeIsNarrow
<1> QED
  BY <1>8, <1>9, <1>10, <1>11, <1>12, <1>13, <1>14, <1>15 DEF SessionInv

LEMMA ServeKeeps ==
  ASSUME SessionInv, Serve
  PROVE  SessionInv'
<1>1. Types
  BY DEF SessionInv
<1> QED
  BY <1>1, ServeFacts, AbandonKeeps, WelcomeKeeps

\* The word read is the client's: it is the first two bytes of its line.
LEMMA TakeOrderKeeps ==
  ASSUME SessionInv, TakeOrder
  PROVE  SessionInv'
<1>1. /\ Types /\ PlacesInv /\ SaidInv /\ HeardInv /\ PutInv /\ GetInv
      /\ NoCtrl /\ Streams /\ Clean /\ Answered /\ SigpipeIsNarrow
  BY DEF SessionInv
<1>2. /\ Types' /\ pc[Server] = "order" /\ io[Server].call = "none"
      /\ order' \in Burgers
      /\ \E b \in Burgers : order' = b /\ io[Server].buf \in {Name(b), OrderLine(b)}
      /\ pc' = [pc EXCEPT ![Server] = "kitchen"]
      /\ sock' = sock /\ io' = io /\ choice' = choice /\ said' = said /\ heard' = heard
      /\ missed' = missed /\ piped' = piped
  BY <1>1, TakeOrderFacts
<1>3. order' = choice
  <2>1. PICK b \in Burgers : order' = b /\ io[Server].buf \in {Name(b), OrderLine(b)}
    BY <1>2
  <2>2. Len(io[Server].buf) \in 2 .. 3 /\ io[Server].buf[2] = b
    BY <2>1, OrderLineIs DEF Name
  <2>3. Fits(Script(Client), Spoken(Client), 0, io[Server].buf)
    BY <1>1, <1>2 DEF GetInv
  <2>4. io[Server].buf[2] = Script(Client)[0 + 2]
    BY <2>2, <2>3 DEF Fits
  <2> QED
    BY <2>1, <2>2, <2>4, ScriptIs
<1>4. /\ order' # NoBurger /\ choice # NoBurger /\ order = NoBurger
      /\ ~Gone(Server) /\ Left(Server) = 0 /\ Lines(Server) = 1 /\ Spoken(Server) = 4
      /\ pc'[Server] = "kitchen" /\ pc'[Client] = pc[Client]
  <2>1. order' # NoBurger /\ choice # NoBurger /\ order = NoBurger
    BY <1>1, <1>2, <1>3, BurgersAssumption DEF SaidInv
  <2>2. ~Gone(Server) /\ Left(Server) = 0 /\ Lines(Server) = 1
    BY <1>1, <1>2 DEF PutInv, SaidInv, Gone
  <2>3. Spoken(Server) = 4
    BY <2>2, TheEnds DEF Spoken, LineEnd
  <2>4. pc'[Server] = "kitchen" /\ pc'[Client] = pc[Client]
    BY <1>1, <1>2, TheEnds DEF Types
  <2> QED
    BY <2>1, <2>2, <2>3, <2>4
<1>5. /\ \A d \in Ends :
           /\ Lines(d)' = Lines(d) /\ Spoken(d)' = Spoken(d)
           /\ Got(d)' = Got(d) /\ Heard(d)' = Heard(d)
           /\ Left(d)' = Left(d) /\ Sent(d)' = Sent(d) /\ Filled(d)' = Filled(d)
           /\ (Gone(d)' <=> Gone(d))
      /\ Script(Client)' = Script(Client)
      /\ \A n : Line(Client, n)' = Line(Client, n)
      /\ Line(Server, 1)' = Line(Server, 1)
  BY <1>2, <1>4, TheEnds
     DEF Lines, Script, Spoken, Got, Heard, Left, Sent, Filled, LineEnd, Line, Gone
<1>6. \A k \in 1 .. Spoken(Server) : (Script(Server)')[k] = Script(Server)[k]
  <2>1. ASSUME NEW k \in 1 .. 4 PROVE (Script(Server)')[k] = Script(Server)[k]
    BY TheEnds DEF Script
  <2> QED
    BY <1>4, <2>1
<1>7. PlacesInv'
  BY <1>1, <1>2, <1>4, <1>5, TheEnds DEF PlacesInv
<1>8. SaidInv'
  <2>1. ASSUME NEW n \in 1 .. Lines(Server)' PROVE said'[Server][n] = Line(Server, n)'
    <3>1. n = 1
      BY <1>4, <1>5, TheEnds
    <3> QED
      BY <1>1, <1>2, <1>4, <1>5, <3>1, TheEnds DEF SaidInv
  <2>2. ASSUME NEW n \in 1 .. Lines(Client)' PROVE said'[Client][n] = Line(Client, n)'
    BY <1>1, <1>2, <1>5, TheEnds DEF SaidInv
  <2>3. \A d \in Ends : \A n \in 1 .. Lines(d)' : said'[d][n] = Line(d, n)'
    BY <2>1, <2>2, TheEnds
  <2> QED
    BY <1>1, <1>2, <1>3, <1>4, <1>5, <2>3, TheEnds DEF SaidInv
<1>9. HeardInv'
  BY <1>1, <1>2, <1>4, <1>5, TheEnds DEF HeardInv, GaveUp
<1>10. PutInv'
  <2>1. ASSUME NEW d \in Ends
        PROVE  /\ Sent(d)' >= 0 /\ Fits(Script(d), Spoken(d), Sent(d), io[d].rest)'
               /\ Lines(d)' = 0 => Left(d)' = 0
               /\ io'[d].call = "put" =>
                    /\ Left(d)' > 0
                    /\ ~io'[d].part => Sent(d)' = LineEnd(d, Lines(d) - 1)'
    <3>1. CASE d = Client
      BY <1>1, <1>2, <1>5, <3>1, TheEnds DEF PutInv, Fits, LineEnd
    <3>2. CASE d = Server
      <4>1. Sent(Server) = 4 /\ Len(io[Server].rest) = 0
        BY <1>4 DEF Sent, Left
      <4> QED
        BY <1>2, <1>4, <1>5, <3>2, <4>1, TheEnds DEF Fits
    <3> QED
      BY <3>1, <3>2, TheEnds
  <2> QED
    BY <1>4, <1>5, <2>1, TheEnds DEF PutInv
<1>11. GetInv'
  <2>1. ASSUME NEW d \in Ends, io'[d].call = "get", ~GaveUp(d)'
        PROVE  /\ Fits(Script(Peer(d)), Spoken(Peer(d)), Heard(d), io[d].buf)'
               /\ Heard(d)' + Filled(d)' < LineEnd(Peer(d), Got(d) + 1)'
    <3>1. d = Client /\ Peer(d) = Server /\ ~GaveUp(Client) /\ io[Client].call = "get"
      BY <1>2, <1>4, <1>5, <2>1, TheEnds DEF GaveUp
    <3>2. /\ Fits(Script(Server), Spoken(Server), Heard(Client), io[Client].buf)
          /\ Heard(Client) + Filled(Client) < LineEnd(Server, Got(Client) + 1)
      BY <1>1, <3>1, TheEnds DEF GetInv
    <3>3. /\ Heard(Client) \in Nat /\ Len(io[Client].buf) \in Nat
          /\ Spoken(Server) \in Nat /\ Spoken(Server) <= Spoken(Server)
      <4>1. Heard(Client) \in 0 .. 7 /\ Spoken(Server) \in 0 .. 7
        BY <1>1, TheEnds, Numbers
      <4>2. io[Client].buf \in Seq(Bytes)
        BY <1>1, TheEnds, Fields
      <4> QED
        BY <4>1, <4>2, LenProperties
    <3>4. Fits(Script(Server)', Spoken(Server), Heard(Client), io[Client].buf)
      BY <1>6, <3>2, <3>3, FitsMore
    <3> QED
      BY <1>2, <1>5, <3>1, <3>2, <3>4, TheEnds DEF LineEnd
  <2> QED
    BY <1>2, <1>4, <2>1, TheEnds DEF GetInv
<1>12. Streams' /\ NoCtrl' /\ Clean'
  <2>1. \A d \in Ends : Spoken(d) <= Spoken(d)
    BY <1>1, Numbers
  <2>2. Kept(Server)
    <3>1. Follows(Server)' => Follows(Server) /\ Pending(Server)' = Pending(Server)
      BY <1>2, <1>4, TheEnds DEF Follows, GaveUp, Ready, Pending
    <3> QED
      BY <1>5, <2>1, <3>1, TheEnds DEF Kept
  <2>3. Kept(Client)
    <3>1. Follows(Client)' => Follows(Client) /\ Pending(Client)' = Pending(Client)
      BY <1>2, <1>4, <1>5, TheEnds DEF Follows, GaveUp, Ready, Pending
    <3> QED
      BY <1>5, <1>6, <2>1, <3>1, TheEnds DEF Kept
  <2>4. \A d \in Ends : Quiet(d)' => Quiet(d)
    BY <1>5, TheEnds DEF Quiet
  <2>5. SameSocks
    BY <1>2 DEF SameSocks
  <2> QED
    BY <1>1, <2>2, <2>3, <2>4, <2>5, TheEnds, SocksFrame
<1>13. Answered'
  BY <1>1, <1>2, <1>4, <1>5, TheEnds DEF Answered, Served, Failed
<1>14. SigpipeIsNarrow'
  BY <1>1, <1>2 DEF SigpipeIsNarrow
<1> QED
  BY <1>2, <1>7, <1>8, <1>9, <1>10, <1>11, <1>12, <1>13, <1>14 DEF SessionInv

\* The second line to the client.
LEMMA HandOverKeeps ==
  ASSUME SessionInv, HandOver
  PROVE  SessionInv'
<1>1. /\ Types /\ PlacesInv /\ SaidInv /\ HeardInv /\ PutInv /\ GetInv
      /\ NoCtrl /\ Streams /\ Clean /\ Answered /\ SigpipeIsNarrow
  BY DEF SessionInv
<1>2. order \in Burgers /\ order # NoBurger
  <2>1. pc[Server] = "kitchen"
    BY DEF HandOver
  <2> QED
    BY <1>1, <2>1 DEF SaidInv, Types
<1>3. /\ Types' /\ pc[Server] = "kitchen" /\ pc' = [pc EXCEPT ![Server] = "goodbye"]
      /\ sock' = sock /\ choice' = choice /\ order' = order
      /\ heard' = heard /\ missed' = missed /\ piped' = piped
      /\ CallBecomes(Server, Call("put", io[Server].buf, io[Server].cap, Goodbye(order),
                                  FALSE, io[Server].res))
      /\ said' = [said EXCEPT ![Server] = Append(said[Server], Goodbye(order))]
  BY <1>1, <1>2, HandOverFacts
<1>4. /\ ~Gone(Server) /\ choice # NoBurger /\ io[Server].call = "none"
      /\ Lines(Server) = 1 /\ Spoken(Server) = 4 /\ Left(Server) = 0 /\ Sent(Server) = 4
  <2>1. ~Gone(Server) /\ choice # NoBurger /\ Lines(Server) = 1 /\ Left(Server) = 0
    BY <1>1, <1>2, <1>3 DEF SaidInv, PutInv, Gone
  <2>2. Spoken(Server) = 4 /\ Sent(Server) = 4
    BY <2>1, TheEnds DEF Spoken, LineEnd, Sent
  <2>3. io[Server].call = "none"
    BY <1>1, <1>3, TheEnds, Fields DEF PlacesInv
  <2> QED
    BY <2>1, <2>2, <2>3
<1>5. /\ io'[Server].call = "put" /\ io'[Server].rest = Goodbye(order) /\ ~io'[Server].part
      /\ io'[Client] = io[Client]
      /\ pc'[Server] = "goodbye" /\ pc'[Client] = pc[Client]
      /\ said'[Server] = Append(said[Server], Goodbye(order)) /\ said'[Client] = said[Client]
  <2>1. /\ io'[Server].call = "put" /\ io'[Server].rest = Goodbye(order) /\ ~io'[Server].part
        /\ io'[Client] = io[Client]
    BY <1>3, TheEnds DEF CallBecomes, Call
  <2>2. /\ pc'[Server] = "goodbye" /\ pc'[Client] = pc[Client]
        /\ said'[Server] = Append(said[Server], Goodbye(order)) /\ said'[Client] = said[Client]
    BY <1>1, <1>3, TheEnds DEF Types
  <2> QED
    BY <2>1, <2>2
<1>6. /\ Lines(Server)' = 2 /\ said'[Server][2] = Goodbye(order)
      /\ said'[Server][1] = said[Server][1] /\ Lines(Client)' = Lines(Client)
  <2>1. said[Server] \in Seq(Texts) /\ Len(said[Server]) = 1 /\ Goodbye(order) \in Texts
    BY <1>1, <1>2, <1>4, TheEnds DEF Types, Lines, Texts
  <2> QED
    BY <1>5, <2>1, AppendProperties DEF Lines
<1>7. /\ Left(Server)' = 3 /\ Spoken(Server)' = 7 /\ Sent(Server)' = 4
      /\ Fits(Script(Server), Spoken(Server), Sent(Server), io[Server].rest)'
  <2> DEFINE line == Goodbye(order)
  <2>1. Len(line) = 3 /\ \A k \in 1 .. 3 : line[k] = Script(Server)'[4 + k]
    BY <1>3, TheEnds DEF Script, Goodbye
  <2> HIDE DEF line
  <2>2. Left(Server)' = 3 /\ Spoken(Server)' = 7
    BY <1>5, <1>6, <2>1, TheEnds DEF Left, Spoken, LineEnd, line
  <2>3. Sent(Server)' = 4
    BY <2>2 DEF Sent
  <2> QED
    BY <1>5, <2>1, <2>2, <2>3 DEF Fits, line
<1>8. /\ Script(Client)' = Script(Client) /\ Spoken(Client)' = Spoken(Client)
      /\ Left(Client)' = Left(Client) /\ Sent(Client)' = Sent(Client)
      /\ Script(Server)' = Script(Server) /\ Filled(Client)' = Filled(Client)
      /\ \A d \in Ends : /\ Got(d)' = Got(d) /\ Heard(d)' = Heard(d)
                         /\ (Gone(d)' <=> Gone(d))
      /\ \A n : Line(Client, n)' = Line(Client, n) /\ Line(Server, n)' = Line(Server, n)
  BY <1>3, <1>4, <1>5, <1>6, TheEnds
     DEF Script, Spoken, Left, Sent, Filled, Gone, Got, Heard, LineEnd, Line
<1>9. PlacesInv'
  <2>1. pc[Client] # "connect" /\ sock[Server].open
    BY <1>1, <1>3, <1>4, TheEnds DEF PlacesInv
  <2> QED
    BY <1>1, <1>3, <1>5, <1>8, <2>1, TheEnds DEF PlacesInv
<1>10. SaidInv'
  <2>1. ASSUME NEW n \in 1 .. Lines(Server)' PROVE said'[Server][n] = Line(Server, n)'
    <3>1. n = 1 \/ n = 2
      BY <1>6
    <3>2. said[Server][1] = Line(Server, 1)
      BY <1>1, <1>4, TheEnds DEF SaidInv
    <3>3. Line(Server, 2) = Goodbye(order)
      BY TheEnds DEF Line
    <3> QED
      BY <1>6, <1>8, <3>1, <3>2, <3>3
  <2>2. ASSUME NEW n \in 1 .. Lines(Client)' PROVE said'[Client][n] = Line(Client, n)'
    BY <1>1, <1>5, <1>6, <1>8, TheEnds DEF SaidInv
  <2>3. \A d \in Ends : \A n \in 1 .. Lines(d)' : said'[d][n] = Line(d, n)'
    BY <2>1, <2>2, TheEnds
  <2> QED
    <3>1. choice' = choice /\ order' = order
      BY <1>3
    <3>2. pc'[Server] = "goodbye" /\ pc'[Client] = pc[Client]
      BY <1>5
    <3> QED
      BY <1>1, <1>2, <1>6, <2>3, <3>1, <3>2 DEF SaidInv
<1>11. HeardInv'
  <2>1. \A d \in Ends :
          /\ Got(d)' <= Lines(Peer(d))'
          /\ \A k \in 1 .. Got(d)' : heard'[d][k] = said'[Peer(d)][k]
    <3>1. /\ Got(Client) <= 1 /\ Got(Client) \in Nat /\ Got(Server) <= Lines(Client)
          /\ \A k \in 1 .. Got(Client) : heard[Client][k] = said[Server][k]
          /\ \A k \in 1 .. Got(Server) : heard[Server][k] = said[Client][k]
      BY <1>1, <1>4, TheEnds, Numbers DEF HeardInv
    <3>2. /\ Got(Client)' <= Lines(Server)'
          /\ \A k \in 1 .. Got(Client)' : heard'[Client][k] = said'[Server][k]
      BY <1>3, <1>6, <1>8, <3>1, TheEnds
    <3>3. /\ Got(Server)' <= Lines(Client)'
          /\ \A k \in 1 .. Got(Server)' : heard'[Server][k] = said'[Client][k]
      BY <1>3, <1>5, <1>6, <1>8, <3>1, TheEnds
    <3> QED
      BY <3>2, <3>3, TheEnds
  <2> QED
    <3>1. /\ choice' = choice /\ sock' = sock /\ missed' = missed
          /\ Got(Client)' = Got(Client) /\ Got(Server)' = Got(Server)
          /\ (Gone(Server)' <=> Gone(Server))
      BY <1>3, <1>8, TheEnds
    <3>2. /\ pc'[Server] = "goodbye" /\ pc'[Client] = pc[Client]
          /\ io'[Client] = io[Client]
      BY <1>5
    <3> QED
      BY <1>1, <2>1, <3>1, <3>2, TheEnds DEF HeardInv, GaveUp
<1>12. PutInv'
  <2>1. ASSUME NEW d \in Ends
        PROVE  /\ Sent(d)' >= 0 /\ Fits(Script(d), Spoken(d), Sent(d), io[d].rest)'
               /\ Lines(d)' = 0 => Left(d)' = 0
               /\ io'[d].call = "put" =>
                    /\ Left(d)' > 0
                    /\ ~io'[d].part => Sent(d)' = LineEnd(d, Lines(d) - 1)'
    <3>1. CASE d = Server
      BY <1>5, <1>6, <1>7, <3>1, TheEnds DEF LineEnd
    <3>2. CASE d = Client
      BY <1>1, <1>5, <1>6, <1>8, <3>2, TheEnds DEF PutInv, Fits, LineEnd
    <3> QED
      BY <3>1, <3>2, TheEnds
  <2> QED
    BY <1>5, <2>1, TheEnds DEF PutInv
<1>13. GetInv'
  <2>1. ASSUME NEW d \in Ends, io'[d].call = "get", ~GaveUp(d)'
        PROVE  /\ Fits(Script(Peer(d)), Spoken(Peer(d)), Heard(d), io[d].buf)'
               /\ Heard(d)' + Filled(d)' < LineEnd(Peer(d), Got(d) + 1)'
    <3>1. d = Client /\ Peer(d) = Server /\ ~GaveUp(Client) /\ io[Client].call = "get"
      BY <1>5, <1>8, <2>1, TheEnds DEF GaveUp
    <3>2. /\ Fits(Script(Server), 4, Heard(Client), io[Client].buf)
          /\ Heard(Client) + Filled(Client) < LineEnd(Server, Got(Client) + 1)
      BY <1>1, <1>4, <3>1, TheEnds DEF GetInv
    <3>3. Heard(Client) \in Nat /\ Len(io[Client].buf) \in Nat
      <4>1. Heard(Client) \in 0 .. 7
        BY <1>1, TheEnds, Numbers
      <4>2. io[Client].buf \in Seq(Bytes)
        BY <1>1, TheEnds, Fields
      <4> QED
        BY <4>1, <4>2, LenProperties
    <3>4. Fits(Script(Server), 7, Heard(Client), io[Client].buf)
      BY <3>2, <3>3 DEF Fits
    <3> QED
      BY <1>5, <1>7, <1>8, <3>1, <3>2, <3>4, TheEnds DEF LineEnd
  <2> QED
    BY <1>5, <2>1, TheEnds DEF GetInv
<1>14. Streams' /\ NoCtrl' /\ Clean'
  <2>1. Kept(Server)
    <3>1. Follows(Server)' => Follows(Server) /\ Pending(Server)' = Pending(Server)
      BY <1>3, <1>5, TheEnds DEF Follows, GaveUp, Ready, Pending
    <3>2. Spoken(Client) <= Spoken(Client)
      <4>1. Spoken(Client) \in 0 .. 7
        BY <1>1, TheEnds, Numbers
      <4> QED
        BY <4>1
    <3> QED
      BY <1>8, <3>1, <3>2, TheEnds DEF Kept
  <2>2. Kept(Client)
    <3>1. Follows(Client)' => Follows(Client) /\ Pending(Client)' = Pending(Client)
      BY <1>5, <1>8, TheEnds DEF Follows, GaveUp, Ready, Pending
    <3> QED
      BY <1>4, <1>7, <1>8, <3>1, TheEnds DEF Kept
  <2>3. \A d \in Ends : Quiet(d)' => Quiet(d)
    BY <1>4, <1>7, <1>8, TheEnds DEF Quiet
  <2>4. SameSocks
    BY <1>3 DEF SameSocks
  <2> QED
    BY <1>1, <2>1, <2>2, <2>3, <2>4, TheEnds, SocksFrame
<1>15. Answered'
  <2>1. Failed' => Failed
    BY <1>3, <1>5, <1>8, TheEnds DEF Failed
  <2> QED
    BY <1>1, <1>5, <1>8, <2>1, TheEnds DEF Answered, Served
<1>16. SigpipeIsNarrow'
  <2>1. \A d \in piped : d = Client
    BY <1>1, <1>4, TheEnds DEF PlacesInv, Types
  <2> QED
    BY <1>1, <1>3, <1>5, <2>1 DEF SigpipeIsNarrow
<1> QED
  BY <1>3, <1>9, <1>10, <1>11, <1>12, <1>13, <1>14, <1>15, <1>16 DEF SessionInv

(***************************************************************************)
(* The ways an end leaves.                                                 *)
(***************************************************************************)
LEMMA PutKillsKeeps ==
  ASSUME SessionInv, NEW e \in Ends, PutKills(e)
  PROVE  SessionInv'
<1>1. /\ Types /\ PlacesInv /\ SaidInv /\ HeardInv /\ PutInv /\ Streams /\ Clean
  BY DEF SessionInv
<1>2. /\ io[e].call = "put" /\ sock[e].err = "dead" /\ Leave(e, "killed")
      /\ piped' = piped \cup {e}
  BY DEF PutKills
<1>3. sock[e].open
  BY <1>1, <1>2 DEF PlacesInv
<1>4. io[e].part \/ (e = Client /\ missed)
  <2> SUFFICES ASSUME ~io[e].part PROVE e = Client /\ missed
    OBVIOUS
  <2>1. ~Quiet(e)
    BY <1>1, <1>2 DEF Clean
  <2>2. Sent(e) = LineEnd(e, Lines(e) - 1)
    BY <1>1, <1>2 DEF PutInv
  <2>3. Heard(Peer(e)) \in 0 .. 7 /\ Heard(Peer(e)) <= Sent(e)
    BY <1>1, PeerFacts, StreamOrder DEF Streams
  <2>4. CASE e = Server
    <3>1. pc[Server] \in {"welcome", "goodbye"}
      BY <1>1, <1>2, <2>4 DEF PlacesInv
    <3>2. CASE pc[Server] = "welcome"
      <4>1. Sent(e) = 0
        BY <1>1, <2>2, <2>4, <3>2, TheEnds DEF SaidInv, LineEnd
      <4> QED
        BY <2>1, <2>3, <2>4, <4>1, TheEnds DEF Quiet
    <3>3. CASE pc[Server] = "goodbye"
      <4>1. Lines(Server) = 2 /\ choice # NoBurger /\ ~Gone(Server)
        BY <1>1, <3>3 DEF SaidInv, Gone
      <4>2. Got(Client) \in Nat /\ Got(Client) > 0
        BY <1>1, <4>1, TheEnds, Numbers DEF HeardInv
      <4>3. Sent(e) = 4
        BY <2>2, <2>4, <4>1, TheEnds DEF LineEnd
      <4>4. Heard(Client) >= 4
        BY <4>2, TheEnds DEF Heard, LineEnd
      <4> QED
        BY <2>1, <2>3, <2>4, <4>3, <4>4, TheEnds DEF Quiet
    <3> QED
      BY <3>1, <3>2, <3>3
  <2>5. CASE e = Client
    <3>1. pc[Client] = "order"
      BY <1>1, <1>2, <2>5 DEF PlacesInv
    <3>2. Sent(e) = 0
      BY <1>1, <2>2, <2>5, <3>1, TheEnds DEF SaidInv, LineEnd
    <3>3. Gone(Server) /\ Lines(Server) = 0
      BY <2>1, <2>3, <2>5, <3>2, TheEnds DEF Quiet
    <3>4. Got(Client) = 0
      BY SMTT(30), <1>1, <3>3, TheEnds, Numbers DEF HeardInv
    <3> QED
      BY <1>1, <2>5, <3>1, <3>4, TheEnds DEF HeardInv, GaveUp
  <2> QED
    BY <2>4, <2>5, TheEnds
<1> QED
  BY <1>2, <1>3, <1>4, LeaveKeeps

LEMMA KillKeeps ==
  ASSUME SessionInv, NEW e \in Ends, Kill(e)
  PROVE  SessionInv'
BY LeaveKeeps DEF Kill

\* The closes of the client: NoWelcome and Depart.
LEMMA ClientCloseKeeps ==
  ASSUME SessionInv, NoWelcome \/ Depart
  PROVE  SessionInv'
<1>1. /\ Leave(Client, "closed") /\ piped' = piped /\ io[Client].call = "none"
      /\ \/ pc[Client] = "reply"
         \/ pc[Client] = "welcome" /\ io[Client].res = 0
  BY DEF NoWelcome, Depart, Close, Returned
<1>2. sock[Client].open
  BY <1>1, TheEnds DEF SessionInv, PlacesInv, Gone
<1> QED
  BY <1>1, <1>2, TheEnds, LeaveKeeps

\* The closes of the server: Decline, TurnAway and ServerErr.
LEMMA ServerCloseKeeps ==
  ASSUME SessionInv, Decline \/ TurnAway \/ ServerErr
  PROVE  SessionInv'
<1>1. Leave(Server, "closed") /\ piped' = piped
  BY DEF Decline, TurnAway, ServerErr, Close
<1>2. sock[Server].open /\ io[Server].call = "none"
  <2>1. PlacesInv /\ io[Server].call \in {"none", "get", "put"}
    BY TheEnds, Fields DEF SessionInv
  <2>2. CASE Decline
    BY <2>1, <2>2, TheEnds DEF PlacesInv, Decline
  <2>3. CASE TurnAway
    BY <2>1, <2>3, TheEnds DEF PlacesInv, TurnAway, Gone
  <2>4. CASE ServerErr
    BY <2>1, <2>4, TheEnds DEF PlacesInv, ServerErr, Returned, Gone
  <2> QED
    BY <2>2, <2>3, <2>4
<1> QED
  BY <1>1, <1>2, TheEnds, LeaveKeeps

(***************************************************************************)
(* The invariant holds at first and is kept by every step.                 *)
(***************************************************************************)
LEMMA SessionInvInit == Init => SessionInv
<1> SUFFICES ASSUME Init PROVE SessionInv
  OBVIOUS
<1>1. Types
  BY TypesInit
<1>2. \A e \in Ends :
        /\ sock[e].wire = <<>> /\ sock[e].rcv = <<>> /\ ~sock[e].fin
        /\ sock[e].err = "none" /\ ~sock[e].open
        /\ io[e].call = "none" /\ io[e].rest = <<>> /\ io[e].res = 0
        /\ said[e] = <<>> /\ heard[e] = <<>>
  BY DEF Init
<1>3. /\ pc[Client] = "connect" /\ pc[Server] = "accept"
      /\ choice = NoBurger /\ order = NoBurger /\ piped = {}
  BY TheEnds DEF Init
<1>4. \A e \in Ends :
        /\ Lines(e) = 0 /\ Got(e) = 0 /\ Left(e) = 0 /\ ~Gone(e)
  BY <1>2, <1>3, TheEnds DEF Lines, Got, Left, Gone
<1>5. \A e \in Ends : Spoken(e) = 0 /\ Heard(e) = 0 /\ Sent(e) = 0 /\ Pending(e) = 0
  BY <1>2, <1>4 DEF Spoken, Heard, Sent, LineEnd, Pending
<1>6. PlacesInv /\ SaidInv /\ NoCtrl /\ Clean /\ SigpipeIsNarrow
  BY <1>2, <1>3, <1>4, TheEnds
     DEF PlacesInv, SaidInv, NoCtrl, Plain, Clean, SigpipeIsNarrow
<1>7. HeardInv /\ GetInv /\ Answered
  BY <1>2, <1>3, <1>4, TheEnds DEF HeardInv, GetInv, GaveUp, Answered, Served, Failed
<1>8. PutInv
  BY <1>2, <1>3, <1>4, <1>5 DEF PutInv, Fits
<1>9. ASSUME NEW e \in Ends PROVE Stream(e)
  <2>1. Peer(e) \in Ends
    BY PeerFacts
  <2> DEFINE pos == [k \in 1 .. 1 |-> 0]
  <2>2. Sliced(<<>>, pos, Script(Peer(e)), 0, TRUE)
    BY DEF Sliced
  <2>3. Slicing(<<>>, 0, 0, Script(Peer(e)), 0, TRUE)
    <3>1. pos \in [1 .. Len(<<>>) + 1 -> Nat] /\ pos[1] = 0 /\ pos[Len(<<>>) + 1] = 0
      OBVIOUS
    <3> HIDE DEF pos
    <3> QED
      BY <2>2, <3>1 DEF Slicing
  <2>4. Linked(e, 0)
    <3>1. Len(sock[e].rcv) = 0 /\ 0 - Len(sock[e].rcv) = 0
      BY <1>2
    <3>2. /\ Heard(e) = 0 /\ Pending(e) = 0 /\ Spoken(Peer(e)) = 0 /\ Sent(Peer(e)) = 0
      BY <1>5, <2>1
    <3>3. Fits(Script(Peer(e)), Spoken(Peer(e)), 0, sock[e].rcv)
      BY <3>1, <3>2 DEF Fits
    <3> QED
      BY <3>1, <3>2, <3>3 DEF Linked
  <2> QED
    BY <1>2, <1>4, <1>5, <2>1, <2>3, <2>4 DEF Stream
<1> QED
  BY <1>1, <1>6, <1>7, <1>8, <1>9 DEF SessionInv, Streams

LEMMA LineCallKeeps ==
  ASSUME SessionInv, NEW e \in Ends, LineCall(e)
  PROVE  SessionInv'
BY GetByteKeeps, FailsKeeps, PutSomeKeeps, PutKillsKeeps DEF LineCall, Fails

LEMMA NothingHappens ==
  ASSUME SessionInv, UNCHANGED vars
  PROVE  SessionInv'
<1>1. /\ Types /\ PlacesInv /\ SaidInv /\ HeardInv /\ PutInv /\ GetInv
      /\ NoCtrl /\ Streams /\ Clean /\ Answered /\ SigpipeIsNarrow
  BY DEF SessionInv
<1>2. /\ sock' = sock /\ pc' = pc /\ io' = io /\ choice' = choice /\ order' = order
      /\ said' = said /\ heard' = heard /\ missed' = missed /\ piped' = piped
  BY DEF vars
<1>3. \A e \in Ends :
        /\ Lines(e)' = Lines(e) /\ Got(e)' = Got(e) /\ Left(e)' = Left(e)
        /\ Filled(e)' = Filled(e) /\ Spoken(e)' = Spoken(e) /\ Heard(e)' = Heard(e)
        /\ Sent(e)' = Sent(e) /\ Script(e)' = Script(e)
        /\ (Gone(e)' <=> Gone(e)) /\ (GaveUp(e)' <=> GaveUp(e))
  BY <1>2 DEF Lines, Got, Left, Filled, Spoken, Heard, Sent, Script, Gone, GaveUp, LineEnd
<1>4. \A e \in Ends : \A n : Line(e, n)' = Line(e, n)
  BY <1>2 DEF Line
<1>5. Types' /\ PlacesInv' /\ SaidInv'
  BY <1>1, <1>2, <1>3, <1>4, TheEnds DEF Types, PlacesInv, SaidInv
<1>6. HeardInv'
  <2>1. \A e \in Ends :
          /\ Got(e)' <= Lines(Peer(e))'
          /\ \A n \in 1 .. Got(e)' : heard'[e][n] = said'[Peer(e)][n]
    BY <1>1, <1>2, <1>3, TheEnds DEF HeardInv
  <2> QED
    BY <1>1, <1>2, <1>3, <2>1, TheEnds DEF HeardInv
<1>7. PutInv'
  BY <1>1, <1>2, <1>3, TheEnds DEF PutInv, Fits, LineEnd
<1>8. GetInv'
  BY <1>1, <1>2, <1>3, TheEnds DEF GetInv, Fits, LineEnd
<1>9. Streams' /\ NoCtrl' /\ Clean'
  <2>1. ASSUME NEW d \in Ends
        PROVE  Kept(d) /\ (Quiet(d)' => Quiet(d))
    <3>1. Follows(d)' => Follows(d) /\ Pending(d)' = Pending(d)
      BY <1>2, <1>3 DEF Follows, Ready, Pending
    <3>2. Peer(d) \in Ends /\ Spoken(Peer(d)) <= Spoken(Peer(d))
      BY <1>1, StreamNumbers
    <3>3. Kept(d)
      BY <1>3, <3>1, <3>2 DEF Kept
    <3>4. Quiet(d)' => Quiet(d)
      BY <1>3, PeerFacts, TheEnds DEF Quiet
    <3> QED
      BY <3>3, <3>4
  <2>2. SameSocks
    BY <1>2 DEF SameSocks
  <2> QED
    BY <1>1, <2>1, <2>2, SocksFrame
<1>10. Answered' /\ SigpipeIsNarrow'
  BY <1>1, <1>2, <1>3, TheEnds DEF Answered, Served, Failed, SigpipeIsNarrow
<1> QED
  BY <1>5, <1>6, <1>7, <1>8, <1>9, <1>10 DEF SessionInv

LEMMA SessionInvNext == SessionInv /\ [Next]_vars => SessionInv'
<1> SUFFICES ASSUME SessionInv, [Next]_vars PROVE SessionInv'
  OBVIOUS
<1>1. CASE ClientStep
  <2>1. \/ LineCall(Client) \/ Connect \/ Choose \/ NoWelcome \/ AwaitReply \/ Depart
    BY <1>1 DEF ClientStep
  <2> QED
    BY <2>1, TheEnds, LineCallKeeps, ConnectKeeps, ChooseKeeps, AwaitReplyKeeps,
       ClientCloseKeeps
<1>2. CASE ServerStep
  BY <1>2, TheEnds, LineCallKeeps, ServeKeeps, AwaitOrderKeeps, TakeOrderKeeps,
     ServerCloseKeeps DEF ServerStep
<1>3. CASE Kitchen
  BY <1>3, HandOverKeeps, ServerCloseKeeps DEF Kitchen
<1>4. ASSUME NEW e \in Ends, Deliver(e) \/ Kill(e) PROVE SessionInv'
  BY <1>4, DeliverKeeps, KillKeeps
<1>5. CASE UNCHANGED vars
  BY <1>5, NothingHappens
<1> QED
  BY <1>1, <1>2, <1>3, <1>4, <1>5 DEF Next

LEMMA SessionInvariant == Spec => []SessionInv
BY SessionInvInit, SessionInvNext, PTL DEF Spec

(***************************************************************************)
(* The theorems.                                                           *)
(***************************************************************************)
\* Sockets, line buffers and lines have their types in every state, and the
\* line buffer always has a place left for the '\0' behind what get_line has
\* read (net.c:97), for any burgers and any BUF_SIZE.
THEOREM SessionTypes == Spec => []TypeOK
<1>1. SessionInv => TypeOK
  <2> SUFFICES ASSUME SessionInv PROVE TypeOK
    OBVIOUS
  <2>1. Types
    BY DEF SessionInv
  <2>2. ASSUME NEW e \in Ends
        PROVE  /\ sock[e].wire \in Seq(Seq(Bytes \cup {"FIN", "RST"}))
               /\ said[e] \in Seq(Texts) /\ heard[e] \in Seq(Seq(Bytes))
               /\ pc[e] \in Places
    <3>1. Seq(Bytes) \subseteq Seq(Bytes \cup {"FIN", "RST"})
      <4> SUFFICES ASSUME NEW s \in Seq(Bytes) PROVE s \in Seq(Bytes \cup {"FIN", "RST"})
        OBVIOUS
      <4>1. s \in [1 .. Len(s) -> Bytes] /\ Len(s) \in Nat
        BY LenProperties
      <4>2. s \in [1 .. Len(s) -> Bytes \cup {"FIN", "RST"}]
        BY <4>1
      <4> QED
        BY <4>1, <4>2, IsASeq
    <3>2. Segments \subseteq Seq(Bytes \cup {"FIN", "RST"})
      <4> DEFINE S == Bytes \cup {"FIN", "RST"}
      <4>1. "FIN" \in S /\ "RST" \in S
        OBVIOUS
      <4> HIDE DEF S
      <4>2. Fin \in Seq(S) /\ Rst \in Seq(S)
        BY <4>1 DEF Fin, Rst
      <4> QED
        BY <3>1, <4>2 DEF Segments, Ctrl, S
    <3>3. sock[e].wire \in [1 .. Len(sock[e].wire) -> Segments] /\ Len(sock[e].wire) \in Nat
      BY <2>1, Fields, LenProperties
    <3>4. sock[e].wire \in [1 .. Len(sock[e].wire) -> Seq(Bytes \cup {"FIN", "RST"})]
      BY <3>2, <3>3
    <3>5. sock[e].wire \in Seq(Seq(Bytes \cup {"FIN", "RST"}))
      BY <3>3, <3>4, IsASeq
    <3> QED
      BY <2>1, <3>5 DEF Types
  <2> QED
    BY <2>1, <2>2, Fields DEF TypeOK, Types, Places
<1> QED
  BY <1>1, SessionInvariant, PTL

\* Whatever was lost with a connection, the server never takes an order that
\* is not its client's, although it parses a word whose newline it has not
\* seen; and a goodbye that was put without an error has been read by a client
\* that came to its own end.
THEOREM OrdersKept == Spec => []ServedAsOrdered
<1>1. SessionInv => ServedAsOrdered
  <2> SUFFICES ASSUME SessionInv PROVE ServedAsOrdered
    OBVIOUS
  <2>1. Types /\ SaidInv /\ HeardInv /\ Answered
    BY DEF SessionInv
  <2>2. ASSUME \A e \in Ends : pc[e] = "closed", Len(said[Server]) = 2, io[Server].res > 0
        PROVE  heard[Client] = <<Welcome, Goodbye(choice)>>
    <3>1. Lines(Server) = 2 /\ Served /\ pc[Client] = "closed"
      BY <2>2, TheEnds DEF Lines, Served
    <3>2. Got(Client) = 2
      BY <2>1, <3>1, TheEnds, Numbers DEF Answered, Failed, HeardInv
    <3>3. order = choice /\ Line(Server, 1) = Welcome /\ Line(Server, 2) = Goodbye(order)
      BY <2>1, <3>1, TheEnds DEF SaidInv, Line
    <3>4. said[Server][1] = Welcome /\ said[Server][2] = Goodbye(choice)
      BY <2>1, <3>1, <3>3, TheEnds DEF SaidInv
    <3>5. heard[Client][1] = Welcome /\ heard[Client][2] = Goodbye(choice)
      BY <2>1, <3>2, <3>4, TheEnds DEF HeardInv
    <3>6. heard[Client] \in Seq(Seq(Bytes)) /\ Len(heard[Client]) = 2
      BY <2>1, <3>2, TheEnds DEF Types, Got
    <3> DEFINE w == Welcome
               g == Goodbye(choice)
    <3> HIDE DEF w, g
    <3>7. heard[Client] = <<w, g>>
      BY <3>5, <3>6 DEF w, g
    <3> QED
      BY <3>7 DEF w, g
  <2> QED
    BY <2>1, <2>2 DEF ServedAsOrdered, SaidInv
<1> QED
  BY <1>1, SessionInvariant, PTL

\* Only two things make a SIGPIPE: a line that took more than one send, and a
\* client that goes on after a welcome it never got (client.c:87).
THEOREM SigpipeNarrow == Spec => []SigpipeIsNarrow
<1>1. SessionInv => SigpipeIsNarrow
  BY DEF SessionInv
<1> QED
  BY <1>1, SessionInvariant, PTL

\* What a step does to the lines: one more is put, or the next one is got.
SayOrHear ==
  \/ \E e \in Ends : \E t \in Texts :
       said' = [said EXCEPT ![e] = Append(said[e], t)] /\ heard' = heard
  \/ \E e \in Ends :
       /\ Len(heard[e]) < Len(said[Peer(e)])
       /\ heard' = [heard EXCEPT ![e] = Append(heard[e], said[Peer(e)][Len(heard[e]) + 1])]
       /\ said' = said
  \/ said' = said /\ heard' = heard

LEMMA GetByteHears ==
  ASSUME Types, HeardInv', NEW e \in Ends, GetByte(e)
  PROVE  SayOrHear
<1> DEFINE buf == Append(io[e].buf, Head(sock[e].rcv))
<1>1. said' = said
  BY DEF GetByte
<1>2. CASE heard' = heard
  BY <1>1, <1>2 DEF SayOrHear
<1>3. CASE heard' = [heard EXCEPT ![e] = Append(heard[e], buf)]
  <2>1. buf \in Seq(Bytes) /\ heard[e] \in Seq(Seq(Bytes))
    BY GetByteFacts DEF Types
  <2> HIDE DEF buf
  <2> DEFINE n == Len(heard[e])
  <2>2. heard'[e] = Append(heard[e], buf)
    BY <1>3 DEF Types
  <2>3. n \in Nat /\ Len(heard'[e]) = n + 1 /\ heard'[e][n + 1] = buf
    BY <2>1, <2>2, AppendProperties, LenProperties
  <2> HIDE DEF n
  <2>4. /\ Got(e)' = Len(heard'[e]) /\ Lines(Peer(e))' = Len(said'[Peer(e)])
    BY DEF Got, Lines
  <2>5. Peer(e) \in Ends /\ said[Peer(e)] \in Seq(Texts)
    BY PeerFacts DEF Types
  <2>6. Len(said[Peer(e)]) \in Nat
    BY <2>5, LenProperties
  <2>7. n + 1 <= Len(said[Peer(e)]) /\ heard'[e][n + 1] = said'[Peer(e)][n + 1]
    BY <1>1, <2>3, <2>4 DEF HeardInv
  <2> QED
    <3>1. Len(heard[e]) < Len(said[Peer(e)])
      BY <2>3, <2>6, <2>7 DEF n
    <3>2. buf = said[Peer(e)][Len(heard[e]) + 1]
      BY <1>1, <2>3, <2>7 DEF n
    <3> QED
      BY <1>1, <1>3, <3>1, <3>2 DEF SayOrHear
<1> QED
  BY <1>2, <1>3 DEF GetByte

LEMMA LinesStep == SessionInv /\ SessionInv' /\ [Next]_vars => SayOrHear
<1> SUFFICES ASSUME SessionInv, SessionInv', [Next]_vars PROVE SayOrHear
  OBVIOUS
<1>1. Types /\ SaidInv /\ HeardInv'
  BY DEF SessionInv
<1>2. ASSUME NEW e \in Ends, LineCall(e) PROVE SayOrHear
  <2>1. CASE GetByte(e)
    BY <1>1, <2>1, GetByteHears
  <2>2. CASE ~GetByte(e)
    BY <1>2, <2>2 DEF LineCall, GetEnd, PutSome, PutFails, PutKills, Leave, SayOrHear
  <2> QED
    BY <2>1, <2>2
<1>3. CASE NoWelcome \/ Depart \/ Decline \/ TurnAway \/ ServerErr \/ TakeOrder
  BY <1>3 DEF NoWelcome, Depart, Decline, TurnAway, ServerErr, TakeOrder, Close, Leave, SayOrHear
<1>4. CASE Connect \/ AwaitReply \/ AwaitOrder
  BY <1>4 DEF Connect, AwaitReply, AwaitOrder, StartGet, SayOrHear
<1>5. CASE Choose
  <2>1. OrderLine(choice') \in Texts
    BY <1>1, <1>5, ChooseFacts DEF Texts
  <2> QED
    BY <1>1, <1>5, <2>1, ChooseFacts, TheEnds DEF SayOrHear
<1>6. CASE Serve
  <2>1. Welcome \in Texts
    BY DEF Texts
  <2> QED
    BY <1>1, <1>6, <2>1, ServeFacts, TheEnds DEF SayOrHear
<1>7. CASE HandOver
  <2>1. order \in Burgers
    BY <1>1, <1>7 DEF HandOver, SaidInv, Types
  <2>2. Goodbye(order) \in Texts
    BY <2>1 DEF Texts
  <2> QED
    BY <1>1, <1>7, <2>1, <2>2, HandOverFacts, TheEnds DEF SayOrHear
<1>8. ASSUME NEW e \in Ends, Deliver(e) \/ Kill(e) PROVE SayOrHear
  BY <1>8 DEF Deliver, Kill, Leave, SayOrHear
<1>9. CASE UNCHANGED vars
  BY <1>9 DEF vars, SayOrHear
<1> QED
  BY <1>2, <1>3, <1>4, <1>5, <1>6, <1>7, <1>8, <1>9, TheEnds
     DEF Next, ClientStep, ServerStep, Kitchen

LEMMA ChannelStep ==
  ASSUME Types, SayOrHear
  PROVE  /\ [ToServer!Put \/ ToServer!Get]_<<said[Client], heard[Server]>>
         /\ [ToClient!Put \/ ToClient!Get]_<<said[Server], heard[Client]>>
<1>1. said \in [Ends -> Seq(Texts)] /\ heard \in [Ends -> Seq(Seq(Bytes))]
  BY DEF Types
<1>2. ASSUME NEW e \in Ends, NEW t \in Texts,
             said' = [said EXCEPT ![e] = Append(said[e], t)], heard' = heard
      PROVE  /\ [ToServer!Put \/ ToServer!Get]_<<said[Client], heard[Server]>>
             /\ [ToClient!Put \/ ToClient!Get]_<<said[Server], heard[Client]>>
  <2>1. said'[e] = Append(said[e], t) /\ \A d \in Ends : d # e => said'[d] = said[d]
    BY <1>1, <1>2
  <2> QED
    BY <1>2, <2>1, TheEnds DEF ToServer!Put, ToClient!Put
<1>3. ASSUME NEW e \in Ends, Len(heard[e]) < Len(said[Peer(e)]),
             heard' = [heard EXCEPT ![e] = Append(heard[e], said[Peer(e)][Len(heard[e]) + 1])],
             said' = said
      PROVE  /\ [ToServer!Put \/ ToServer!Get]_<<said[Client], heard[Server]>>
             /\ [ToClient!Put \/ ToClient!Get]_<<said[Server], heard[Client]>>
  <2>1. /\ heard'[e] = Append(heard[e], said[Peer(e)][Len(heard[e]) + 1])
        /\ \A d \in Ends : d # e => heard'[d] = heard[d]
    BY <1>1, <1>3
  <2> QED
    BY <1>3, <2>1, TheEnds DEF ToServer!Get, ToClient!Get
<1> QED
  BY <1>2, <1>3 DEF SayOrHear

\* In either direction the lines got are the lines put, whole and in their
\* order: a session implements two LineChannels, for any burgers and BUF_SIZE,
\* however the bytes are split on their way and whenever an end dies.
THEOREM LinesKept == Spec => KeepsLines
<1>1. Init => ToServer!Init /\ ToClient!Init
  BY TheEnds DEF Init, ToServer!Init, ToClient!Init
<1>2. /\ SessionInv /\ SessionInv' /\ [Next]_vars
      => /\ [ToServer!Put \/ ToServer!Get]_<<said[Client], heard[Server]>>
         /\ [ToClient!Put \/ ToClient!Get]_<<said[Server], heard[Client]>>
  BY LinesStep, ChannelStep DEF SessionInv
<1> QED
  BY <1>1, <1>2, SessionInvariant, PTL DEF Spec, KeepsLines, ToServer!Spec, ToClient!Spec

=============================================================================
