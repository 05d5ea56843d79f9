------------------------- MODULE ParallelCRCProofs -------------------------
(***************************************************************************)
(* ParallelCRC prints the CRC of the file, for every file and number of    *)
(* threads.                                                                *)
(***************************************************************************)
EXTENDS ParallelCRC, TLAPS

NCreated == IF main = "create" THEN i ELSE nthread
NJoined  == IF main = "create" THEN 0 ELSE i

\* What each thread has been given and has done with it.
ThreadsKnow ==
  \A t \in Threads :
    /\ thread[t] = "none" <=> t >= NCreated
    /\ thread[t] # "none" => td[t] = Part(t)
    /\ thread[t] \notin {"none", "sum"} => crc8[t] = Bytes(Part(t))
    /\ version = "rval" => thread[t] \in {"none", "sum", "ended"}
    /\ t < NJoined => thread[t] = "ended"

\* The semaphore keeps the threads apart, so what one has read is still there.
OneInside ==
  /\ mutex = 1 => \A t \in Threads : thread[t] \notin Inside
  /\ \A s, t \in Threads : thread[s] \in Inside /\ thread[t] \in Inside => s = t
  /\ \A t \in Threads : thread[t] = "write" => seen[t] = crc

\* Whose parts are in crc.
Counted ==
  IF version = "rval" THEN {t \in Threads : t < NJoined}
  ELSE {t \in Threads : thread[t] \in Added}

CRCInv ==
  /\ TypeOK
  /\ nthread = 0 => size = 0
  /\ ThreadsKnow
  /\ OneInside
  /\ crc = UNION {Bytes(Part(t)) : t \in Counted}
  /\ main = "printed" => i = nthread

(***************************************************************************)
(* The parts of the file.                                                  *)
(***************************************************************************)
LEMMA QuotientFacts ==
  ASSUME NEW s \in Nat, NEW n \in Nat \ {0}
  PROVE  s \div n \in Nat /\ n * (s \div n) <= s
BY SMT

LEMMA ProductMonotone ==
  ASSUME NEW q \in Nat, NEW t \in Nat, NEW u \in Nat, t <= u
  PROVE  t * q \in Nat /\ t * q <= u * q
BY SMT

\* A part lies within the file.
LEMMA PartInside ==
  ASSUME TypeOK, NEW t \in 0 .. nthread - 1
  PROVE  /\ Part(t) \in [from : Nat, to : Nat]
         /\ Bytes(Part(t)) \subseteq 0 .. size - 1
<1> DEFINE q == size \div nthread
<1>1. /\ size \in Nat /\ nthread \in Nat \ {0} /\ t \in Nat
      /\ t + 1 \in Nat /\ t + 1 <= nthread
  BY SizesAssumption DEF TypeOK
<1>2. q \in Nat /\ nthread * q <= size
  BY <1>1, QuotientFacts
<1>3. t * q \in Nat /\ (t + 1) * q \in Nat /\ (t + 1) * q <= nthread * q
  BY <1>1, <1>2, ProductMonotone
<1> HIDE DEF q
<1>4. Part(t) = [from |-> t * q, to |-> IF t < nthread - 1 THEN (t + 1) * q ELSE size]
  BY DEF Part, q
<1> QED
  BY <1>1, <1>2, <1>3, <1>4 DEF Bytes

\* Two parts have no byte in common.
LEMMA PartsApart ==
  ASSUME TypeOK, NEW s \in 0 .. nthread - 1, NEW t \in 0 .. nthread - 1, s < t
  PROVE  Bytes(Part(s)) \cap Bytes(Part(t)) = {}
<1> DEFINE q == size \div nthread
<1>1. /\ size \in Nat /\ nthread \in Nat \ {0} /\ s \in Nat /\ t \in Nat
      /\ s + 1 \in Nat /\ s + 1 <= t /\ s < nthread - 1
  BY SizesAssumption DEF TypeOK
<1>2. q \in Nat
  BY <1>1, QuotientFacts
<1>3. t * q \in Nat /\ (s + 1) * q \in Nat /\ (s + 1) * q <= t * q
  BY <1>1, <1>2, ProductMonotone
<1> HIDE DEF q
<1>4. Part(s).to = (s + 1) * q /\ Part(t).from = t * q
  BY <1>1 DEF Part, q
<1>5. Part(s) \in [from : Nat, to : Nat] /\ Part(t) \in [from : Nat, to : Nat]
  BY PartInside
<1> QED
  BY <1>3, <1>4, <1>5 DEF Bytes

\* Every byte is in a part.
LEMMA PartsCover ==
  ASSUME TypeOK, nthread = 0 => size = 0, NEW x \in 0 .. size - 1
  PROVE  \E t \in 0 .. nthread - 1 : x \in Bytes(Part(t))
<1> DEFINE q == size \div nthread
           last == nthread - 1
<1>1. size \in Nat /\ nthread \in Nat \ {0} /\ x \in Nat /\ last \in Nat
  BY SizesAssumption DEF TypeOK
<1>2. q \in Nat /\ last * q \in Nat
  BY <1>1, QuotientFacts, ProductMonotone
<1>3. \A t \in 0 .. last :
        Part(t) = [from |-> t * q, to |-> IF t < last THEN (t + 1) * q ELSE size]
  BY DEF Part
<1> HIDE DEF q
<1>4. CASE x >= last * q
  <2>1. x \in Bytes(Part(last))
    BY <1>1, <1>2, <1>3, <1>4 DEF Bytes
  <2> QED
    BY <1>1, <2>1
<1>5. CASE x < last * q
  <2>1. q # 0
    BY <1>1, <1>2, <1>5, SMT
  <2> DEFINE t == x \div q
  <2>2. t \in Nat /\ t * q <= x /\ x < (t + 1) * q
    BY <1>1, <1>2, <2>1, SMT
  <2> HIDE DEF t
  <2>3. t < last
    <3>1. CASE last <= t
      BY <1>1, <1>2, <1>5, <2>2, <3>1, ProductMonotone
    <3> QED
      BY <1>1, <2>2, <3>1
  <2>4. t * q \in Nat /\ (t + 1) * q \in Nat
    BY <1>2, <2>2, ProductMonotone
  <2>5. x \in Bytes(Part(t))
    BY <1>1, <1>3, <2>2, <2>3, <2>4 DEF Bytes
  <2> QED
    BY <1>1, <2>2, <2>3, <2>5
<1> QED
  BY <1>1, <1>2, <1>4, <1>5

\* Adding the part of one more thread, which is not in the sum yet.
LEMMA AddPart ==
  ASSUME TypeOK, NEW S \in SUBSET (0 .. nthread - 1),
         NEW t \in 0 .. nthread - 1, t \notin S
  PROVE  XOR(UNION {Bytes(Part(s)) : s \in S}, Bytes(Part(t)))
           = UNION {Bytes(Part(s)) : s \in S \cup {t}}
<1>1. \A s \in S : Bytes(Part(s)) \cap Bytes(Part(t)) = {}
  <2> TAKE s \in S
  <2>1. s # t
    OBVIOUS
  <2>2. s \in 0 .. nthread - 1 /\ nthread \in Int
    BY SizesAssumption DEF TypeOK
  <2>3. CASE s < t
    BY <2>2, <2>3, PartsApart
  <2>4. CASE t < s
    BY <2>2, <2>4, PartsApart
  <2> QED
    BY <2>1, <2>2, <2>3, <2>4
<1> QED
  BY <1>1 DEF XOR

(***************************************************************************)
(* The invariant.                                                          *)
(***************************************************************************)
LEMMA CRCInitially == Init => CRCInv
<1> SUFFICES ASSUME Init PROVE CRCInv
  OBVIOUS
<1>1. nthread \in 0 .. MaxThreads /\ (nthread = 0 => size = 0)
  BY SizesAssumption DEF Init
<1>2. TypeOK
  BY <1>1, SizesAssumption DEF Init, TypeOK, Inside
<1>3. ThreadsKnow /\ OneInside
  BY DEF Init, ThreadsKnow, OneInside, NCreated, NJoined, Threads, Inside
<1>4. Counted = {}
  BY DEF Init, Counted, NJoined, Threads, Added
<1> QED
  BY <1>1, <1>2, <1>3, <1>4 DEF CRCInv, Init

\* The file and the number of threads are settled, and so are the parts.
LEMMA PartsStay ==
  ASSUME UNCHANGED file
  PROVE  \A t : Part(t)' = Part(t)
BY DEF file, Part

LEMMA CreateKeeps ==
  ASSUME CRCInv, Create
  PROVE  CRCInv'
<1>1. \A t \in Threads : Part(t)' = Part(t)
  BY PartsStay DEF Create
<1>2. i \in 0 .. nthread - 1 /\ i \in Threads
  BY SizesAssumption DEF CRCInv, TypeOK, Create, Threads
<1>3. Part(i) \in [from : Nat, to : Nat]
  BY <1>2, PartInside DEF CRCInv
<1>4. thread[i] = "none"
  BY <1>2 DEF CRCInv, ThreadsKnow, NCreated, Create, TypeOK
<1>5. TypeOK'
  BY <1>2, <1>3 DEF CRCInv, TypeOK, Create, file
<1>6. ThreadsKnow'
  BY <1>1, <1>2, <1>4 DEF CRCInv, TypeOK, ThreadsKnow, NCreated, NJoined, Create, file, Threads
<1>7. OneInside'
  BY DEF CRCInv, TypeOK, OneInside, Create, Inside
<1>8. Counted' = Counted
  BY <1>2, <1>4 DEF CRCInv, TypeOK, Counted, NJoined, Create, file, Added
<1>9. \A t \in Counted : t \in Threads
  BY DEF Counted
<1> QED
  BY <1>1, <1>5, <1>6, <1>7, <1>8, <1>9 DEF CRCInv, Create, file

LEMMA CreatedKeeps ==
  ASSUME CRCInv, Created
  PROVE  CRCInv'
<1>1. \A t \in Threads : Part(t)' = Part(t)
  BY PartsStay DEF Created
<1>2. TypeOK'
  BY DEF CRCInv, TypeOK, Created, file, locals
<1>3. ThreadsKnow'
  BY <1>1 DEF CRCInv, TypeOK, ThreadsKnow, NCreated, NJoined, Created, file, locals, Threads
<1>4. OneInside'
  BY DEF CRCInv, OneInside, Created, locals
<1>5. Counted' = Counted
  BY DEF CRCInv, TypeOK, Counted, NJoined, Created, file, Threads
<1>6. \A t \in Counted : t \in Threads
  BY DEF Counted
<1> QED
  BY <1>1, <1>2, <1>3, <1>4, <1>5, <1>6 DEF CRCInv, Created, file

LEMMA JoinKeeps ==
  ASSUME CRCInv, Join
  PROVE  CRCInv'
<1>1. \A t \in Threads : Part(t)' = Part(t)
  BY PartsStay DEF Join
<1>2. i \in 0 .. nthread - 1 /\ i \in Threads
  BY SizesAssumption DEF CRCInv, TypeOK, Join, Threads
<1>3. ThreadsKnow'
  BY <1>1, <1>2 DEF CRCInv, TypeOK, ThreadsKnow, NCreated, NJoined, Join, file, locals, Threads
<1>4. CASE version = "rval"
  <2>1. Counted \subseteq 0 .. nthread - 1 /\ i \notin Counted
    BY <1>2, <1>4 DEF CRCInv, TypeOK, Counted, NJoined, Join, Threads
  <2>2. Counted' = Counted \cup {i}
    BY <1>2, <1>4 DEF CRCInv, TypeOK, Counted, NJoined, Join, file, Threads
  <2>3. crc8[i] = Bytes(Part(i))
    BY <1>2 DEF CRCInv, ThreadsKnow, Join
  <2>4. crc' = XOR(UNION {Bytes(Part(t)) : t \in Counted}, Bytes(Part(i)))
    BY <1>4, <2>3 DEF CRCInv, Join
  <2>5. crc' = UNION {Bytes(Part(t)) : t \in Counted'}
    BY <1>2, <2>1, <2>2, <2>4, AddPart DEF CRCInv
  <2>6. \A t \in Counted' : t \in Threads
    BY <1>2, <2>2 DEF Counted
  <2>7. crc' = (UNION {Bytes(Part(t)) : t \in Counted})'
    BY <1>1, <2>5, <2>6 DEF Bytes
  <2>8. \A t \in Threads : thread[t] \notin Inside
    BY <1>4 DEF CRCInv, ThreadsKnow, Inside
  <2>9. OneInside'
    BY <2>8 DEF OneInside, Join, Inside, TypeOK, CRCInv
  <2>10. crc' \in SUBSET Positions
    BY <1>2, <2>3, <1>4 DEF CRCInv, TypeOK, Join, XOR
  <2>11. TypeOK'
    BY <1>2, <2>10 DEF CRCInv, TypeOK, Join, file, locals
  <2> QED
    BY <1>3, <2>7, <2>9, <2>11 DEF CRCInv, Join, file
<1>5. CASE version # "rval"
  <2>1. Counted' = Counted
    BY <1>5 DEF Counted, Join, file
  <2>2. \A t \in Counted : t \in Threads
    BY DEF Counted
  <2>3. crc' = (UNION {Bytes(Part(t)) : t \in Counted})'
    BY <1>1, <1>5, <2>1, <2>2 DEF CRCInv, Join, Bytes
  <2>4. OneInside'
    BY <1>5 DEF CRCInv, OneInside, Join, locals
  <2>5. TypeOK'
    BY <1>2, <1>5 DEF CRCInv, TypeOK, Join, file, locals
  <2> QED
    BY <1>3, <2>3, <2>4, <2>5 DEF CRCInv, Join, file
<1> QED
  BY <1>4, <1>5

LEMMA PrintKeeps ==
  ASSUME CRCInv, PrintResult
  PROVE  CRCInv'
<1>1. \A t \in Threads : Part(t)' = Part(t)
  BY PartsStay DEF PrintResult
<1>2. TypeOK'
  BY DEF CRCInv, TypeOK, PrintResult, file, locals
<1>3. ThreadsKnow'
  BY <1>1 DEF CRCInv, TypeOK, ThreadsKnow, NCreated, NJoined, PrintResult, file, locals
<1>4. OneInside'
  BY DEF CRCInv, OneInside, PrintResult, locals
<1>5. Counted' = Counted
  BY DEF Counted, NJoined, PrintResult, file
<1>6. \A t \in Counted : t \in Threads
  BY DEF Counted
<1> QED
  BY <1>1, <1>2, <1>3, <1>4, <1>5, <1>6 DEF CRCInv, PrintResult, file

\* A thread that has been created has a part.
LEMMA AThreadHasItsPart ==
  ASSUME CRCInv, NEW t \in Threads, thread[t] # "none"
  PROVE  /\ t \in 0 .. nthread - 1
         /\ td[t] = Part(t)
         /\ Bytes(Part(t)) \in SUBSET Positions
<1>1. t < NCreated
  BY DEF CRCInv, ThreadsKnow, NCreated, TypeOK, Threads
<1>2. t \in 0 .. nthread - 1
  BY <1>1, SizesAssumption DEF CRCInv, TypeOK, NCreated, Threads
<1>3. Bytes(Part(t)) \subseteq 0 .. size - 1
  BY <1>2, PartInside DEF CRCInv
<1> QED
  BY <1>2, <1>3, SizesAssumption DEF CRCInv, ThreadsKnow, TypeOK, Positions

LEMMA ThreadKeeps ==
  ASSUME CRCInv, NEW t \in Threads, ThreadStep(t)
  PROVE  CRCInv'
<1> USE DEF Goto
<1>1. \A u \in Threads : Part(u)' = Part(u)
  BY PartsStay DEF ThreadStep, Sum, SemWait, ReadCRC, WriteCRC, SemPost
<1>2. /\ t \in 0 .. nthread - 1 /\ td[t] = Part(t)
      /\ Bytes(Part(t)) \in SUBSET Positions
  BY AThreadHasItsPart DEF ThreadStep, Sum, SemWait, ReadCRC, WriteCRC, SemPost
<1>3. thread[t] # "ended" /\ ~ t < NJoined
  BY DEF ThreadStep, Sum, SemWait, ReadCRC, WriteCRC, SemPost, CRCInv, ThreadsKnow
<1>4. /\ UNCHANGED <<file, mainVars, td>> /\ NCreated' = NCreated /\ NJoined' = NJoined
      /\ \A u \in Threads : u # t => thread'[u] = thread[u]
      /\ thread'[t] # "none" /\ thread[t] # "none"
  <2>1. UNCHANGED <<file, mainVars, td>>
    BY DEF ThreadStep, Sum, SemWait, ReadCRC, WriteCRC, SemPost, locals
  <2>2. NCreated' = NCreated /\ NJoined' = NJoined
    BY <2>1 DEF NCreated, NJoined, file, mainVars
  <2>3. \E from, to \in {"sum", "enter", "ended"} \cup Inside :
          thread[t] = from /\ thread' = [thread EXCEPT ![t] = to]
    BY DEF ThreadStep, Sum, SemWait, ReadCRC, WriteCRC, SemPost, Inside
  <2>4. thread \in [Threads -> {"none", "sum", "enter", "ended"} \cup Inside]
    BY DEF CRCInv, TypeOK
  <2> QED
    BY <2>1, <2>2, <2>3, <2>4 DEF Inside
<1>5. \A u \in Counted : u \in Threads
  BY DEF Counted
<1>6. ASSUME TypeOK', ThreadsKnow', OneInside', Counted' = Counted, UNCHANGED crc
      PROVE  CRCInv'
  BY <1>1, <1>4, <1>5, <1>6 DEF CRCInv, file, mainVars
<1>7. CASE Sum(t)
  <2>1. TypeOK'
    BY <1>2, <1>7 DEF CRCInv, TypeOK, Sum, file, mainVars
  <2>2. ThreadsKnow'
    BY <1>1, <1>2, <1>3, <1>4, <1>7 DEF CRCInv, TypeOK, ThreadsKnow, Sum, file, mainVars
  <2>3. OneInside'
    BY <1>4, <1>7 DEF CRCInv, TypeOK, OneInside, Sum, Inside
  <2>4. Counted' = Counted
    BY <1>4, <1>7 DEF Counted, Sum, Added, file, CRCInv, TypeOK
  <2> QED
    BY <1>6, <1>7, <2>1, <2>2, <2>3, <2>4 DEF Sum
<1>8. CASE SemWait(t)
  <2>1. TypeOK' /\ mutex = 1 /\ mutex' = 0
    BY <1>8 DEF CRCInv, TypeOK, SemWait, file, mainVars, locals, Inside
  <2>2. ThreadsKnow'
    BY <1>1, <1>2, <1>3, <1>4, <1>8 DEF CRCInv, TypeOK, ThreadsKnow, SemWait, file, mainVars, locals
  <2>3. OneInside'
    BY <1>4, <1>8, <2>1 DEF CRCInv, TypeOK, OneInside, SemWait, Inside, locals
  <2>4. Counted' = Counted
    BY <1>4, <1>8 DEF Counted, SemWait, Added, file, CRCInv, TypeOK
  <2> QED
    BY <1>6, <1>8, <2>1, <2>2, <2>3, <2>4 DEF SemWait
<1>9. CASE ReadCRC(t)
  <2>1. TypeOK'
    BY <1>9 DEF CRCInv, TypeOK, ReadCRC, file, mainVars, Inside
  <2>2. ThreadsKnow'
    BY <1>1, <1>2, <1>3, <1>4, <1>9 DEF CRCInv, TypeOK, ThreadsKnow, ReadCRC, file, mainVars
  <2>3. OneInside'
    BY <1>4, <1>9 DEF CRCInv, TypeOK, OneInside, ReadCRC, Inside
  <2>4. Counted' = Counted
    BY <1>4, <1>9 DEF Counted, ReadCRC, Added, file, CRCInv, TypeOK
  <2> QED
    BY <1>6, <1>9, <2>1, <2>2, <2>3, <2>4 DEF ReadCRC
<1>10. CASE SemPost(t)
  <2>1. mutex = 0
    BY <1>10 DEF CRCInv, TypeOK, OneInside, SemPost, Inside
  <2>2. TypeOK'
    BY <1>10, <2>1 DEF CRCInv, TypeOK, SemPost, file, mainVars, locals, Inside
  <2>3. ThreadsKnow'
    BY <1>1, <1>2, <1>3, <1>4, <1>10 DEF CRCInv, TypeOK, ThreadsKnow, SemPost, file, mainVars, locals
  <2>4. OneInside'
    BY <1>4, <1>10 DEF CRCInv, TypeOK, OneInside, SemPost, Inside, locals
  <2>5. Counted' = Counted
    BY <1>4, <1>10 DEF Counted, SemPost, Added, file, CRCInv, TypeOK
  <2> QED
    BY <1>6, <1>10, <2>2, <2>3, <2>4, <2>5 DEF SemPost
<1>11. CASE WriteCRC(t)
  <2>1. version # "rval" /\ seen[t] = crc /\ crc8[t] = Bytes(Part(t))
    BY <1>11 DEF CRCInv, ThreadsKnow, OneInside, WriteCRC
  <2>2. crc' = XOR(crc, Bytes(Part(t)))
    BY <1>11, <2>1 DEF WriteCRC
  <2>3. TypeOK'
    BY <1>2, <1>11, <2>2 DEF CRCInv, TypeOK, WriteCRC, XOR, file, mainVars, locals, Inside
  <2>4. ThreadsKnow'
    BY <1>1, <1>2, <1>3, <1>4, <1>11 DEF CRCInv, TypeOK, ThreadsKnow, WriteCRC, file, mainVars, locals
  <2>5. \A u \in Threads : u # t => thread[u] # "write"
    BY <1>11 DEF CRCInv, OneInside, WriteCRC, Inside
  <2>6. OneInside'
    BY <1>4, <1>11, <2>5 DEF CRCInv, TypeOK, OneInside, WriteCRC, Inside, locals
  <2>7. Counted \subseteq 0 .. nthread - 1
    BY <2>1, AThreadHasItsPart DEF Counted, Added
  <2>8. t \notin Counted /\ Counted' = Counted \cup {t}
    BY <1>4, <1>11, <2>1 DEF Counted, WriteCRC, Added, file, CRCInv, TypeOK
  <2>9. crc' = UNION {Bytes(Part(u)) : u \in Counted \cup {t}}
    BY <1>2, <2>2, <2>7, <2>8, AddPart DEF CRCInv
  <2>10. crc' = (UNION {Bytes(Part(u)) : u \in Counted})'
    BY <1>1, <1>5, <2>8, <2>9 DEF Bytes
  <2> QED
    BY <1>4, <2>3, <2>4, <2>6, <2>10 DEF CRCInv, file, mainVars
<1> QED
  BY <1>7, <1>8, <1>9, <1>10, <1>11 DEF ThreadStep

LEMMA CRCStutters ==
  ASSUME CRCInv, UNCHANGED vars
  PROVE  CRCInv'
<1>1. \A t : Part(t)' = Part(t)
  BY PartsStay DEF vars
<1>2. Counted' = Counted
  BY DEF vars, file, mainVars, Counted, NJoined
<1> QED
  BY <1>1, <1>2 DEF CRCInv, vars, file, mainVars, locals, TypeOK, ThreadsKnow,
                    OneInside, NCreated, NJoined, Bytes

\* The inductive invariant of both programs: which thread knows what, who is
\* inside the semaphore, and whose parts have been added (parallel.semaphore.c,
\* parallel.rval.c).
THEOREM CRCCorrect == Spec => []CRCInv
<1>1. CRCInv /\ [Next]_vars => CRCInv'
  <2> SUFFICES ASSUME CRCInv, [Next]_vars PROVE CRCInv'
    OBVIOUS
  <2>1. CASE MainStep
    BY <2>1, CreateKeeps, CreatedKeeps, JoinKeeps, PrintKeeps DEF MainStep
  <2>2. CASE \E t \in Threads : ThreadStep(t)
    BY <2>2, ThreadKeeps
  <2>3. CASE UNCHANGED vars
    BY <2>3, CRCStutters
  <2> QED
    BY <2>1, <2>2, <2>3 DEF Next, Exited
<1> QED
  BY CRCInitially, <1>1, PTL DEF Spec

\* The semaphore is 0 or 1, and parts and sums lie in the file.
THEOREM CRCTypes == Spec => []TypeOK
<1>1. CRCInv => TypeOK
  BY DEF CRCInv
<1> QED
  BY <1>1, CRCCorrect, PTL

\* No update of the global CRC is lost, however many threads there are.
THEOREM UpdatesAreKept == Spec => []NoLostUpdate
<1>1. CRCInv => NoLostUpdate
  <2> SUFFICES ASSUME CRCInv, version = "semaphore" PROVE NoLostUpdate
    BY DEF NoLostUpdate
  <2>1. \A t \in Counted : td[t] = Part(t)
    BY DEF Counted, Added, CRCInv, ThreadsKnow
  <2>2. Counted = {t \in Threads : thread[t] \in Added}
    BY DEF Counted
  <2> QED
    BY <2>1, <2>2 DEF CRCInv, NoLostUpdate
<1> QED
  BY <1>1, CRCCorrect, PTL

\* What is printed is the CRC of the file: every byte is counted, and once,
\* for every size of the file and number of threads.
THEOREM CRCIsRight == Spec => []CRCOfTheFile
<1>1. CRCInv => CRCOfTheFile
  <2> SUFFICES ASSUME CRCInv, main = "printed" PROVE crc = 0 .. size - 1
    BY DEF CRCOfTheFile
  <2>1. \A t \in Threads : t < nthread => thread[t] = "ended"
    BY DEF CRCInv, ThreadsKnow, NJoined
  <2>2. \A t \in Threads : t < nthread <=> thread[t] # "none"
    BY SizesAssumption DEF CRCInv, ThreadsKnow, NCreated, TypeOK, Threads
  <2>3. Counted = 0 .. nthread - 1
    <3>1. 0 .. nthread - 1 = {t \in Threads : t < nthread}
      BY SizesAssumption DEF CRCInv, TypeOK, Threads
    <3>2. \A t \in Threads : thread[t] \in Added => t < nthread
      BY <2>2 DEF Added
    <3> QED
      BY <2>1, <3>1, <3>2 DEF Counted, Added, NJoined, CRCInv
  <2>4. \A x \in 0 .. size - 1 : \E t \in 0 .. nthread - 1 : x \in Bytes(Part(t))
    BY PartsCover DEF CRCInv
  <2>5. \A t \in 0 .. nthread - 1 : Bytes(Part(t)) \subseteq 0 .. size - 1
    BY PartInside DEF CRCInv
  <2> QED
    BY <2>3, <2>4, <2>5 DEF CRCInv
<1> QED
  BY <1>1, CRCCorrect, PTL

=============================================================================
