---------------------------- MODULE ParallelCRC ----------------------------
(***************************************************************************)
(* The two programs of Homework 11 that compute the CRC of a file with     *)
(* several threads: parallel.semaphore.c adds each part to a global under  *)
(* a semaphore, parallel.rval.c lets main add what the threads return.     *)
(*                                                                         *)
(* The CRC is the exclusive or of the bytes.  A value of it is written as  *)
(* the set of positions that are in it an odd number of times.             *)
(***************************************************************************)
EXTENDS Integers

CONSTANTS
  MaxThreads,  \* MAXTHREAD
  MaxSize      \* bound on the size of the file (not in the code)

ASSUME SizesAssumption == MaxThreads \in Nat \ {0} /\ MaxSize \in Nat

Threads == 0 .. MaxThreads - 1
Positions == 0 .. MaxSize - 1

VARIABLES
  version,    \* which of the two programs
  size,       \* s.st_size
  nthread,
  main, i,    \* main: control point and loop counter
  td,         \* the threads' parameters
  thread,     \* crc8: control points
  crc8,       \* ... what each thread has summed up
  seen,       \* ... what it read before it writes crc
  crc, mutex

file    == <<version, size, nthread>>
mainVars == <<main, i>>
locals  == <<td, crc8, seen>>
vars    == <<file, mainVars, thread, locals, crc, mutex>>

Inside == {"read", "write", "leave"}
Added  == {"leave", "ended"}

TypeOK ==
  /\ version \in {"semaphore", "rval"}
  /\ size \in 0 .. MaxSize /\ nthread \in 0 .. MaxThreads
  /\ main \in {"create", "join", "printed"} /\ i \in 0 .. nthread
  /\ td \in [Threads -> [from : Nat, to : Nat]]
  /\ thread \in [Threads -> {"none", "sum", "enter", "ended"} \cup Inside]
  /\ crc8 \in [Threads -> SUBSET Positions]
  /\ seen \in [Threads -> SUBSET Positions]
  /\ crc \in SUBSET Positions
  /\ mutex \in {0, 1}

XOR(a, b) == (a \ b) \cup (b \ a)

\* Slip in Part: the last thread does not take the rest.
PartOfEqualSize(t) ==
  [from |-> t * (size \div nthread), to |-> (t + 1) * (size \div nthread)]

\* td[t].from and td[t].to.
Part(t) ==
  [from |-> t * (size \div nthread),
   to   |-> IF t < nthread - 1 THEN (t + 1) * (size \div nthread) ELSE size]

Bytes(part) == part.from .. part.to - 1

Init ==
  /\ version \in {"semaphore", "rval"}
  /\ size \in 0 .. MaxSize
  /\ \E wanted \in 1 .. MaxThreads :
       nthread = IF wanted > size THEN size ELSE wanted
  /\ main = "create" /\ i = 0
  /\ td = [t \in Threads |-> [from |-> 0, to |-> 0]]
  /\ thread = [t \in Threads |-> "none"]
  /\ crc8 = [t \in Threads |-> {}]
  /\ seen = [t \in Threads |-> {}]
  /\ crc = {} /\ mutex = 1

(***************************************************************************)
(* main.                                                                   *)
(***************************************************************************)
Create ==
  /\ main = "create" /\ i < nthread
  /\ td' = [td EXCEPT ![i] = Part(i)]
  /\ thread' = [thread EXCEPT ![i] = "sum"]
  /\ i' = i + 1
  /\ UNCHANGED <<file, main, crc8, seen, crc, mutex>>

Created ==
  /\ main = "create" /\ i = nthread
  /\ main' = "join" /\ i' = 0
  /\ UNCHANGED <<file, thread, locals, crc, mutex>>

Join ==
  /\ main = "join" /\ i < nthread /\ thread[i] = "ended"
  /\ i' = i + 1
  /\ crc' = IF version = "rval" THEN XOR(crc, crc8[i]) ELSE crc
  /\ UNCHANGED <<file, main, thread, locals, mutex>>

PrintResult ==
  /\ main = "join" /\ i = nthread
  /\ main' = "printed"
  /\ UNCHANGED <<file, i, thread, locals, crc, mutex>>

(***************************************************************************)
(* crc8: the thread.                                                       *)
(***************************************************************************)
Goto(t, from, to) == thread[t] = from /\ thread' = [thread EXCEPT ![t] = to]

\* The loop reads its own part of the file into a local variable.
Sum(t) ==
  /\ Goto(t, "sum", IF version = "rval" THEN "ended" ELSE "enter")
  /\ crc8' = [crc8 EXCEPT ![t] = Bytes(td[t])]
  /\ UNCHANGED <<file, mainVars, td, seen, crc, mutex>>

\* Slip in SemWait: the semaphore is looked at and not taken.
SemLook(t) ==
  /\ mutex > 0
  /\ Goto(t, "enter", "read")
  /\ UNCHANGED <<file, mainVars, locals, crc, mutex>>

SemWait(t) ==
  /\ mutex > 0
  /\ Goto(t, "enter", "read")
  /\ mutex' = mutex - 1
  /\ UNCHANGED <<file, mainVars, locals, crc>>

\* crc ^= crc8 reads and writes.
ReadCRC(t) ==
  /\ Goto(t, "read", "write")
  /\ seen' = [seen EXCEPT ![t] = crc]
  /\ UNCHANGED <<file, mainVars, td, crc8, crc, mutex>>

WriteCRC(t) ==
  /\ Goto(t, "write", "leave")
  /\ crc' = XOR(seen[t], crc8[t])
  /\ UNCHANGED <<file, mainVars, locals, mutex>>

\* Slip in SemPost: the thread returns without it.
SemKeep(t) ==
  /\ Goto(t, "leave", "ended")
  /\ UNCHANGED <<file, mainVars, locals, crc, mutex>>

SemPost(t) ==
  /\ Goto(t, "leave", "ended")
  /\ mutex' = mutex + 1
  /\ UNCHANGED <<file, mainVars, locals, crc>>

MainStep == Create \/ Created \/ Join \/ PrintResult

ThreadStep(t) ==
  Sum(t) \/ SemWait(t) \/ ReadCRC(t) \/ WriteCRC(t) \/ SemPost(t)

\* The process has exited.
Exited == main = "printed" /\ UNCHANGED vars

Next == MainStep \/ Exited \/ \E t \in Threads : ThreadStep(t)

\* Threads that can run do; a semaphore that is free goes to someone.
Fairness == WF_vars(MainStep) /\ \A t \in Threads : WF_vars(ThreadStep(t))

Spec == Init /\ [][Next]_vars

FairSpec == Spec /\ Fairness

(***************************************************************************)
(* Properties.                                                             *)
(***************************************************************************)

\* The CRC that is printed is the CRC of the file, each byte once: the parts
\* cover it, they do not overlap, and no thread's part is missing or lost
\* (homework README, task; parallel.semaphore.c:142).
CRCOfTheFile == main = "printed" => crc = 0 .. size - 1

\* No update of the global CRC is lost: at any time it is the sum of the parts
\* of the threads that have added theirs (README.md:76 of the homework, "we
\* have to make sure accesses to it are protected with a semaphore").
NoLostUpdate ==
  version = "semaphore" =>
    crc = UNION {Bytes(td[t]) : t \in {u \in Threads : thread[u] \in Added}}

\* main gets to its result: no thread keeps the semaphore, and every thread
\* that is joined ends.
Finishes == <>(main = "printed")

=============================================================================
