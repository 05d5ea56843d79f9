-------------------------- MODULE JobControlProofs --------------------------
(***************************************************************************)
(* The job list agrees with the processes and with what the shell waits    *)
(* for, for every size of the list, every set of pids and every set of     *)
(* command lines, however the handlers nest; and the lines it runs are     *)
(* understood.                                                             *)
(***************************************************************************)
EXTENDS Shell, ParseLineProofs

\* A handler blocks its own signal, so each is active at most once, and the
\* job of a handler's activation is one it can run into.
HandlersNest ==
  /\ \A k, l \in DOMAIN handlers : handlers[k].sig = handlers[l].sig => k = l
  /\ \A k \in DOMAIN handlers :
       handlers[k].sig = "CHLD" <=> handlers[k].at \notin {"kill", "mark"}

\* What the SIGCHLD handler is deleting has been reaped.
DeletingIsGone == \A p \in Pids : Deleting(p) => proc[p] = "none"

\* Between fork and addjob: no SIGCHLD handler, and the child is not listed.
ForkedIsNew ==
  pc = "forked" =>
    /\ ~Active("CHLD")
    /\ pid \in Pids /\ proc[pid] # "none"
    /\ \A i \in Slots : jobs[i].pid # pid

\* The slot of do_bgfg, or of addjob, holds its job still, or nothing any more;
\* addjob is called for the last command of a line.
PickedOrCleared ==
  /\ pc \in {"continue", "mark", "filling"} =>
       job \in Slots /\ jobs[job].pid \in {0, pid}
  /\ pc = "filling" => IsLast

ShellInv ==
  /\ TypeOK /\ HandlersNest /\ DeletingIsGone
  /\ ListedAreChildren /\ OneSlotPerProcess
  /\ ForkedIsNew /\ PickedOrCleared
  /\ ForegroundIsAwaited
  /\ NothingUnnoticed

(***************************************************************************)
(* Searching the job list.                                                 *)
(***************************************************************************)

\* A set of numbers that is not empty has a smallest one.
LEMMA SmallestExists ==
  ASSUME NEW S \in SUBSET Nat, S # {}
  PROVE  \E i \in S : \A j \in S : i <= j
<1>1. PICK i \in S : \A j \in S : ~ (<<j, i>> \in OpToRel(<, Nat))
  BY NatLessThanWellFounded, WFMin
<1>2. \A j \in S : ~ (j < i)
  BY <1>1 DEF OpToRel
<1> QED
  BY <1>2

\* First returns a slot of the set, if there is one, and else NoSlot.
LEMMA FirstSpec ==
  ASSUME NEW S \in SUBSET Slots
  PROVE  /\ S = {} => First(S) = NoSlot
         /\ S # {} => First(S) \in S
         /\ First(S) \in {NoSlot} \cup Slots
         /\ First(S) # NoSlot => First(S) \in S
<1>1. S \in SUBSET Nat
  BY DEF Slots
<1>2. CASE S # {}
  <2>1. \E i \in S : \A j \in S : i <= j
    BY <1>1, <1>2, SmallestExists
  <2>2. First(S) \in S
    BY <1>2, <2>1 DEF First
  <2> QED
    BY <1>2, <2>2
<1>3. CASE S = {}
  BY <1>3 DEF First
<1> QED
  BY <1>2, <1>3

\* maxjid is a job ID or 0.
LEMMA MaxjidNat ==
  ASSUME NEW list \in [Slots -> Slot]
  PROVE  maxjid(list) \in Nat
<1> DEFINE U == {0} \cup {list[i].jid : i \in Slots}
           Bad == {n \in 0 .. MaxJobs :
                     ~ \E m \in U : \A i \in 1 .. n : list[i].jid <= m}
<1>1. /\ U \subseteq Nat /\ MaxJobs \in Nat
      /\ \A i \in 1 .. MaxJobs : list[i].jid \in U
  BY ShellAssumption DEF ShellAssumption, Slot, Slots
<1>2. Bad = {}
  <2> SUFFICES ASSUME Bad # {} PROVE FALSE
    OBVIOUS
  <2>1. Bad \in SUBSET Nat
    BY <1>1
  <2> HIDE DEF Bad, U
  <2>2. PICK n \in Bad : \A k \in Bad : n <= k
    BY <2>1, SmallestExists
  <2> USE DEF Bad
  <2>3. n # 0
    BY DEF U
  <2>4. n \in Nat /\ n \in 1 .. MaxJobs /\ n - 1 \in 0 .. MaxJobs /\ ~ n <= n - 1
    BY <2>3, <1>1
  <2>5. \E m \in U : \A i \in 1 .. n - 1 : list[i].jid <= m
    BY <2>2, <2>4
  <2>6. PICK m \in U : \A i \in 1 .. n - 1 : list[i].jid <= m
    BY <2>5
  <2> HIDE DEF Bad
  <2>7. list[n].jid \in U /\ list[n].jid \in Nat /\ m \in Nat
    BY <1>1, <2>4
  <2>8. \A i \in 1 .. n : i = n \/ i \in 1 .. n - 1
    BY <2>4
  <2>9. \A i \in 1 .. n : list[i].jid \in Nat
    <3>1. \A i \in 1 .. n : i \in 1 .. MaxJobs
      BY <1>1, <2>4
    <3> QED
      BY <3>1, <1>1
  <2>10. ~ \E k \in U : \A i \in 1 .. n : list[i].jid <= k
    BY <2>2 DEF Bad
  <2>11. CASE list[n].jid <= m
    BY <2>6, <2>8, <2>10, <2>11
  <2>12. CASE m < list[n].jid
    <3>1. \A i \in 1 .. n : list[i].jid <= list[n].jid
      BY <2>6, <2>7, <2>8, <2>9, <2>12
    <3> QED
      BY <3>1, <2>7, <2>10
  <2> QED
    BY <2>7, <2>11, <2>12
<1>3. \E m \in U : \A i \in Slots : list[i].jid <= m
  <2>1. MaxJobs \in 0 .. MaxJobs /\ MaxJobs \notin Bad
    BY <1>1, <1>2
  <2> HIDE DEF U
  <2> QED
    BY <2>1 DEF Slots
<1> QED
  BY <1>1, <1>3 DEF maxjid

(***************************************************************************)
(* What the updates of the job list change.                                *)
(***************************************************************************)

\* SetState changes the state of one slot, or nothing.
LEMMA SetStateSpec ==
  ASSUME jobs \in [Slots -> Slot], nextjid \in Nat,
         NEW i \in {NoSlot} \cup Slots, NEW state \in {FG, BG, ST, UNDEF},
         SetState(i, state)
  PROVE  /\ jobs' \in [Slots -> Slot] /\ nextjid' \in Nat
         /\ \A k \in Slots :
              /\ jobs'[k].pid = jobs[k].pid
              /\ k = i => jobs'[k].state = state
              /\ k # i => jobs'[k].state = jobs[k].state
  BY DEF SetState, Slot

\* deletejob clears the slot of the process, if it has one, and no other.
LEMMA DeletejobSpec ==
  ASSUME jobs \in [Slots -> Slot], nextjid \in Nat, OneSlotPerProcess,
         NEW p \in {0} \cup Pids, deletejob(p)
  PROVE  /\ jobs' \in [Slots -> Slot] /\ nextjid' \in Nat
         /\ \A k \in Slots : jobs[k].pid # p => jobs'[k] = jobs[k]
         /\ \A k \in Listed :
              jobs[k].pid = p => jobs'[k].pid = 0 /\ jobs'[k].state = UNDEF
         /\ \A k \in Slots : jobs'[k].pid \in {0, jobs[k].pid}
<1> DEFINE S == {s \in Slots : jobs[s].pid = p}
           i == getjobpid(p)
<1>1. CASE i = NoSlot
  <2>1. p < 1 \/ S = {}
    <3>1. S # {} => First(S) \in Slots
      BY FirstSpec
    <3> QED
      BY <1>1, <3>1 DEF getjobpid, Slots, NoSlot
  <2>2. UNCHANGED table
    BY <1>1 DEF deletejob
  <2> QED
    BY <2>1, <2>2, ShellAssumption DEF table, Listed, Slot, ShellAssumption
<1>2. CASE i # NoSlot
  <2>1. i \in S
    BY <1>2, FirstSpec DEF getjobpid
  <2>2. /\ jobs' = [jobs EXCEPT ![i] = Cleared]
        /\ nextjid' = maxjid(jobs') + 1
    BY <1>2 DEF deletejob
  <2> HIDE DEF i
  <2>3. jobs' \in [Slots -> Slot]
    BY <2>1, <2>2 DEF Slot, Cleared
  <2>4. nextjid' \in Nat
    <3>1. \A list \in [Slots -> Slot] : maxjid(list) \in Nat
      BY MaxjidNat
    <3> HIDE DEF maxjid
    <3>2. maxjid(jobs') \in Nat
      BY <2>3, <3>1
    <3> QED
      BY <2>2, <3>2
  <2>5. \A k \in Listed : jobs[k].pid = p => k = i
    BY <2>1 DEF OneSlotPerProcess, Listed
  <2> QED
    BY <2>1, <2>2, <2>3, <2>4, <2>5 DEF Cleared, Listed
<1> QED
  BY <1>1, <1>2

(***************************************************************************)
(* What happens to the stack of activations.                               *)
(***************************************************************************)
LEMMA EnterSpec ==
  ASSUME handlers \in Seq(Activation),
         NEW act \in Activation, handlers' = Append(handlers, act)
  PROVE  /\ handlers' \in Seq(Activation)
         /\ DOMAIN handlers' = DOMAIN handlers \cup {Len(handlers) + 1}
         /\ Len(handlers) + 1 \notin DOMAIN handlers
         /\ \A k \in DOMAIN handlers : handlers'[k] = handlers[k]
         /\ handlers'[Len(handlers) + 1] = act
  BY AppendProperties, LenProperties

LEMMA ReturnSpec ==
  ASSUME handlers \in Seq(Activation), handlers # <<>>, Return
  PROVE  /\ handlers' \in Seq(Activation)
         /\ DOMAIN handlers' = DOMAIN handlers \ {Len(handlers)}
         /\ \A k \in DOMAIN handlers' : handlers'[k] = handlers[k]
<1>1. Len(handlers) \in Nat \ {0} /\ DOMAIN handlers = 1 .. Len(handlers)
  BY EmptySeq, LenProperties
<1>2. /\ handlers' \in Seq(Activation)
      /\ Len(handlers') = Len(handlers) - 1
      /\ \A k \in 1 .. Len(handlers) - 1 : handlers'[k] = handlers[k]
  BY <1>1, SubSeqProperties DEF Return
<1>3. DOMAIN handlers' = 1 .. Len(handlers) - 1
  BY <1>2, LenProperties
<1> QED
  BY <1>1, <1>2, <1>3

LEMMA GoToSpec ==
  ASSUME handlers \in Seq(Activation), handlers # <<>>,
         NEW at \in {"reap", "exited", "stopped", "continued", "kill", "mark"},
         NEW p \in {0} \cup Pids, GoTo(at, p)
  PROVE  /\ handlers' \in Seq(Activation)
         /\ DOMAIN handlers' = DOMAIN handlers
         /\ Len(handlers) \in DOMAIN handlers /\ Top \in Activation
         /\ \A k \in DOMAIN handlers : handlers'[k].sig = handlers[k].sig
         /\ \A k \in DOMAIN handlers \ {Len(handlers)} : handlers'[k] = handlers[k]
         /\ handlers'[Len(handlers)].at = at /\ handlers'[Len(handlers)].pid = p
<1>1. Len(handlers) \in DOMAIN handlers /\ DOMAIN handlers = 1 .. Len(handlers)
      /\ Len(handlers) \in Nat
  BY EmptySeq, LenProperties
<1>2. \A k \in DOMAIN handlers : handlers[k] \in Activation
  BY ElementOfSeq, <1>1
<1>3. handlers' = [handlers EXCEPT ![Len(handlers)].at = at,
                                   ![Len(handlers)].pid = p]
  BY DEF GoTo
<1>4. DOMAIN handlers' = DOMAIN handlers
      /\ \A k \in DOMAIN handlers : handlers'[k] \in Activation
  BY <1>1, <1>2, <1>3 DEF Activation
<1>5. handlers' = [k \in 1 .. Len(handlers) |-> handlers'[k]]
  BY <1>1, <1>3
<1>6. handlers' \in Seq(Activation)
  BY <1>1, <1>4, <1>5, SeqDef
<1> QED
  BY <1>1, <1>2, <1>3, <1>6 DEF Activation, Top

(***************************************************************************)
(* The invariant holds at the start, and no step breaks it.                *)
(***************************************************************************)
LEMMA ShellInit == Init => ShellInv
<1> SUFFICES ASSUME Init PROVE ShellInv
  OBVIOUS
<1>1. handlers \in Seq(Activation) /\ DOMAIN handlers = {}
  BY EmptySeq DEF Init
<1>2. TypeOK
  BY <1>1 DEF Init, TypeOK, Slot, Cleared, NoLine
<1>3. Listed = {}
  BY DEF Init, Listed, Cleared
<1> QED
  BY <1>1, <1>2, <1>3
  DEF Init, ShellInv, HandlersNest, DeletingIsGone, Deleting, ListedAreChildren,
      OneSlotPerProcess, ForkedIsNew, PickedOrCleared, ForegroundIsAwaited, NothingUnnoticed

\* Past the prompt there is a line and a command at hand.
LEMMA LineInHand ==
  ASSUME ShellInv, pc # "read"
  PROVE  line \in Lines /\ cmd_idx \in 1 .. Len(line.cmds) /\ Len(line.cmds) \in Nat
         /\ line.mode \in {FG, BG} /\ Command \in Commands
<1>1. line \in [cmds : Seq(Commands) \ {<<>>}, mode : {FG, BG}, outfile : BOOLEAN]
  BY ShellAssumption DEF ShellInv, TypeOK, ShellAssumption
<1>2. line.cmds \in Seq(Commands)
  BY <1>1
<1> QED
  BY <1>1, <1>2, ElementOfSeq, LenProperties DEF ShellInv, TypeOK, Command

\* What follows a command: the next one of the line, or the prompt.
LEMMA NextCommandSpec ==
  ASSUME ShellInv, pc # "read", NextCommand
  PROVE  /\ pc' \in {"read", "command"} /\ pid' = 0 /\ job' = NoSlot
         /\ IF pc' = "read" THEN line' = NoLine /\ cmd_idx' = 1
            ELSE line' \in Lines /\ cmd_idx' \in 1 .. Len(line'.cmds)
<1>1. line \in Lines /\ cmd_idx \in 1 .. Len(line.cmds) /\ Len(line.cmds) \in Nat
  BY LineInHand
<1> QED
  BY <1>1 DEF NextCommand, IsLast

\* A fg or bg argument names a slot with that job, or none.
LEMMA NamedSpec ==
  ASSUME ShellInv, pc # "read"
  PROVE  Named \in {NoSlot} \cup Slots
<1>1. Command.arg \in {"none", "jid", "pid"}
  BY LineInHand DEF Commands
<1>2. \A n : getjobpid(n) \in {NoSlot} \cup Slots
  BY FirstSpec DEF getjobpid
<1>3. \A n : getjobjid(n) \in {NoSlot} \cup Slots
  BY FirstSpec DEF getjobjid
<1> QED
  BY <1>1, <1>2, <1>3 DEF Named

\* The parts of the invariant that a step of the main program leaves alone
\* when it changes neither the list nor the children.
LEMMA ListUntouched ==
  ASSUME ShellInv, UNCHANGED <<table, handlers, chld, children>>
  PROVE  /\ HandlersNest' /\ DeletingIsGone' /\ ListedAreChildren'
         /\ OneSlotPerProcess' /\ NothingUnnoticed'
  BY DEF ShellInv, table, children, HandlersNest, DeletingIsGone, Deleting,
     ListedAreChildren, Listed, OneSlotPerProcess, NothingUnnoticed, Active

\* The same when only states in the list change.
LEMMA StatesTouched ==
  ASSUME ShellInv, UNCHANGED <<handlers, chld, children>>,
         \A k \in Slots : jobs'[k].pid = jobs[k].pid
  PROVE  /\ HandlersNest' /\ DeletingIsGone' /\ ListedAreChildren'
         /\ OneSlotPerProcess' /\ NothingUnnoticed'
  BY DEF ShellInv, children, HandlersNest, DeletingIsGone, Deleting,
     ListedAreChildren, Listed, OneSlotPerProcess, NothingUnnoticed, Active

LEMMA MainPreserves ==
  ASSUME ShellInv, MainStep
  PROVE  ShellInv'
<1>1. CASE ReadLine
  <2>1. TypeOK'
    BY <1>1, ShellAssumption, LenProperties DEF ReadLine, ShellInv, TypeOK, InMain, table, children, main, ShellAssumption, NoLine
  <2>2. /\ HandlersNest' /\ DeletingIsGone' /\ ListedAreChildren'
        /\ OneSlotPerProcess' /\ NothingUnnoticed'
    BY <1>1, ListUntouched DEF ReadLine, ShellInv, TypeOK, InMain, table, children, main
  <2>3. ForkedIsNew' /\ PickedOrCleared' /\ ForegroundIsAwaited'
    BY <1>1 DEF ReadLine, ShellInv, TypeOK, InMain, table, children, main,
       ForkedIsNew, PickedOrCleared, ForegroundIsAwaited, Listed, ShellAssumption, NoLine
  <2> QED
    BY <2>1, <2>2, <2>3 DEF ShellInv
<1>2. CASE Leave
  <2>1. TypeOK'
    BY <1>2 DEF Leave, ShellInv, TypeOK, InMain, table, children, main
  <2>2. /\ HandlersNest' /\ DeletingIsGone' /\ ListedAreChildren'
        /\ OneSlotPerProcess' /\ NothingUnnoticed'
    BY <1>2, ListUntouched DEF Leave, ShellInv, TypeOK, InMain, table, children, main
  <2>3. ForkedIsNew' /\ PickedOrCleared' /\ ForegroundIsAwaited'
    BY <1>2 DEF Leave, ShellInv, TypeOK, InMain, table, children, main,
       ForkedIsNew, PickedOrCleared, ForegroundIsAwaited, Listed
  <2> QED
    BY <2>1, <2>2, <2>3 DEF ShellInv
<1>3. CASE BuiltinOnly
  <2>1. TypeOK'
    BY <1>3, NextCommandSpec DEF BuiltinOnly, ShellInv, TypeOK, InMain, table, children, main
  <2>2. /\ HandlersNest' /\ DeletingIsGone' /\ ListedAreChildren'
        /\ OneSlotPerProcess' /\ NothingUnnoticed'
    BY <1>3, ListUntouched DEF BuiltinOnly, ShellInv, TypeOK, InMain, table, children, main
  <2>3. ForkedIsNew' /\ PickedOrCleared' /\ ForegroundIsAwaited'
    BY <1>3, NextCommandSpec DEF BuiltinOnly, ShellInv, TypeOK, InMain, table, children, main,
       ForkedIsNew, PickedOrCleared, ForegroundIsAwaited, Listed
  <2> QED
    BY <2>1, <2>2, <2>3 DEF ShellInv
<1>4. CASE PickJob
  <2>1. TypeOK'
    BY <1>4, NamedSpec, LineInHand DEF PickJob, ShellInv, TypeOK, InMain, table, children, main, Slot
  <2>2. /\ HandlersNest' /\ DeletingIsGone' /\ ListedAreChildren'
        /\ OneSlotPerProcess' /\ NothingUnnoticed'
    BY <1>4, ListUntouched DEF PickJob, ShellInv, TypeOK, InMain, table, children, main
  <2>3. ForkedIsNew' /\ PickedOrCleared' /\ ForegroundIsAwaited'
    BY <1>4, NamedSpec DEF PickJob, ShellInv, TypeOK, InMain, table, children, main,
       ForkedIsNew, PickedOrCleared, ForegroundIsAwaited, Listed, Slot
  <2> QED
    BY <2>1, <2>2, <2>3 DEF ShellInv
<1>5. CASE ForkFails
  <2>1. TypeOK'
    BY <1>5 DEF ForkFails, ShellInv, TypeOK, InMain, table, children, main
  <2>2. /\ HandlersNest' /\ DeletingIsGone' /\ ListedAreChildren'
        /\ OneSlotPerProcess' /\ NothingUnnoticed'
    BY <1>5, ListUntouched DEF ForkFails, ShellInv, TypeOK, InMain, table, children, main
  <2>3. ForkedIsNew' /\ PickedOrCleared' /\ ForegroundIsAwaited'
    BY <1>5 DEF ForkFails, ShellInv, TypeOK, InMain, table, children, main,
       ForkedIsNew, PickedOrCleared, ForegroundIsAwaited, Listed
  <2> QED
    BY <2>1, <2>2, <2>3 DEF ShellInv
<1>6. CASE ContinueJob
  <2>1. TypeOK'
    BY <1>6 DEF ContinueJob, ShellInv, TypeOK, InMain, table, children,
       CanSignal, Resumes, Becomes
  <2>2. /\ \A p \in Pids : proc'[p] = "none" <=> proc[p] = "none"
        /\ \/ UNCHANGED <<chld, news>>
           \/ chld'
        /\ UNCHANGED <<jobs, handlers>>
    BY <1>6 DEF ContinueJob, ShellInv, TypeOK, table, children, Resumes, Becomes
  <2>3. /\ HandlersNest' /\ DeletingIsGone' /\ ListedAreChildren'
        /\ OneSlotPerProcess' /\ NothingUnnoticed'
    BY <2>2 DEF ShellInv, TypeOK, HandlersNest, DeletingIsGone, Deleting, Slot,
       ListedAreChildren, Listed, OneSlotPerProcess, NothingUnnoticed, Active
  <2>4. ForkedIsNew' /\ PickedOrCleared' /\ ForegroundIsAwaited'
    BY <1>6, <2>2 DEF ContinueJob, ShellInv, TypeOK, InMain, ForkedIsNew,
       PickedOrCleared, ForegroundIsAwaited, Listed
  <2> QED
    BY <2>1, <2>3, <2>4 DEF ShellInv
<1>7. CASE MarkJob
  <2>1. PICK state \in {FG, BG} :
          /\ SetState(job, state)
          /\ \/ /\ state = FG /\ pc' = "wait"
                /\ UNCHANGED <<line, cmd_idx, pid, job>>
             \/ state = BG /\ NextCommand
    BY <1>7 DEF MarkJob
  <2>2. job \in Slots /\ jobs[job].pid \in {0, pid} /\ pc = "mark"
    BY <1>7 DEF MarkJob, InMain, ShellInv, PickedOrCleared
  <2>3. /\ jobs' \in [Slots -> Slot] /\ nextjid' \in Nat
        /\ \A k \in Slots :
             /\ jobs'[k].pid = jobs[k].pid
             /\ k = job => jobs'[k].state = state
             /\ k # job => jobs'[k].state = jobs[k].state
    BY <2>1, <2>2, SetStateSpec DEF ShellInv, TypeOK
  <2>4. TypeOK'
    BY <1>7, <2>1, <2>2, <2>3, NextCommandSpec
    DEF MarkJob, ShellInv, TypeOK, children
  <2>5. /\ HandlersNest' /\ DeletingIsGone' /\ ListedAreChildren'
        /\ OneSlotPerProcess' /\ NothingUnnoticed'
    BY <1>7, <2>3, StatesTouched DEF MarkJob
  <2>6. ForegroundIsAwaited'
    BY <2>1, <2>2, <2>3 DEF ShellInv, ForegroundIsAwaited, Listed, FG, BG
  <2>7. ForkedIsNew' /\ PickedOrCleared'
    BY <2>1, <2>2, NextCommandSpec
    DEF ForkedIsNew, PickedOrCleared
  <2> QED
    BY <2>4, <2>5, <2>6, <2>7 DEF ShellInv
<1>8. CASE Fork
  <2>1. PICK p \in Pids : /\ proc[p] = "none" /\ pid' = p
                          /\ proc' = [proc EXCEPT ![p] = "running"]
    BY <1>8 DEF Fork
  <2>2. /\ handlers = <<>> /\ pc = "command" /\ pc' = "forked"
        /\ UNCHANGED <<table, line, cmd_idx, job, handlers, chld, grouped, news>>
    BY <1>8 DEF Fork, InMain
  <2>3. ~ Active("CHLD") /\ \A q : ~ Deleting(q)
    BY <2>2 DEF Active, Deleting
  <2>4. TypeOK'
    BY <1>8, <2>1, <2>2 DEF Fork, ShellInv, TypeOK, table
  <2>5. \A i \in Slots : jobs[i].pid # p
    BY <2>1, <2>3, ShellAssumption
    DEF ShellInv, ListedAreChildren, Listed, ShellAssumption
  <2>6. ForkedIsNew'
    BY <2>1, <2>2, <2>3, <2>5 DEF ForkedIsNew, Active, table, ShellInv, TypeOK
  <2>7. /\ HandlersNest' /\ DeletingIsGone' /\ OneSlotPerProcess' /\ NothingUnnoticed'
        /\ PickedOrCleared' /\ ForegroundIsAwaited'
    BY <2>2, <2>3
    DEF ShellInv, table, HandlersNest, DeletingIsGone, Deleting, OneSlotPerProcess,
        NothingUnnoticed, Active, PickedOrCleared, ForegroundIsAwaited, Listed
  <2>8. ListedAreChildren'
    BY <2>1, <2>2, <2>3 DEF ShellInv, TypeOK, Slot, ListedAreChildren, Listed, table
  <2> QED
    BY <2>4, <2>6, <2>7, <2>8 DEF ShellInv
<1>9. CASE Enlist
  <2>1. /\ handlers = <<>> /\ pc = "forked"
        /\ UNCHANGED <<nextjid, line, cmd_idx, pid, handlers, chld, children, status>>
    BY <1>9 DEF Enlist, InMain
  <2>2. pid \in Pids /\ proc[pid] # "none" /\ \A k \in Slots : jobs[k].pid # pid
    BY <2>1 DEF ShellInv, ForkedIsNew
  <2>3. \/ /\ job' = NoSlot /\ pc' \in {"adjust", "settle"} /\ UNCHANGED jobs
        \/ /\ IsLast /\ job' \in Slots /\ pc' = "filling"
           /\ jobs' = [jobs EXCEPT ![job'].pid = pid]
    <3> DEFINE S == {i \in Slots : jobs[i].pid = 0}
    <3>1. First(S) \in {NoSlot} \cup Slots
      BY FirstSpec
    <3> QED
      BY <1>9, <3>1 DEF Enlist, AfterFork
  <2>4. TypeOK'
    BY <2>1, <2>2, <2>3 DEF ShellInv, TypeOK, children, Slot
  <2>5. /\ job' \in {NoSlot} \cup Slots
        /\ \A k \in Slots :
             /\ k # job' => jobs'[k] = jobs[k]
             /\ k = job' => /\ jobs'[k].pid = pid /\ pc' = "filling"
                            /\ IsLast
    <3>1. \A k \in Slots : k # NoSlot
      BY DEF Slots, NoSlot
    <3>2. jobs \in [Slots -> Slot] /\ \A k \in Slots : jobs[k] \in Slot
      BY DEF ShellInv, TypeOK
    <3>3. CASE job' = NoSlot /\ UNCHANGED jobs
      BY <3>1, <3>3
    <3>4. CASE /\ IsLast /\ job' \in Slots /\ pc' = "filling"
               /\ jobs' = [jobs EXCEPT ![job'].pid = pid]
      BY <3>2, <3>4 DEF Slot
    <3> QED
      BY <2>3, <3>3, <3>4
  <2>6. HandlersNest' /\ DeletingIsGone' /\ NothingUnnoticed'
    BY <2>1 DEF ShellInv, children, HandlersNest, DeletingIsGone, Deleting,
       NothingUnnoticed, Active
  <2>7. ListedAreChildren'
    BY <2>1, <2>2, <2>5
    DEF ShellInv, ListedAreChildren, Listed, Deleting, children
  <2>8. OneSlotPerProcess'
    BY <2>2, <2>5 DEF ShellInv, OneSlotPerProcess, Listed
  <2>9. ForegroundIsAwaited'
    BY <2>1, <2>2, <2>5 DEF ShellInv, ForegroundIsAwaited, Listed
  <2>10. ForkedIsNew' /\ PickedOrCleared'
    BY <2>1, <2>3, <2>5 DEF ForkedIsNew, PickedOrCleared, IsLast
  <2> QED
    BY <2>4, <2>6, <2>7, <2>8, <2>9, <2>10 DEF ShellInv
<1>10. CASE FillSlot
  <2>1. /\ pc = "filling" /\ pc' \in {"adjust", "settle"} /\ job' = NoSlot
        /\ UNCHANGED <<line, cmd_idx, pid, handlers, chld, children, status>>
    BY <1>10 DEF FillSlot, InMain, AfterFork
  <2>2. job \in Slots /\ jobs[job].pid \in {0, pid} /\ IsLast
    BY <2>1 DEF ShellInv, PickedOrCleared
  <2>3. line.mode \in {FG, BG}
    BY <2>1, LineInHand
  <2>4. /\ jobs' \in [Slots -> Slot] /\ nextjid' \in Nat
        /\ \A k \in Slots :
             /\ jobs'[k].pid = jobs[k].pid
             /\ k # job => jobs'[k].state = jobs[k].state
             /\ k = job => jobs'[k].state = line.mode
    <3>1. jobs \in [Slots -> Slot] /\ nextjid \in Nat /\ jobs[job] \in Slot
      BY <2>2 DEF ShellInv, TypeOK
    <3>2. jobs' = [jobs EXCEPT ![job] = [pid |-> jobs[job].pid, jid |-> nextjid,
                                         state |-> line.mode]]
      BY <1>10, <2>2, <3>1 DEF FillSlot, Slot
    <3>3. nextjid' \in Nat
      BY <1>10, <3>1 DEF FillSlot
    <3> QED
      BY <2>2, <2>3, <3>1, <3>2, <3>3 DEF Slot
  <2>5. TypeOK'
    BY <2>1, <2>4 DEF ShellInv, TypeOK, children
  <2>6. /\ HandlersNest' /\ DeletingIsGone' /\ ListedAreChildren'
        /\ OneSlotPerProcess' /\ NothingUnnoticed'
    BY <2>1, <2>4, StatesTouched
  <2>7. ForegroundIsAwaited'
    BY <2>1, <2>2, <2>4
    DEF ShellInv, ForegroundIsAwaited, Listed, IsLast
  <2>8. ForkedIsNew' /\ PickedOrCleared'
    BY <2>1 DEF ForkedIsNew, PickedOrCleared
  <2> QED
    BY <2>5, <2>6, <2>7, <2>8 DEF ShellInv
<1>11. CASE Adjust
  <2>1. /\ pc = "adjust" /\ pc' = "settle"
        /\ UNCHANGED <<line, cmd_idx, pid, job, handlers, chld, children>>
    BY <1>11 DEF Adjust, InMain
  <2>2. Named \in {NoSlot} \cup Slots
    BY <2>1, NamedSpec
  <2>3. /\ jobs' \in [Slots -> Slot] /\ nextjid' \in Nat
        /\ \A k \in Slots : /\ jobs'[k].pid = jobs[k].pid
                            /\ jobs'[k].state \in {BG, jobs[k].state}
    <3>1. CASE Named = NoSlot
      BY <1>11, <3>1 DEF Adjust, table, ShellInv, TypeOK
    <3>2. CASE Named # NoSlot
      <4>1. SetState(Named, BG)
        BY <1>11, <3>2 DEF Adjust
      <4> HIDE DEF Named
      <4> QED
        BY <2>2, <4>1, SetStateSpec DEF ShellInv, TypeOK
    <3> QED
      BY <3>1, <3>2
  <2>4. TypeOK'
    BY <1>11, <2>1, <2>3 DEF Adjust, ShellInv, TypeOK, children
  <2>5. /\ HandlersNest' /\ DeletingIsGone' /\ ListedAreChildren'
        /\ OneSlotPerProcess' /\ NothingUnnoticed'
    BY <2>1, <2>3, StatesTouched
  <2>6. ForegroundIsAwaited'
    BY <2>1, <2>3
    DEF ShellInv, ForegroundIsAwaited, Listed, IsLast, FG, BG
  <2>7. ForkedIsNew' /\ PickedOrCleared'
    BY <2>1 DEF ForkedIsNew, PickedOrCleared
  <2> QED
    BY <2>4, <2>5, <2>6, <2>7 DEF ShellInv
<1>12. CASE Settle
  <2>1. /\ pc = "settle" /\ UNCHANGED <<table, handlers, chld, children>>
    BY <1>12 DEF Settle, InMain
  <2>2. \/ /\ line.mode = FG /\ IsLast /\ pc' = "wait"
           /\ UNCHANGED <<line, cmd_idx, pid, job, status>>
        \/ ~ (line.mode = FG /\ IsLast) /\ NextCommand /\ UNCHANGED status
        \/ status' = "crashed" /\ UNCHANGED main
    BY <1>12 DEF Settle, FG, BG
  <2>3. TypeOK'
    BY <2>1, <2>2, NextCommandSpec DEF ShellInv, TypeOK, table, children, main
  <2>4. /\ HandlersNest' /\ DeletingIsGone' /\ ListedAreChildren'
        /\ OneSlotPerProcess' /\ NothingUnnoticed'
    BY <2>1, ListUntouched
  <2>5. ForegroundIsAwaited'
    BY <2>1, <2>2, NextCommandSpec
    DEF ShellInv, ForegroundIsAwaited, Listed, IsLast, table, main
  <2>6. ForkedIsNew' /\ PickedOrCleared'
    BY <2>1, <2>2, NextCommandSpec DEF ForkedIsNew, PickedOrCleared, main
  <2> QED
    BY <2>3, <2>4, <2>5, <2>6 DEF ShellInv
<1>13. CASE EndWait
  <2>1. /\ pc = "wait" /\ UNCHANGED <<table, handlers, chld, children, status>>
        /\ NextCommand
    BY <1>13 DEF EndWait, InMain
  <2>2. \A k \in Listed : jobs[k].state # FG
    <3> SUFFICES ASSUME NEW k \in Listed, jobs[k].state = FG PROVE FALSE
      OBVIOUS
    <3>1. jobs[k].pid = pid /\ k \in Slots /\ pid \in Pids
      BY DEF ShellInv, TypeOK, Slot, ForegroundIsAwaited, Listed
    <3> DEFINE S == {s \in Slots : jobs[s].pid = pid}
    <3>2. First(S) \in S
      BY <3>1, FirstSpec
    <3>3. getjobpid(pid) = First(S)
      BY <3>1, ShellAssumption DEF getjobpid, ShellAssumption
    <3>4. First(S) = k
      BY <3>1, <3>2 DEF ShellInv, OneSlotPerProcess, Listed
    <3> QED
      BY <1>13, <3>1, <3>3, <3>4 DEF EndWait, NoSlot, Slots
  <2>3. TypeOK'
    BY <2>1, NextCommandSpec DEF ShellInv, TypeOK, table, children
  <2>4. /\ HandlersNest' /\ DeletingIsGone' /\ ListedAreChildren'
        /\ OneSlotPerProcess' /\ NothingUnnoticed'
    BY <2>1, ListUntouched
  <2>5. ForegroundIsAwaited'
    BY <2>1, <2>2 DEF ForegroundIsAwaited, Listed, table
  <2>6. ForkedIsNew' /\ PickedOrCleared'
    BY <2>1, NextCommandSpec DEF ForkedIsNew, PickedOrCleared
  <2> QED
    BY <2>3, <2>4, <2>5, <2>6 DEF ShellInv
<1> QED
  BY <1>1, <1>2, <1>3, <1>4, <1>5, <1>6, <1>7, <1>8, <1>9, <1>10,
     <1>11, <1>12, <1>13
  DEF MainStep

\* The parts of the invariant about eval, when a handler or a child runs and
\* neither adds a job nor puts one into the foreground.
LEMMA MainUntouched ==
  ASSUME ShellInv, UNCHANGED main,
         \A k \in Slots : /\ jobs'[k].pid \in {0, jobs[k].pid}
                          /\ jobs'[k].state = FG => jobs[k].state = FG
  PROVE  /\ PickedOrCleared' /\ ForegroundIsAwaited'
         /\ OneSlotPerProcess'
<1>1. \A k \in Listed' : k \in Listed /\ jobs'[k].pid = jobs[k].pid
  BY DEF Listed
<1>2. PickedOrCleared'
  BY DEF ShellInv, main, PickedOrCleared, IsLast
<1>3. ForegroundIsAwaited'
  BY <1>1 DEF ShellInv, main, ForegroundIsAwaited, Listed, IsLast
<1>4. OneSlotPerProcess'
  BY <1>1 DEF ShellInv, OneSlotPerProcess
<1> QED
  BY <1>2, <1>3, <1>4

\* ... and the parts about the children, when one of them changes state.
LEMMA ChildrenChange ==
  ASSUME ShellInv, UNCHANGED <<table, main>>,
         DOMAIN handlers' = DOMAIN handlers,
         \A k \in DOMAIN handlers :
           \/ handlers'[k] = handlers[k]
           \/ /\ handlers'[k].sig = handlers[k].sig
              /\ handlers[k].at = "kill" /\ handlers'[k].at = "mark",
         \/ UNCHANGED <<proc, news, chld>>
         \/ chld' /\ \A p \in Pids : proc'[p] = "none" <=> proc[p] = "none"
  PROVE  /\ HandlersNest' /\ DeletingIsGone' /\ ListedAreChildren'
         /\ ForkedIsNew' /\ NothingUnnoticed'
<1>1. \A p : Deleting(p)' <=> Deleting(p)
  BY DEF Deleting
<1>2. HandlersNest'
  BY DEF ShellInv, HandlersNest
<1>3. Active("CHLD")' <=> Active("CHLD")
  BY DEF Active
<1>4. \A p \in Pids : proc'[p] = "none" <=> proc[p] = "none"
  OBVIOUS
<1>5. ListedAreChildren'
  BY <1>1, <1>4 DEF ShellInv, TypeOK, Slot, ListedAreChildren, Listed, table
<1> QED
  BY <1>1, <1>2, <1>3, <1>4, <1>5
  DEF ShellInv, DeletingIsGone, ForkedIsNew, NothingUnnoticed, table, main

\* A child moves.
LEMMA ChildPreserves ==
  ASSUME ShellInv, NEW p \in Pids, SetPgid(p) \/ ChildStep(p)
  PROVE  ShellInv'
<1>1. /\ UNCHANGED <<table, main, handlers, status>>
      /\ \/ UNCHANGED <<proc, news, chld>>
         \/ chld' /\ \A q \in Pids : proc'[q] = "none" <=> proc[q] = "none"
  BY DEF SetPgid, ChildStep, Exits, Stops, Resumes, Becomes, Alive, ShellInv, TypeOK
<1>2. TypeOK'
  BY DEF SetPgid, ChildStep, Exits, Stops, Resumes, Becomes, ShellInv, TypeOK,
     table, main
<1>3. /\ HandlersNest' /\ DeletingIsGone' /\ ListedAreChildren'
      /\ ForkedIsNew' /\ NothingUnnoticed'
  <2>1. /\ UNCHANGED <<table, main>> /\ DOMAIN handlers' = DOMAIN handlers
        /\ \A k \in DOMAIN handlers : handlers'[k] = handlers[k]
    BY <1>1
  <2> QED
    BY <1>1, <2>1, ChildrenChange
<1>4. /\ PickedOrCleared' /\ ForegroundIsAwaited'
      /\ OneSlotPerProcess'
  <2>1. \A k \in Slots : jobs'[k] = jobs[k]
    BY <1>1 DEF table
  <2> QED
    BY <1>1, <2>1, MainUntouched
<1> QED
  BY <1>2, <1>3, <1>4 DEF ShellInv

\* The activation on top is one of the stack.
LEMMA TopSpec ==
  ASSUME TypeOK, handlers # <<>>
  PROVE  /\ Len(handlers) \in DOMAIN handlers /\ Top \in Activation
         /\ Top = handlers[Len(handlers)]
<1>1. /\ Len(handlers) \in Nat \ {0} /\ DOMAIN handlers = 1 .. Len(handlers)
      /\ handlers \in Seq(Activation)
  BY EmptySeq, LenProperties DEF TypeOK
<1>2. handlers[Len(handlers)] \in Activation
  BY <1>1, ElementOfSeq
<1> QED
  BY <1>1, <1>2 DEF Top

LEMMA HandlerPreserves ==
  ASSUME ShellInv, HandlerStep
  PROVE  ShellInv'
<1>0. /\ TypeOK /\ handlers \in Seq(Activation)
      /\ jobs \in [Slots -> Slot] /\ nextjid \in Nat
  BY DEF ShellInv, TypeOK
<1>1. CASE EnterChld
  <2> DEFINE act == [sig |-> "CHLD", at |-> "reap", pid |-> 0, slot |-> NoSlot]
  <2>1. /\ pc \notin {"forked", "filling"} /\ ~ Active("CHLD") /\ handlers' = Append(handlers, act)
        /\ UNCHANGED <<table, main, children, status>> /\ chld' = FALSE
    BY <1>1 DEF EnterChld, Enter
  <2>2. act \in Activation
    BY DEF Activation, Signals
  <2>3. /\ handlers' \in Seq(Activation)
        /\ DOMAIN handlers' = DOMAIN handlers \cup {Len(handlers) + 1}
        /\ Len(handlers) + 1 \notin DOMAIN handlers
        /\ \A k \in DOMAIN handlers : handlers'[k] = handlers[k]
        /\ handlers'[Len(handlers) + 1] = act
    <3> HIDE DEF act
    <3> QED
      BY <1>0, <2>1, <2>2, EnterSpec
  <2>4. TypeOK'
    BY <1>0, <2>1, <2>3 DEF TypeOK, table, main, children
  <2>5. HandlersNest'
    BY <2>1, <2>3 DEF ShellInv, HandlersNest, Active
  <2>6. \A p : Deleting(p)' <=> Deleting(p)
    BY <2>3 DEF Deleting
  <2>7. Active("CHLD")'
    BY <2>3 DEF Active
  <2>8. DeletingIsGone' /\ ListedAreChildren' /\ NothingUnnoticed' /\ ForkedIsNew'
    BY <2>1, <2>6, <2>7
    DEF ShellInv, DeletingIsGone, ListedAreChildren, Listed, NothingUnnoticed,
        ForkedIsNew, table, main, children
  <2>9. /\ PickedOrCleared' /\ ForegroundIsAwaited'
        /\ OneSlotPerProcess'
    <3>1. \A k \in Slots : jobs'[k] = jobs[k]
      BY <2>1 DEF table
    <3> QED
      BY <2>1, <3>1, MainUntouched
  <2> QED
    BY <2>4, <2>5, <2>8, <2>9 DEF ShellInv
<1>2. CASE WaitPid
  <2>1. PICK p \in Pids :
          /\ news[p] # "none"
          /\ GoTo(news[p], p)
          /\ news' = [news EXCEPT ![p] = "none"]
          /\ \/ /\ news[p] = "exited"
                /\ proc' = [proc EXCEPT ![p] = "none"]
                /\ grouped' = [grouped EXCEPT ![p] = FALSE]
             \/ news[p] # "exited" /\ UNCHANGED <<proc, grouped>>
    BY <1>2 DEF WaitPid
  <2>2. /\ handlers # <<>> /\ Top.sig = "CHLD" /\ Top.at = "reap"
        /\ UNCHANGED <<table, main, chld, status>>
    BY <1>2 DEF WaitPid, InHandler
  <2>3. news[p] \in {"exited", "stopped", "continued"}
    BY <2>1 DEF ShellInv, TypeOK
  <2> DEFINE n == Len(handlers)
  <2>4. /\ handlers' \in Seq(Activation)
        /\ DOMAIN handlers' = DOMAIN handlers /\ n \in DOMAIN handlers
        /\ \A k \in DOMAIN handlers : handlers'[k].sig = handlers[k].sig
        /\ \A k \in DOMAIN handlers \ {n} : handlers'[k] = handlers[k]
        /\ handlers'[n].at = news[p] /\ handlers'[n].pid = p
    BY <1>0, <2>1, <2>2, <2>3, GoToSpec
  <2>5. Top = handlers[n]
    BY DEF Top
  <2> HIDE DEF n
  <2>6. TypeOK'
    <3>1. /\ proc' \in [Pids -> {"none", "running", "stopped", "zombie"}]
          /\ grouped' \in [Pids -> BOOLEAN]
          /\ news' \in [Pids -> {"none", "exited", "stopped", "continued"}]
      BY <1>0, <2>1 DEF TypeOK
    <3> QED
      BY <1>0, <2>2, <2>4, <3>1 DEF TypeOK, table, main
  <2>7. HandlersNest'
    BY <2>2, <2>3, <2>4, <2>5 DEF ShellInv, HandlersNest
  <2>8. Active("CHLD") /\ Active("CHLD")' /\ pc # "forked"
    BY <2>2, <2>4, <2>5 DEF Active, ShellInv, ForkedIsNew
  <2>9. /\ \A q : Deleting(q) => Deleting(q)'
        /\ \A q : Deleting(q)' => Deleting(q) \/ (q = p /\ news[p] = "exited")
        /\ news[p] = "exited" => Deleting(p)'
    <3>1. \A q : Deleting(q) => Deleting(q)'
      BY <2>2, <2>4, <2>5 DEF Deleting
    <3>2. ASSUME NEW q, Deleting(q)'
          PROVE  Deleting(q) \/ (q = p /\ news[p] = "exited")
      <4>1. PICK k \in DOMAIN handlers' :
              handlers'[k].at = "exited" /\ handlers'[k].pid = q
        BY <3>2 DEF Deleting
      <4> QED
        BY <2>4, <4>1 DEF Deleting
    <3>3. news[p] = "exited" => Deleting(p)'
      BY <2>4 DEF Deleting
    <3> QED
      BY <3>1, <3>2, <3>3
  <2>10. DeletingIsGone' /\ ListedAreChildren'
    BY <2>1, <2>2, <2>9
    DEF ShellInv, TypeOK, Slot, DeletingIsGone, ListedAreChildren, Listed, table
  <2>11. NothingUnnoticed' /\ ForkedIsNew'
    BY <2>2, <2>8 DEF NothingUnnoticed, ForkedIsNew, main
  <2>12. /\ PickedOrCleared' /\ ForegroundIsAwaited'
         /\ OneSlotPerProcess'
    <3>1. \A k \in Slots : jobs'[k] = jobs[k]
      BY <2>2 DEF table
    <3> QED
      BY <2>2, <3>1, MainUntouched
  <2> QED
    BY <2>6, <2>7, <2>10, <2>11, <2>12 DEF ShellInv
<1>3. CASE WaitPidNone
  <2>1. /\ handlers # <<>> /\ Top.sig = "CHLD" /\ Top.at = "reap" /\ Return
        /\ \A p \in Pids : news[p] = "none"
        /\ UNCHANGED <<table, main, chld, children, status>>
    BY <1>3 DEF WaitPidNone, InHandler
  <2>2. /\ handlers' \in Seq(Activation)
        /\ DOMAIN handlers' = DOMAIN handlers \ {Len(handlers)}
        /\ \A k \in DOMAIN handlers' : handlers'[k] = handlers[k]
    BY <1>0, <2>1, ReturnSpec
  <2>3. \A p : Deleting(p)' <=> Deleting(p)
    BY <2>1, <2>2 DEF Deleting, Top
  <2>4. TypeOK'
    BY <1>0, <2>1, <2>2 DEF TypeOK, table, main, children
  <2>5. HandlersNest'
    BY <2>2 DEF ShellInv, HandlersNest
  <2>6. DeletingIsGone' /\ ListedAreChildren' /\ NothingUnnoticed'
    BY <2>1, <2>3 DEF ShellInv, DeletingIsGone, ListedAreChildren, Listed,
       NothingUnnoticed, table, children
  <2>7. ForkedIsNew'
    BY <2>1, <2>2 DEF ShellInv, ForkedIsNew, Active, table, main, children
  <2>8. /\ PickedOrCleared' /\ ForegroundIsAwaited'
        /\ OneSlotPerProcess'
    <3>1. \A k \in Slots : jobs'[k] = jobs[k]
      BY <2>1 DEF table
    <3> QED
      BY <2>1, <3>1, MainUntouched
  <2> QED
    BY <2>4, <2>5, <2>6, <2>7, <2>8 DEF ShellInv
<1>4. CASE RecordExit \/ RecordStop \/ RecordContinue
  <2>1. /\ handlers # <<>> /\ Top.sig = "CHLD" /\ GoTo("reap", 0)
        /\ UNCHANGED <<main, chld, children>>
        /\ status' \in {status, "crashed"}
    BY <1>4 DEF RecordExit, RecordStop, RecordContinue, InHandler
  <2> DEFINE n == Len(handlers)
  <2>2. /\ handlers' \in Seq(Activation)
        /\ DOMAIN handlers' = DOMAIN handlers /\ n \in DOMAIN handlers
        /\ Top \in Activation
        /\ \A k \in DOMAIN handlers : handlers'[k].sig = handlers[k].sig
        /\ \A k \in DOMAIN handlers \ {n} : handlers'[k] = handlers[k]
        /\ handlers'[n].at = "reap" /\ handlers'[n].pid = 0
    BY <1>0, <2>1, GoToSpec
  <2>3. Top = handlers[n]
    BY DEF Top
  <2> HIDE DEF n
  <2>4. Active("CHLD") /\ Active("CHLD")' /\ pc # "forked"
    BY <2>1, <2>2, <2>3 DEF Active, ShellInv, ForkedIsNew
  <2>5. HandlersNest'
    BY <2>1, <2>2, <2>3 DEF ShellInv, HandlersNest
  <2>6. \A k \in DOMAIN handlers : handlers[k].at = "exited" => k = n
    BY <2>1, <2>2, <2>3 DEF ShellInv, HandlersNest
  <2>7. \A q : Deleting(q) => q = Top.pid /\ Top.at = "exited"
    BY <2>3, <2>6 DEF Deleting
  <2>8. \A q : ~ Deleting(q)'
    BY <2>2, <2>6 DEF Deleting
  <2>9. /\ jobs' \in [Slots -> Slot] /\ nextjid' \in Nat
        /\ \A k \in Slots :
             /\ jobs'[k].pid \in {0, jobs[k].pid}
             /\ jobs'[k].state = FG => jobs[k].state = FG
             /\ jobs'[k].pid # 0 => ~ Deleting(jobs[k].pid)
    <3>1. CASE RecordExit
      <4>1. deletejob(Top.pid) /\ Top.pid \in {0} \cup Pids
        BY <2>2, <3>1 DEF RecordExit, Activation
      <4>2. OneSlotPerProcess
        BY DEF ShellInv
      <4>3. /\ jobs' \in [Slots -> Slot] /\ nextjid' \in Nat
            /\ \A k \in Slots : jobs[k].pid # Top.pid => jobs'[k] = jobs[k]
            /\ \A k \in Listed :
                 jobs[k].pid = Top.pid => jobs'[k].pid = 0 /\ jobs'[k].state = UNDEF
            /\ \A k \in Slots : jobs'[k].pid \in {0, jobs[k].pid}
        BY <1>0, <4>1, <4>2, DeletejobSpec
      <4>4. ASSUME NEW k \in Slots PROVE jobs'[k].state = FG => jobs[k].state = FG
        <5>1. CASE jobs[k].pid # Top.pid
          BY <4>3, <5>1
        <5>2. CASE jobs[k].pid = Top.pid /\ Top.pid # 0
          BY <4>3, <5>2 DEF Listed, FG, UNDEF
        <5>3. CASE jobs[k].pid = Top.pid /\ Top.pid = 0
          <6>1. UNCHANGED table
            BY <4>1, <5>3 DEF deletejob, getjobpid
          <6> QED
            BY <6>1 DEF table
        <5> QED
          BY <5>1, <5>2, <5>3
      <4>5. ASSUME NEW k \in Slots, jobs'[k].pid # 0 PROVE ~ Deleting(jobs[k].pid)
        BY <2>7, <4>3, <4>5 DEF Listed
      <4> QED
        BY <4>3, <4>4, <4>5
    <3>2. CASE RecordStop
      <4>1. Top.at = "stopped"
        BY <3>2 DEF RecordStop, InHandler
      <4>2. \A q : ~ Deleting(q)
        BY <2>7, <4>1
      <4>3. CASE UNCHANGED table
        BY <1>0, <4>2, <4>3 DEF table
      <4>4. CASE SetState(getjobpid(Top.pid), ST)
        <5>1. getjobpid(Top.pid) \in {NoSlot} \cup Slots
          BY FirstSpec DEF getjobpid
        <5>2. /\ jobs' \in [Slots -> Slot] /\ nextjid' \in Nat
              /\ \A k \in Slots :
                   /\ jobs'[k].pid = jobs[k].pid
                   /\ jobs'[k].state \in {ST, jobs[k].state}
          BY <1>0, <4>4, <5>1, SetStateSpec
        <5> QED
          BY <4>2, <5>2 DEF FG, ST
      <4> QED
        BY <3>2, <4>3, <4>4 DEF RecordStop
    <3>3. CASE RecordContinue
      <4>1. Top.at = "continued" /\ UNCHANGED table
        BY <3>3 DEF RecordContinue, InHandler
      <4> QED
        BY <1>0, <2>7, <4>1 DEF table
    <3> QED
      BY <1>4, <3>1, <3>2, <3>3
  <2>10. TypeOK'
    BY <1>0, <2>1, <2>2, <2>9 DEF TypeOK, main, children
  <2>11. DeletingIsGone' /\ NothingUnnoticed' /\ ForkedIsNew'
    BY <2>1, <2>4, <2>8 DEF DeletingIsGone, NothingUnnoticed, ForkedIsNew, main
  <2>12. ListedAreChildren'
    BY <2>1, <2>9 DEF ShellInv, ListedAreChildren, Listed, children
  <2>13. /\ PickedOrCleared' /\ ForegroundIsAwaited'
         /\ OneSlotPerProcess'
    BY <2>1, <2>9, MainUntouched
  <2> QED
    BY <2>5, <2>10, <2>11, <2>12, <2>13 DEF ShellInv
<1>5. ASSUME NEW sig \in {"INT", "TSTP"}, Interrupt(sig)
      PROVE  ShellInv'
  <2> DEFINE act == [sig |-> sig, at |-> "kill", pid |-> fgpid,
                     slot |-> getjobpid(fgpid)]
  <2>1. /\ ~ Active(sig) /\ handlers' = Append(handlers, act)
        /\ UNCHANGED <<table, main, chld, children, status>>
    BY <1>5 DEF Interrupt, Enter
  <2>2. fgpid \in {0} \cup Pids
    <3> DEFINE S == {s \in Slots : jobs[s].state = FG}
    <3>1. First(S) \in {NoSlot} \cup Slots
      BY FirstSpec
    <3>2. First(S) # NoSlot => jobs[First(S)].pid \in {0} \cup Pids
      BY <1>0, <3>1 DEF Slot
    <3> QED
      BY <3>2 DEF fgpid
  <2>3. getjobpid(fgpid) \in {NoSlot} \cup Slots
    BY FirstSpec DEF getjobpid
  <2>4. act \in Activation
    BY <2>2, <2>3 DEF Activation, Signals
  <2>5. /\ handlers' \in Seq(Activation)
        /\ DOMAIN handlers' = DOMAIN handlers \cup {Len(handlers) + 1}
        /\ Len(handlers) + 1 \notin DOMAIN handlers
        /\ \A k \in DOMAIN handlers : handlers'[k] = handlers[k]
        /\ handlers'[Len(handlers) + 1] = act
    <3> HIDE DEF act
    <3> QED
      BY <1>0, <2>1, <2>4, EnterSpec
  <2>6. TypeOK'
    BY <1>0, <2>1, <2>5 DEF TypeOK, table, main, children
  <2>7. HandlersNest'
    BY <2>1, <2>5 DEF ShellInv, HandlersNest, Active
  <2>8. /\ \A p : Deleting(p)' <=> Deleting(p)
        /\ Active("CHLD")' <=> Active("CHLD")
    BY <2>5 DEF Deleting, Active
  <2>9. DeletingIsGone' /\ ListedAreChildren' /\ NothingUnnoticed' /\ ForkedIsNew'
    BY <2>1, <2>8
    DEF ShellInv, DeletingIsGone, ListedAreChildren, Listed, NothingUnnoticed,
        ForkedIsNew, table, main, children
  <2>10. /\ PickedOrCleared' /\ ForegroundIsAwaited'
         /\ OneSlotPerProcess'
    <3>1. \A k \in Slots : jobs'[k] = jobs[k]
      BY <2>1 DEF table
    <3> QED
      BY <2>1, <3>1, MainUntouched
  <2> QED
    BY <2>6, <2>7, <2>9, <2>10 DEF ShellInv
<1>6. CASE SigintKill \/ SigtstpKill
  <2>1. /\ handlers # <<>> /\ Top.sig # "CHLD" /\ Top.at = "kill"
        /\ UNCHANGED <<table, main>>
    BY <1>6 DEF SigintKill, SigtstpKill, KillGroup, InHandler
  <2>2. \/ /\ Top.pid \in Pids /\ proc[Top.pid] # "none"
           /\ GoTo("mark", Top.pid) /\ UNCHANGED status
           /\ \/ Exits(Top.pid)
              \/ Stops(Top.pid)
              \/ UNCHANGED <<children, chld>>
        \/ status' = "exited" /\ UNCHANGED <<children, chld, handlers>>
    BY <1>6 DEF SigintKill, SigtstpKill, KillGroup, CanSignal, Signalled
  <2>3. \/ UNCHANGED <<proc, news, chld>>
        \/ chld' /\ \A q \in Pids : proc'[q] = "none" <=> proc[q] = "none"
    BY <2>2 DEF Exits, Stops, Becomes, children, ShellInv, TypeOK
  <2>4. /\ handlers' \in Seq(Activation) /\ DOMAIN handlers' = DOMAIN handlers
        /\ \A k \in DOMAIN handlers :
             \/ handlers'[k] = handlers[k]
             \/ /\ handlers'[k].sig = handlers[k].sig
                /\ handlers[k].at = "kill" /\ handlers'[k].at = "mark"
    <3>1. CASE UNCHANGED handlers
      BY <1>0, <3>1
    <3>2. CASE Top.pid \in Pids /\ GoTo("mark", Top.pid)
      BY <1>0, <2>1, <3>2, GoToSpec DEF Top
    <3> QED
      BY <2>2, <3>1, <3>2
  <2>5. TypeOK'
    BY <1>0, <2>1, <2>2, <2>4
    DEF TypeOK, table, main, children, Exits, Stops, Becomes
  <2>6. /\ HandlersNest' /\ DeletingIsGone' /\ ListedAreChildren'
        /\ ForkedIsNew' /\ NothingUnnoticed'
    BY <2>1, <2>3, <2>4, ChildrenChange
  <2>7. /\ PickedOrCleared' /\ ForegroundIsAwaited'
        /\ OneSlotPerProcess'
    <3>1. \A k \in Slots : jobs'[k] = jobs[k]
      BY <2>1 DEF table
    <3> QED
      BY <2>1, <3>1, MainUntouched
  <2> QED
    BY <2>5, <2>6, <2>7 DEF ShellInv
<1>7. CASE SigintMark \/ SigtstpMark
  <2>1. PICK state \in {UNDEF, ST} : SetState(Top.slot, state)
    BY <1>7 DEF SigintMark, SigtstpMark, MarkSignalled
  <2>2. /\ handlers # <<>> /\ Top.sig # "CHLD" /\ Top.at = "mark" /\ Return
        /\ UNCHANGED <<main, chld, children, status>>
    BY <1>7 DEF SigintMark, SigtstpMark, MarkSignalled, InHandler
  <2>3. Top.slot \in {NoSlot} \cup Slots
    BY <1>0, <2>2, TopSpec DEF Activation
  <2>4. /\ jobs' \in [Slots -> Slot] /\ nextjid' \in Nat
        /\ \A k \in Slots : /\ jobs'[k].pid = jobs[k].pid
                            /\ jobs'[k].state \in {UNDEF, ST, jobs[k].state}
    BY <1>0, <2>1, <2>3, SetStateSpec
  <2>5. /\ handlers' \in Seq(Activation)
        /\ DOMAIN handlers' = DOMAIN handlers \ {Len(handlers)}
        /\ \A k \in DOMAIN handlers' : handlers'[k] = handlers[k]
    BY <1>0, <2>2, ReturnSpec
  <2>6. TypeOK'
    BY <1>0, <2>2, <2>4, <2>5 DEF TypeOK, main, children
  <2>7. HandlersNest'
    BY <2>5 DEF ShellInv, HandlersNest
  <2>8. /\ \A p : Deleting(p)' <=> Deleting(p)
        /\ Active("CHLD")' <=> Active("CHLD")
    BY <2>2, <2>5 DEF Deleting, Active, Top
  <2>9. DeletingIsGone' /\ NothingUnnoticed' /\ ForkedIsNew'
    BY <2>2, <2>4, <2>8
    DEF ShellInv, DeletingIsGone, NothingUnnoticed, ForkedIsNew, main, children
  <2>10. ListedAreChildren'
    BY <2>2, <2>4, <2>8 DEF ShellInv, ListedAreChildren, Listed, children
  <2>11. /\ PickedOrCleared' /\ ForegroundIsAwaited'
         /\ OneSlotPerProcess'
    <3>1. \A k \in Slots : /\ jobs'[k].pid \in {0, jobs[k].pid}
                           /\ jobs'[k].state = FG => jobs[k].state = FG
      BY <2>4 DEF FG, ST, UNDEF
    <3> QED
      BY <2>2, <3>1, MainUntouched
  <2> QED
    BY <2>6, <2>7, <2>9, <2>10, <2>11 DEF ShellInv
<1> QED
  BY <1>1, <1>2, <1>3, <1>4, <1>5, <1>6, <1>7 DEF HandlerStep

(***************************************************************************)
(* The theorems.                                                           *)
(***************************************************************************)

\* The inductive invariant holds in every reachable state.
THEOREM ShellCorrect == Spec => []ShellInv
<1>1. ShellInv /\ [Next]_vars => ShellInv'
  <2> SUFFICES ASSUME ShellInv, [Next]_vars PROVE ShellInv'
    OBVIOUS
  <2>1. CASE MainStep
    BY <2>1, MainPreserves
  <2>2. CASE HandlerStep
    BY <2>2, HandlerPreserves
  <2>3. CASE \E p \in Pids : SetPgid(p) \/ ChildStep(p)
    BY <2>3, ChildPreserves
  <2>4. CASE UNCHANGED vars
    <3>1. /\ UNCHANGED <<table, main, handlers, chld, children, status>>
      BY <2>4 DEF vars
    <3>2. TypeOK'
      BY <3>1 DEF ShellInv, TypeOK, table, main, children
    <3>3. ForkedIsNew' /\ PickedOrCleared' /\ ForegroundIsAwaited'
      BY <3>1 DEF ShellInv, ForkedIsNew, PickedOrCleared, ForegroundIsAwaited, Listed, IsLast, Active, table, main, children
    <3> QED
      BY <3>1, <3>2, <3>3, ListUntouched DEF ShellInv
  <2> QED
    BY <2>1, <2>2, <2>3, <2>4 DEF Next, Ended
<1> QED
  BY <1>1, ShellInit, PTL DEF Spec

\* Every listed job is a child that has not been reaped, or that the SIGCHLD
\* handler is about to delete: eval adds it before it can be reaped.
THEOREM JobsAreChildren == Spec => []ListedAreChildren
<1>1. ShellInv => ListedAreChildren
  BY DEF ShellInv
<1> QED
  BY <1>1, ShellCorrect, PTL

\* The only foreground job is the one the shell waits for, or is about to wait
\* for; while addjob fills a slot, the job being added may pass for one.
THEOREM OneForegroundJob == Spec => []ForegroundIsAwaited
<1>1. ShellInv => ForegroundIsAwaited
  BY DEF ShellInv
<1> QED
  BY <1>1, ShellCorrect, PTL

\* No state change of a child is lost when SIGCHLDs coalesce.
THEOREM ChildrenNoticed == Spec => []NothingUnnoticed
<1>1. ShellInv => NothingUnnoticed
  BY DEF ShellInv
<1> QED
  BY <1>1, ShellCorrect, PTL

\* The job list, eval's locals and the handlers' activations stay in their types,
\* however the handlers nest.
THEOREM ShellTypes == Spec => []TypeOK
<1>1. ShellInv => TypeOK
  BY DEF ShellInv
<1> QED
  BY <1>1, ShellCorrect, PTL

\* A process has one slot: a pid that is used again was deleted before.
THEOREM OneSlotEach == Spec => []OneSlotPerProcess
<1>1. ShellInv => OneSlotPerProcess
  BY DEF ShellInv
<1> QED
  BY <1>1, ShellCorrect, PTL

\* No step takes the slot from a process that lives: addjob takes an empty one,
\* and deletejob clears that of a process already reaped.
LEMMA AliveKeepsSlot ==
  ASSUME ShellInv, [Next]_vars,
         NEW i \in Slots, jobs[i].pid \in Pids, Alive(jobs[i].pid)
  PROVE  jobs'[i].pid = jobs[i].pid
<1>1. /\ TypeOK /\ jobs \in [Slots -> Slot] /\ nextjid \in Nat
      /\ jobs[i].pid # 0 /\ ~Deleting(jobs[i].pid) /\ OneSlotPerProcess
  BY ShellAssumption DEF ShellInv, TypeOK, DeletingIsGone, Alive, ShellAssumption
<1>2. ASSUME NEW k \in {NoSlot} \cup Slots, NEW state \in {FG, BG, ST, UNDEF},
             SetState(k, state)
      PROVE  jobs'[i].pid = jobs[i].pid
  BY <1>1, <1>2, SetStateSpec
<1>3. CASE UNCHANGED table
  BY <1>3 DEF table
<1>4. CASE MarkJob
  BY <1>2, <1>4 DEF MarkJob, InMain, ShellInv, PickedOrCleared
<1>5. CASE Enlist \/ FillSlot
  <2>1. CASE Enlist
    <3> DEFINE S == {k \in Slots : jobs[k].pid = 0}
    <3>1. First(S) # NoSlot => First(S) \in S
      BY FirstSpec
    <3>2. \/ UNCHANGED jobs
          \/ \E k \in S : jobs' = [jobs EXCEPT ![k].pid = pid]
      BY <2>1, <3>1 DEF Enlist
    <3> QED
      BY <1>1, <3>2
  <2>2. CASE FillSlot
    <3>1. job \in Slots
      BY <2>2 DEF FillSlot, InMain, ShellInv, PickedOrCleared
    <3> QED
      BY <1>1, <2>2, <3>1 DEF FillSlot
  <2> QED
    BY <1>5, <2>1, <2>2
<1>6. CASE Adjust
  <2>1. Named \in {NoSlot} \cup Slots
    BY <1>6, NamedSpec DEF Adjust, InMain
  <2> QED
    BY <1>2, <1>3, <1>6, <2>1 DEF Adjust
<1>7. CASE RecordExit
  <2>1. /\ Len(handlers) \in DOMAIN handlers /\ Top \in Activation
        /\ Top = handlers[Len(handlers)] /\ Top.at = "exited" /\ deletejob(Top.pid)
    BY <1>1, <1>7, TopSpec DEF RecordExit, InHandler
  <2>2. Top.pid \in {0} \cup Pids
    BY <2>1 DEF Activation
  <2>3. jobs[i].pid # Top.pid
    BY <1>1, <2>1 DEF Deleting
  <2> HIDE DEF Top
  <2> QED
    BY <1>1, <2>1, <2>2, <2>3, DeletejobSpec
<1>8. CASE RecordStop
  <2>1. ASSUME NEW p PROVE getjobpid(p) \in {NoSlot} \cup Slots
    BY FirstSpec DEF getjobpid
  <2> QED
    BY <1>2, <1>3, <1>8, <2>1 DEF RecordStop
<1>9. CASE SigintMark \/ SigtstpMark
  <2>1. Top.slot \in {NoSlot} \cup Slots
    BY <1>1, <1>9, TopSpec DEF SigintMark, SigtstpMark, MarkSignalled, InHandler, Activation
  <2>2. \E state \in {ST, UNDEF} : SetState(Top.slot, state)
    BY <1>9 DEF SigintMark, SigtstpMark, MarkSignalled
  <2> QED
    BY <1>2, <2>1, <2>2
<1>10. UNCHANGED table
       \/ MarkJob \/ Enlist \/ FillSlot \/ Adjust \/ RecordExit \/ RecordStop
       \/ SigintMark \/ SigtstpMark
  <2>1. CASE MainStep
    BY <2>1
    DEF MainStep, ReadLine, Leave, BuiltinOnly, PickJob, ContinueJob, Fork, ForkFails,
        Settle, EndWait
  <2>2. CASE HandlerStep
    BY <2>2
    DEF HandlerStep, EnterChld, WaitPid, WaitPidNone, RecordContinue, Interrupt,
        SigintKill, SigtstpKill, KillGroup
  <2>3. CASE \E p \in Pids : SetPgid(p) \/ ChildStep(p)
    BY <2>3 DEF SetPgid, ChildStep
  <2>4. CASE UNCHANGED vars
    BY <2>4 DEF vars
  <2> QED
    BY <2>1, <2>2, <2>3, <2>4 DEF Next, Ended
<1> QED
  BY <1>3, <1>4, <1>5, <1>6, <1>7, <1>8, <1>9, <1>10

\* A job that lives keeps its slot, whatever handlers run in between.
THEOREM AliveStays == Spec => AliveStaysListed
<1>1. ShellInv /\ [Next]_vars =>
        [\A i \in Slots :
           jobs[i].pid \in Pids /\ Alive(jobs[i].pid) => jobs'[i].pid = jobs[i].pid]_vars
  BY AliveKeepsSlot
<1> QED
  BY <1>1, ShellCorrect, PTL DEF Spec, AliveStaysListed

\* parseline keeps no state of its own: the lines that are typed at the prompt
\* are understood, and nothing of them is lost, whatever ran before.
THEOREM LinesParsed == Spec => []LinesAreParsed
<1>1. LinesAreParsed
  BY CheckedLinesAreParsed DEF LinesAreParsed
<1> QED
  BY <1>1, PTL

=============================================================================
