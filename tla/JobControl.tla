----------------------------- MODULE JobControl -----------------------------
(***************************************************************************)
(* Job control in the shell of Lab 4 (csapsh.c): the read/eval loop, the   *)
(* job list, and the handlers of SIGCHLD, SIGINT and SIGTSTP that run      *)
(* between any two steps of it, and of one another (Signal installs them   *)
(* with an empty sa_mask, so each blocks only its own signal).             *)
(*                                                                         *)
(* The children are environment: a child puts itself in its own process    *)
(* group first and from then on exits, stops and is continued as it likes  *)
(* (this covers exec failures, forked builtins, and kill from elsewhere).  *)
(* A step ends where a handler could see the difference.  clearjob is one  *)
(* step, as a handler treats a half-cleared slot like a cleared one.       *)
(* addjob is two: between its stores the slot has a pid, and the state of  *)
(* the job that had it before.                                             *)
(*                                                                         *)
(* A pid is free again once it has been reaped.  Ctrl-C and Ctrl-Z with no *)
(* foreground process to signal return from the handler with no effect and *)
(* are not steps.                                                          *)
(***************************************************************************)
EXTENDS Integers, Sequences

CONSTANTS
  MaxJobs,   \* MAXJOBS
  Pids,      \* process IDs fork can return
  Lines,     \* command lines, as parseline leaves them
  MaxJid     \* bound on the job IDs handed out (not in the code)

FG == "FG"
BG == "BG"
ST == "ST"
UNDEF == "UNDEF"

Slots == 1 .. MaxJobs
Commands ==
  [name : {"program", "fg", "bg", "jobs", "quit"},
   arg  : {"none", "jid", "pid"}, id : Nat]

ASSUME ShellAssumption ==
  /\ MaxJobs \in Nat \ {0}
  /\ Pids \subseteq Nat \ {0}
  /\ MaxJid \in Nat
  /\ Lines \subseteq [cmds : Seq(Commands) \ {<<>>}, mode : {FG, BG},
                      outfile : BOOLEAN]

NoLine == [cmds |-> <<>>, mode |-> FG, outfile |-> FALSE]

VARIABLES
  jobs, nextjid,           \* the job list
  pc, line, cmd_idx,       \* eval: control point, the line, the command at hand
  pid, job,                \* fork_pid or job_pid; the slot being worked on
  handlers,                \* stack of handler activations, the running one last
  chld,                    \* SIGCHLD is pending
  proc, grouped, news,     \* children: state, own process group?, what wait says
  status                   \* of the shell

table    == <<jobs, nextjid>>
main     == <<pc, line, cmd_idx, pid, job>>
children == <<proc, grouped, news>>
vars     == <<table, main, handlers, chld, children, status>>

(***************************************************************************)
(* The job list.                                                           *)
(***************************************************************************)
Cleared == [pid |-> 0, jid |-> 0, state |-> UNDEF]
NoSlot  == 0

\* The array is searched from the front.
First(S) == IF S = {} THEN NoSlot ELSE CHOOSE i \in S : \A j \in S : i <= j

getjobpid(p) == IF p < 1 THEN NoSlot ELSE First({i \in Slots : jobs[i].pid = p})
getjobjid(j) == IF j < 1 THEN NoSlot ELSE First({i \in Slots : jobs[i].jid = j})

fgpid == LET i == First({s \in Slots : jobs[s].state = FG})
         IN  IF i = NoSlot THEN 0 ELSE jobs[i].pid

maxjid(list) ==
  CHOOSE m \in {0} \cup {list[i].jid : i \in Slots} :
    \A i \in Slots : list[i].jid <= m

\* Slip in deletejob: one off in the other direction.
DeletejobBelowMax(p) ==
  LET i == getjobpid(p)
  IN  IF i = NoSlot
      THEN UNCHANGED table
      ELSE /\ jobs' = [jobs EXCEPT ![i] = Cleared]
           /\ nextjid' = maxjid(jobs') - 1

deletejob(p) ==
  LET i == getjobpid(p)
  IN  IF i = NoSlot
      THEN UNCHANGED table
      ELSE /\ jobs' = [jobs EXCEPT ![i] = Cleared]
           /\ nextjid' = maxjid(jobs') + 1

SetState(i, state) ==
  /\ jobs' = [jobs EXCEPT ![i].state = state]
  /\ UNCHANGED nextjid

(***************************************************************************)
(* The children and the kernel.                                            *)
(***************************************************************************)
Alive(p) == proc[p] \in {"running", "stopped"}

\* kill(-p, ...) finds a process: one that leads group p, even as a zombie.
CanSignal(p) == p \in Pids /\ proc[p] # "none" /\ grouped[p]

\* A change of p's state, which waitpid reports and SIGCHLD announces.
Becomes(p, state, report) ==
  /\ proc' = [proc EXCEPT ![p] = state]
  /\ news' = [news EXCEPT ![p] = report]
  /\ chld' = TRUE
  /\ UNCHANGED grouped

Exits(p)   == Alive(p)             /\ Becomes(p, "zombie", "exited")
Stops(p)   == proc[p] = "running"  /\ Becomes(p, "stopped", "stopped")
Resumes(p) == proc[p] = "stopped"  /\ Becomes(p, "running", "continued")

\* What a signal sent to p's group may do at once; p may also ignore it, and
\* a zombie or a process that is already in that state is not affected.
Signalled(p, sig) ==
  \/ sig = "INT"  /\ Exits(p)
  \/ sig = "TSTP" /\ Stops(p)
  \/ UNCHANGED <<children, chld>>

(***************************************************************************)
(* The read/eval loop.                                                     *)
(***************************************************************************)
Init ==
  /\ jobs = [i \in Slots |-> Cleared]
  /\ nextjid = 1
  /\ pc = "read" /\ line = NoLine /\ cmd_idx = 1 /\ pid = 0 /\ job = NoSlot
  /\ handlers = <<>>
  /\ chld = FALSE
  /\ proc = [p \in Pids |-> "none"]
  /\ grouped = [p \in Pids |-> FALSE]
  /\ news = [p \in Pids |-> "none"]
  /\ status = "running"

InMain(point) == status = "running" /\ handlers = <<>> /\ pc = point

Command == line.cmds[cmd_idx]
IsLast  == cmd_idx = Len(line.cmds)
Builtin == Command.name # "program"
Forks   == ~(IsLast /\ ~line.outfile /\ Builtin)

\* The slot a fg or bg argument names: %jid or pid.
Named == CASE Command.arg = "jid"  -> getjobjid(Command.id)
           [] Command.arg = "pid"  -> getjobpid(Command.id)
           [] Command.arg = "none" -> NoSlot

\* What follows a command: the next one of the pipe, or the next line (the
\* locals of eval are dead then).
NextCommand ==
  /\ pid' = 0 /\ job' = NoSlot
  /\ IF IsLast THEN pc' = "read" /\ line' = NoLine /\ cmd_idx' = 1
               ELSE pc' = "command" /\ UNCHANGED line /\ cmd_idx' = cmd_idx + 1

ReadLine ==
  /\ InMain("read")
  /\ \E l \in Lines : line' = l
  /\ pc' = "command"
  /\ UNCHANGED <<table, cmd_idx, pid, job, handlers, chld, children, status>>

\* Ctrl-D, and the quit command.
Leave ==
  /\ \/ InMain("read")
     \/ InMain("command") /\ ~Forks /\ Command.name = "quit"
  /\ status' = "exited"
  /\ UNCHANGED <<table, main, handlers, chld, children>>

\* A builtin that ends here: jobs, and fg or bg of no such job.
BuiltinOnly ==
  /\ InMain("command") /\ ~Forks
  /\ \/ Command.name = "jobs"
     \/ Command.name \in {"fg", "bg"} /\ Named = NoSlot
  /\ NextCommand
  /\ UNCHANGED <<table, handlers, chld, children, status>>

\* do_bgfg up to the kill: the job and its pid.
PickJob ==
  /\ InMain("command") /\ ~Forks
  /\ Command.name \in {"fg", "bg"} /\ Named # NoSlot
  /\ job' = Named
  /\ pid' = jobs[Named].pid
  /\ pc' = "continue"
  /\ UNCHANGED <<table, line, cmd_idx, handlers, chld, children, status>>

\* kill(-job_pid, SIGCONT); the shell exits when the job has been reaped.
ContinueJob ==
  /\ InMain("continue")
  /\ UNCHANGED <<table, line, cmd_idx, pid, job, handlers>>
  /\ \/ /\ CanSignal(pid)
        /\ IF proc[pid] = "stopped" THEN Resumes(pid)
                                    ELSE UNCHANGED <<children, chld>>
        /\ pc' = "mark"
        /\ UNCHANGED status
     \/ /\ ~CanSignal(pid)
        /\ status' = "exited"
        /\ UNCHANGED <<children, chld, pc>>

\* job->state = FG or BG: in whatever the slot holds by now.
MarkJob ==
  /\ InMain("mark")
  /\ \/ /\ Command.name = "fg" /\ SetState(job, FG)
        /\ pc' = "wait" /\ UNCHANGED <<line, cmd_idx, pid, job>>
     \/ Command.name = "bg" /\ SetState(job, BG) /\ NextCommand
  /\ UNCHANGED <<handlers, chld, children, status>>

\* SIGCHLD is blocked from here until addjob has returned.
Fork ==
  /\ InMain("command") /\ Forks
  /\ nextjid <= MaxJid
  /\ \E p \in Pids :
       /\ proc[p] = "none"
       /\ proc' = [proc EXCEPT ![p] = "running"]
       /\ pid' = p
  /\ pc' = "forked"
  /\ UNCHANGED <<table, line, cmd_idx, job, handlers, chld, grouped, news, status>>

\* pipe or fork fails: unix_error.
ForkFails ==
  /\ InMain("command") /\ Forks
  /\ status' = "exited"
  /\ UNCHANGED <<table, main, handlers, chld, children>>

AfterFork == IF Command.name \in {"fg", "bg"} THEN "adjust" ELSE "settle"

\* addjob, called for the last command of a pipe, stores the pid in the first
\* empty slot.  A full list only gets a message; eval ignores the failure.
Enlist ==
  /\ InMain("forked")
  /\ job' = IF IsLast THEN First({i \in Slots : jobs[i].pid = 0}) ELSE NoSlot
  /\ IF job' = NoSlot
     THEN pc' = AfterFork /\ UNCHANGED jobs
     ELSE pc' = "filling" /\ jobs' = [jobs EXCEPT ![job'].pid = pid]
  /\ UNCHANGED <<nextjid, line, cmd_idx, pid, handlers, chld, children, status>>

\* addjob stores the state and the job ID.  SIGINT and SIGTSTP may have come
\* since the pid was stored, and found the slot's old state.
FillSlot ==
  /\ InMain("filling")
  /\ jobs' = [jobs EXCEPT ![job] =
                [pid |-> @.pid, jid |-> nextjid, state |-> line.mode]]
  /\ nextjid' = IF nextjid + 1 > MaxJobs THEN 1 ELSE nextjid + 1
  /\ job' = NoSlot
  /\ pc' = AfterFork
  /\ UNCHANGED <<line, cmd_idx, pid, handlers, chld, children, status>>

\* The parent of a forked fg or bg marks the job; argv[1] must be there.
Adjust ==
  /\ InMain("adjust")
  /\ pc' = "settle"
  /\ IF Named = NoSlot THEN UNCHANGED table ELSE SetState(Named, BG)
  /\ status' = IF Command.arg = "none" THEN "crashed" ELSE status
  /\ UNCHANGED <<line, cmd_idx, pid, job, handlers, chld, children>>

\* The parent waits for a foreground job and announces a background process,
\* which dereferences NULL when that process is in no slot.
Settle ==
  /\ InMain("settle")
  /\ UNCHANGED <<table, handlers, chld, children>>
  /\ \/ /\ line.mode = FG /\ IsLast
        /\ pc' = "wait"
        /\ UNCHANGED <<line, cmd_idx, pid, job, status>>
     \/ /\ line.mode = FG /\ ~IsLast
        /\ NextCommand
        /\ UNCHANGED status
     \/ /\ line.mode = BG /\ getjobpid(pid) # NoSlot
        /\ NextCommand
        /\ UNCHANGED status
     \/ /\ line.mode = BG /\ getjobpid(pid) = NoSlot
        /\ status' = "crashed"
        /\ UNCHANGED main

\* Slip in EndWait: waitfg sleeps once and returns.
EndWaitOnce ==
  /\ InMain("wait")
  /\ NextCommand
  /\ UNCHANGED <<table, handlers, chld, children, status>>

\* waitfg looks once a second; this is the look that ends it.
EndWait ==
  /\ InMain("wait")
  /\ LET i == getjobpid(pid) IN i # NoSlot => jobs[i].state # FG
  /\ NextCommand
  /\ UNCHANGED <<table, handlers, chld, children, status>>

(***************************************************************************)
(* The handlers.                                                           *)
(***************************************************************************)
Signals == {"CHLD", "INT", "TSTP"}
Active(sig) == \E k \in DOMAIN handlers : handlers[k].sig = sig
Top == handlers[Len(handlers)]

Enter(sig, at, p, i) ==
  handlers' = Append(handlers, [sig |-> sig, at |-> at, pid |-> p, slot |-> i])
Return == handlers' = SubSeq(handlers, 1, Len(handlers) - 1)
GoTo(at, p) ==
  handlers' = [handlers EXCEPT ![Len(handlers)].at = at,
                               ![Len(handlers)].pid = p]
InHandler(sig, at) ==
  status = "running" /\ handlers # <<>> /\ Top.sig = sig /\ Top.at = at

\* Slip in EnterChld: SIGCHLD is not blocked around fork and addjob.
EnterChldUnblocked ==
  /\ status = "running" /\ chld /\ ~Active("CHLD")
  /\ Enter("CHLD", "reap", 0, NoSlot)
  /\ chld' = FALSE
  /\ UNCHANGED <<table, main, children, status>>

EnterChld ==
  /\ status = "running" /\ chld /\ ~Active("CHLD")
  /\ pc \notin {"forked", "filling"}
  /\ Enter("CHLD", "reap", 0, NoSlot)
  /\ chld' = FALSE
  /\ UNCHANGED <<table, main, children, status>>

\* waitpid(-1, ..., WNOHANG | WUNTRACED | WCONTINUED) has something to report.
WaitPid ==
  /\ InHandler("CHLD", "reap")
  /\ \E p \in Pids :
       /\ news[p] # "none"
       /\ GoTo(news[p], p)
       /\ news' = [news EXCEPT ![p] = "none"]
       /\ IF news[p] = "exited"
          THEN /\ proc' = [proc EXCEPT ![p] = "none"]
               /\ grouped' = [grouped EXCEPT ![p] = FALSE]
          ELSE UNCHANGED <<proc, grouped>>
  /\ UNCHANGED <<table, main, chld, status>>

WaitPidNone ==
  /\ InHandler("CHLD", "reap")
  /\ \A p \in Pids : news[p] = "none"
  /\ Return
  /\ UNCHANGED <<table, main, chld, children, status>>

\* Slip in RecordExit: one waitpid per SIGCHLD.
RecordExitOnce ==
  /\ InHandler("CHLD", "exited")
  /\ deletejob(Top.pid)
  /\ Return
  /\ UNCHANGED <<main, chld, children, status>>

RecordExit ==
  /\ InHandler("CHLD", "exited")
  /\ deletejob(Top.pid)
  /\ GoTo("reap", 0)
  /\ UNCHANGED <<main, chld, children, status>>

\* Slip in RecordStop: a stopped job is deleted like an ended one.
RecordStopAsExit ==
  /\ InHandler("CHLD", "stopped")
  /\ deletejob(Top.pid)
  /\ GoTo("reap", 0)
  /\ UNCHANGED <<main, chld, children, status>>

\* job->state = ST with no check that there is a job.
RecordStop ==
  /\ InHandler("CHLD", "stopped")
  /\ LET i == getjobpid(Top.pid)
     IN  \/ i # NoSlot /\ SetState(i, ST) /\ UNCHANGED status
         \/ i = NoSlot /\ status' = "crashed" /\ UNCHANGED table
  /\ GoTo("reap", 0)
  /\ UNCHANGED <<main, chld, children>>

RecordContinue ==
  /\ InHandler("CHLD", "continued")
  /\ GoTo("reap", 0)
  /\ UNCHANGED <<table, main, chld, children, status>>

\* Ctrl-C or Ctrl-Z: the handler finds the foreground job.
Interrupt(sig) ==
  /\ status = "running" /\ ~Active(sig)
  /\ fgpid # 0
  /\ Enter(sig, "kill", fgpid, getjobpid(fgpid))
  /\ UNCHANGED <<table, main, chld, children, status>>

\* It signals the group; the shell exits when there is none (any more, or yet).
KillGroup(sig) ==
  /\ InHandler(sig, "kill")
  /\ UNCHANGED <<table, main>>
  /\ \/ /\ CanSignal(Top.pid)
        /\ Signalled(Top.pid, sig)
        /\ GoTo("mark", Top.pid)
        /\ UNCHANGED status
     \/ /\ ~CanSignal(Top.pid)
        /\ status' = "exited"
        /\ UNCHANGED <<children, chld, handlers>>

\* fg_job->state = UNDEF or ST
MarkSignalled(sig, state) ==
  /\ InHandler(sig, "mark")
  /\ SetState(Top.slot, state)
  /\ Return
  /\ UNCHANGED <<main, chld, children, status>>

SigintKill  == KillGroup("INT")
SigtstpKill == KillGroup("TSTP")
SigintMark  == MarkSignalled("INT", UNDEF)
SigtstpMark == MarkSignalled("TSTP", ST)

(***************************************************************************)
(* The children's own steps.                                               *)
(***************************************************************************)
SetPgid(p) ==
  /\ status = "running"
  /\ Alive(p) /\ ~grouped[p]
  /\ grouped' = [grouped EXCEPT ![p] = TRUE]
  /\ UNCHANGED <<table, main, handlers, chld, proc, news, status>>

ChildStep(p) ==
  /\ status = "running"
  /\ grouped[p]
  /\ Exits(p) \/ Stops(p) \/ Resumes(p)
  /\ UNCHANGED <<table, main, handlers, status>>

Ended == status # "running" /\ UNCHANGED vars

MainStep ==
  \/ ReadLine \/ Leave \/ BuiltinOnly
  \/ PickJob \/ ContinueJob \/ MarkJob
  \/ Fork \/ ForkFails \/ Enlist \/ FillSlot
  \/ Adjust \/ Settle \/ EndWait

HandlerStep ==
  \/ EnterChld \/ WaitPid \/ WaitPidNone
  \/ RecordExit \/ RecordStop \/ RecordContinue
  \/ \E sig \in {"INT", "TSTP"} : Interrupt(sig)
  \/ SigintKill \/ SigtstpKill \/ SigintMark \/ SigtstpMark

Next ==
  \/ MainStep
  \/ HandlerStep
  \/ \E p \in Pids : SetPgid(p) \/ ChildStep(p)
  \/ Ended

Spec == Init /\ [][Next]_vars

(***************************************************************************)
(* Properties.                                                             *)
(***************************************************************************)
Slot == [pid : {0} \cup Pids, jid : Nat, state : {FG, BG, ST, UNDEF}]
Activation ==
  [sig  : Signals,
   at   : {"reap", "exited", "stopped", "continued", "kill", "mark"},
   pid  : {0} \cup Pids,
   slot : {NoSlot} \cup Slots]

\* Every variable has a value of its C type; a job list is MAXJOBS slots.
TypeOK ==
  /\ jobs \in [Slots -> Slot] /\ nextjid \in Nat
  /\ pc \in {"read", "command", "continue", "mark", "forked", "filling",
            "adjust", "settle", "wait"}
  /\ IF pc = "read" THEN line = NoLine /\ cmd_idx = 1
                    ELSE line \in Lines /\ cmd_idx \in 1 .. Len(line.cmds)
  /\ pid \in {0} \cup Pids /\ job \in {NoSlot} \cup Slots
  /\ handlers \in Seq(Activation)
  /\ chld \in BOOLEAN
  /\ proc \in [Pids -> {"none", "running", "stopped", "zombie"}]
  /\ grouped \in [Pids -> BOOLEAN]
  /\ news \in [Pids -> {"none", "exited", "stopped", "continued"}]
  /\ status \in {"running", "exited", "crashed"}

Listed == {i \in Slots : jobs[i].pid # 0}

\* The SIGCHLD handler has reaped p and is about to delete its job.
Deleting(p) ==
  \E k \in DOMAIN handlers : handlers[k].at = "exited" /\ handlers[k].pid = p

\* A listed job is a child of the shell that has not been reaped: eval blocks
\* SIGCHLD from fork to addjob so that no job is added after its process has
\* been reaped, and would stay for ever (README.md:193).
ListedAreChildren ==
  \A i \in Listed : proc[jobs[i].pid] = "none" => Deleting(jobs[i].pid)

\* No process is listed twice, so that a pid names one job.
OneSlotPerProcess ==
  \A i, j \in Listed : jobs[i].pid = jobs[j].pid => i = j

\* A job is in state FG only while the shell waits for it, or is about to
\* because its line is a foreground line: no other job is in the foreground
\* (README.md:45), and none is when the shell reads the next line.  There is
\* one moment more, when addjob has stored the pid in a slot that an ended job
\* left in state FG (lines 406, 767): only the job being added can be taken
\* for the foreground job then, and only until its own state is stored.
ForegroundIsAwaited ==
  \A i \in Listed : jobs[i].state = FG =>
    /\ jobs[i].pid = pid
    /\ \/ pc = "wait"
       \/ pc \in {"adjust", "settle"} /\ line.mode = FG /\ IsLast
       \/ pc = "filling" /\ i = job

\* What a child did is not forgotten although SIGCHLDs do not queue: while
\* waitpid has something to report, a SIGCHLD is pending or its handler has
\* yet to call waitpid again (README.md:112, all zombies are reaped).
NothingUnnoticed ==
  (\E p \in Pids : news[p] # "none") => chld \/ Active("CHLD")

\* A job leaves the list only when its process is gone; one that stopped, was
\* continued or survived a Ctrl-C keeps its slot.
AliveStaysListed ==
  [][\A i \in Slots :
       jobs[i].pid \in Pids /\ Alive(jobs[i].pid) => jobs'[i].pid = jobs[i].pid]_vars

\* Ctrl-C and Ctrl-Z are passed on to the foreground job, whatever it is doing
\* just then, and leave the shell as it is (README.md:101-102).
InterruptSparesShell ==
  [][handlers # <<>> /\ Top.sig \in {"INT", "TSTP"} => status' = status]_vars

\* A background command line leads back to the prompt at once, whatever its
\* process has done meanwhile (README.md:45).
BackgroundReturns ==
  [][pc = "settle" /\ line.mode = BG => status' # "crashed"]_vars

=============================================================================
