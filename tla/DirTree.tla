------------------------------ MODULE DirTree ------------------------------
(***************************************************************************)
(* dirtree: processDir walks directories, prints their entries and sums    *)
(* them up; main adds the summaries of several directories.  Calls of the  *)
(* system fail, and errno is what processDir tells it by.                  *)
(*                                                                         *)
(* An entry is its position in alphabetical order; entry 1 is the          *)
(* directory everything is in.  Its kind is the d_type that readdir gives: *)
(* a directory whose file system gives none is one of "other", which the   *)
(* code does not walk either.  A size is written as the number of times    *)
(* that each entry's size is in it.                                        *)
(***************************************************************************)
EXTENDS Integers, Sequences, FiniteSets, SequencesExt

CONSTANTS
  Entries,      \* 1 .. n
  Kinds,        \* the d_type values that occur
  ArgumentLists,  \* what the command line may name: sequences of entries
  MAX_DIR,      \* arguments taken, and entries before an array grows
  MaxFaults     \* bound on the calls that fail (not in the code)

Counted == {"dirs", "files", "links", "fifos", "socks"}

ASSUME TreeAssumption ==
  /\ IsFiniteSet(Entries) /\ Entries = 1 .. Cardinality(Entries) /\ 1 \in Entries
  /\ Kinds \subseteq Counted \cup {"other"}
  /\ ArgumentLists \subseteq Seq(Entries) \ {<<>>}
  /\ MAX_DIR \in Nat \ {0} /\ MaxFaults \in Nat

VARIABLES
  kind, parent,  \* the tree
  verbose,       \* F_VERBOSE
  directories, arg,  \* main: arguments and loop counter
  main,          \* main: control point
  stack,         \* the calls of processDir, the innermost first
  errno,         \* errno # 0
  dstat, tstat,
  streams,       \* open DIR streams
  printed,       \* entries listed for this argument
  faults,        \* calls that failed
  skipped,       \* entries that a failing call has hidden (history)
  unsized,       \* entries whose lstat failed (history)
  stale          \* entries left out though their lstat did not fail (history)

tree    == <<kind, parent, verbose, directories>>
history == <<faults, skipped, unsized, stale>>
walk    == <<stack, errno, streams, printed>>
vars    == <<tree, arg, main, walk, dstat, tstat, history>>

Summary == [count : [Counted -> Nat], size : [Entries -> Nat]]

Nothing == [count |-> [k \in Counted |-> 0], size |-> [e \in Entries |-> 0]]

TypeOK ==
  /\ kind \in [Entries -> Kinds] /\ parent \in [Entries -> Entries]
  /\ verbose \in BOOLEAN /\ errno \in BOOLEAN
  /\ directories \in Seq(Entries) /\ Len(directories) \in 1 .. MAX_DIR
  /\ arg \in 1 .. Len(directories) + 1
  /\ main \in {"next", "walk", "done", "crashed"}
  /\ \A n \in DOMAIN stack :
       /\ stack[n].dir \in Entries /\ stack[n].at \in {"open", "read", "visit"}
       /\ stack[n].i \in 1 .. Len(stack[n].children) + 1
  /\ dstat \in Summary /\ tstat \in Summary
  /\ streams \subseteq Entries /\ printed \in Seq(Entries)
  /\ faults \in 0 .. MaxFaults
  /\ skipped \cup unsized \cup stale \subseteq Entries

IsDir(e) == kind[e] = "dirs"
EntriesOf(d) == {e \in Entries \ {1} : parent[e] = d}

\* dirent_compare.
Before(e1, e2) ==
  CASE IsDir(e1) /\ ~IsDir(e2) -> TRUE
    [] ~IsDir(e1) /\ IsDir(e2) -> FALSE
    [] OTHER -> e1 < e2

\* Slip in Sorted: by name alone.
SortedByName(S) == SetToSortSeq(S, <)

\* qsort; no two entries are equal.
Sorted(S) ==
  CHOOSE s \in SetToSeqs(S) : \A m, n \in DOMAIN s : m < n => Before(s[m], s[n])

\* Slip in Accepted: no limit.
AcceptedAll(list) == list

\* Arguments beyond MAX_DIR are ignored.
Accepted(list) ==
  SubSeq(list, 1, IF Len(list) < MAX_DIR THEN Len(list) ELSE MAX_DIR)

Init ==
  /\ kind \in {f \in [Entries -> Kinds] : f[1] = "dirs"}
  /\ parent \in {f \in [Entries -> Entries] :
                   \A e \in Entries \ {1} : f[e] < e /\ kind[f[e]] = "dirs"}
  /\ parent[1] = 1
  /\ verbose \in BOOLEAN
  /\ \E list \in ArgumentLists : directories = Accepted(list)
  /\ arg = 1 /\ main = "next"
  /\ stack = <<>> /\ errno = FALSE
  /\ dstat = Nothing /\ tstat = Nothing
  /\ streams = {} /\ printed = <<>>
  /\ faults = 0 /\ skipped = {} /\ unsized = {} /\ stale = {}

(***************************************************************************)
(* processDir.                                                             *)
(***************************************************************************)
Top == Head(stack)
At(point) == main = "walk" /\ stack # <<>> /\ Top.at = point

Call(d) == [dir |-> d, at |-> "open", children |-> <<>>, i |-> 1]

\* A call of the system fails.
Fault == faults < MaxFaults /\ faults' = faults + 1

\* opendir: what is not a directory, or by any other error.
OpenFails ==
  /\ At("open")
  /\ IF IsDir(Top.dir)
       THEN Fault /\ skipped' = skipped \cup EntriesOf(Top.dir)
       ELSE UNCHANGED <<faults, skipped>>
  /\ stack' = Tail(stack) /\ errno' = FALSE
  /\ UNCHANGED <<tree, arg, main, streams, printed, dstat, tstat, unsized, stale>>

Open ==
  /\ At("open") /\ IsDir(Top.dir)
  /\ stack' = <<[Top EXCEPT !.at = "read"]>> \o Tail(stack)
  /\ streams' = streams \cup {Top.dir}
  /\ errno' = FALSE
  /\ UNCHANGED <<tree, arg, main, printed, dstat, tstat, history>>

Listed(read) ==
  stack' = <<[Top EXCEPT !.at = "visit", !.children = Sorted(read)]>> \o Tail(stack)

ReadAll ==
  /\ At("read")
  /\ Listed(EntriesOf(Top.dir))
  /\ errno' = FALSE
  /\ UNCHANGED <<tree, arg, main, streams, printed, dstat, tstat, history>>

\* readdir fails: getNext prints the error and returns NULL, as at the end.
ReadFails ==
  /\ At("read") /\ Fault
  /\ \E read \in SUBSET EntriesOf(Top.dir) :
       /\ Listed(read)
       /\ skipped' = skipped \cup (EntriesOf(Top.dir) \ read)
  /\ errno' = TRUE
  /\ UNCHANGED <<tree, arg, main, streams, printed, dstat, tstat, unsized, stale>>

\* malloc fails, for the array or for an entry.
OutOfMemory ==
  /\ At("read") /\ Fault
  /\ skipped' = skipped \cup EntriesOf(Top.dir)
  /\ streams' = streams \ {Top.dir}
  /\ stack' = Tail(stack) /\ errno' = FALSE
  /\ UNCHANGED <<tree, arg, main, printed, dstat, tstat, unsized, stale>>

\* realloc fails: the entries are freed through the pointer it returned.
ArrayLost ==
  /\ At("read") /\ Fault
  /\ Cardinality(EntriesOf(Top.dir)) >= MAX_DIR
  /\ main' = "crashed"
  /\ UNCHANGED <<tree, arg, walk, dstat, tstat, skipped, unsized, stale>>

Counts(stat, e) ==
  IF kind[e] \in Counted THEN [stat EXCEPT !.count[kind[e]] = @ + 1] ELSE stat

\* The next entry is counted and its children are walked before the one after it.
Visit(e, stat) ==
  LET rest == <<[Top EXCEPT !.i = @ + 1]>> \o Tail(stack)
  IN  /\ At("visit") /\ Top.i <= Len(Top.children) /\ e = Top.children[Top.i]
      /\ dstat' = Counts(stat, e)
      /\ printed' = Append(printed, e)
      /\ stack' = IF IsDir(e) THEN <<Call(e)>> \o rest ELSE rest
      /\ UNCHANGED <<tree, arg, main, streams, tstat, skipped>>

\* asprintf fails, for the path, the name or the prefix of an entry: the pointer
\* it was to set is undefined and used.  The model ends.
TextLost ==
  /\ At("visit") /\ Top.i <= Len(Top.children) /\ Fault
  /\ main' = "crashed"
  /\ UNCHANGED <<tree, arg, walk, dstat, tstat, skipped, unsized, stale>>

\* errno was not set and lstat did not set it.  Looking up the names of user and
\* group, and copying them (strdup), may leave it set, ...
VisitSized(e) ==
  /\ ~errno
  /\ Visit(e, [dstat EXCEPT !.size[e] = @ + 1])
  /\ \/ errno' = FALSE /\ UNCHANGED faults
     \/ verbose /\ Fault /\ errno' = TRUE
  /\ UNCHANGED <<unsized, stale>>

\* ... or find none, which is not looked at.
NameUnknown ==
  /\ At("visit") /\ Top.i <= Len(Top.children)
  /\ ~errno /\ verbose /\ Fault
  /\ main' = "crashed"
  /\ UNCHANGED <<tree, arg, walk, dstat, tstat, skipped, unsized, stale>>

\* Slip in VisitUnsized: errno is not reset.
VisitKeepsErrno(e) ==
  /\ Visit(e, dstat)
  /\ \/ Fault /\ unsized' = unsized \cup {e} /\ UNCHANGED stale
     \/ errno /\ stale' = stale \cup {e} /\ UNCHANGED <<faults, unsized>>
  /\ errno' = TRUE

\* lstat failed, or errno was set before.
VisitUnsized(e) ==
  /\ Visit(e, dstat)
  /\ \/ Fault /\ unsized' = unsized \cup {e} /\ UNCHANGED stale
     \/ errno /\ stale' = stale \cup {e} /\ UNCHANGED <<faults, unsized>>
  /\ errno' = FALSE

\* Slip in Return: the stream stays open.
ReturnOpen ==
  /\ At("visit") /\ Top.i > Len(Top.children)
  /\ stack' = Tail(stack)
  /\ UNCHANGED <<tree, arg, main, errno, streams, printed, dstat, tstat, history>>

Return ==
  /\ At("visit") /\ Top.i > Len(Top.children)
  /\ streams' = streams \ {Top.dir}
  /\ stack' = Tail(stack)
  /\ UNCHANGED <<tree, arg, main, errno, printed, dstat, tstat, history>>

(***************************************************************************)
(* main.                                                                   *)
(***************************************************************************)

\* Slip in StartDirectory: the summary is not reset.
StartOnTop ==
  /\ main = "next" /\ arg <= Len(directories)
  /\ stack' = <<Call(directories[arg])>>
  /\ printed' = <<>>
  /\ main' = "walk"
  /\ skipped' = {} /\ unsized' = {} /\ stale' = {}
  /\ UNCHANGED <<tree, arg, errno, streams, dstat, tstat, faults>>

StartDirectory ==
  /\ main = "next" /\ arg <= Len(directories)
  /\ dstat' = Nothing
  /\ stack' = <<Call(directories[arg])>>
  /\ printed' = <<>>
  /\ main' = "walk"
  /\ skipped' = {} /\ unsized' = {} /\ stale' = {}
  /\ UNCHANGED <<tree, arg, errno, streams, tstat, faults>>

Plus(a, b) ==
  [count |-> [k \in Counted |-> a.count[k] + b.count[k]],
   size  |-> [e \in Entries |-> a.size[e] + b.size[e]]]

\* Slip in Aggregate: the total is that of the last directory.
AggregateLast ==
  /\ main = "walk" /\ stack = <<>>
  /\ tstat' = dstat
  /\ arg' = arg + 1
  /\ main' = "next"
  /\ UNCHANGED <<tree, walk, dstat, history>>

Aggregate ==
  /\ main = "walk" /\ stack = <<>>
  /\ tstat' = Plus(tstat, dstat)
  /\ arg' = arg + 1
  /\ main' = "next"
  /\ UNCHANGED <<tree, walk, dstat, history>>

Done ==
  /\ main = "next" /\ arg > Len(directories)
  /\ main' = "done"
  /\ UNCHANGED <<tree, arg, walk, dstat, tstat, history>>

ProcessDir ==
  \/ OpenFails \/ Open
  \/ ReadAll \/ ReadFails \/ OutOfMemory \/ ArrayLost
  \/ \E e \in Entries : VisitSized(e) \/ VisitUnsized(e)
  \/ TextLost \/ NameUnknown \/ Return

Run == ProcessDir \/ StartDirectory \/ Aggregate \/ Done

Ended == main \in {"done", "crashed"} /\ UNCHANGED vars

Next == Run \/ Ended

Spec == Init /\ [][Next]_vars

(***************************************************************************)
(* Properties.                                                             *)
(***************************************************************************)

\* The path from entry 1 down to e.
Path == LET path[e \in Entries] == IF e = 1 THEN {1} ELSE path[parent[e]] \cup {e}
        IN  path

\* What a walk of d has to list: all below it, but for what failing calls hid.
Below(d) == {e \in Entries \ {d} : IsDir(d) /\ d \in Path[e]}
ToList(d) == {e \in Below(d) : Path[e] \cap Below(d) \cap skipped = {}}

\* The summary of a directory counts every entry below it once, at any depth,
\* but for those that a failing call has hidden (README.md:155, "A summary is
\* printed after each directory"; dirtree.c:220-275).  The grand total is the
\* sum of the trees named, an entry as many times as there are arguments above
\* it (dirtree.c:405-412).
SummaryCountsTheTree ==
  /\ main = "walk" /\ stack = <<>> =>
       \A k \in Counted :
         dstat.count[k] = Cardinality({e \in ToList(directories[arg]) : kind[e] = k})
  /\ main = "done" /\ faults = 0 =>
       \A e \in Entries :
         tstat.size[e] = Cardinality({n \in DOMAIN directories :
           e \in Below(directories[n])})

\* The total size has every entry that was listed and whose meta data was read,
\* once.  An entry is left out because of an errno that was set before, but not
\* more entries than calls have failed (dirtree.c:247-254).
SizesAreThere ==
  /\ main = "walk" =>
       \A e \in Entries :
         dstat.size[e] = IF e \in Range(printed) \ (unsized \cup stale) THEN 1 ELSE 0
  /\ Cardinality(stale) + Cardinality(unsized) <= faults

\* README.md:154, "in alphabetical order. Directories are listed before files";
\* what is below a directory comes right after it.
Follows(e, f) ==
  \/ e # f /\ e \in Path[f]
  \/ \E x \in Path[e], y \in Path[f] :
       /\ x # y /\ parent[x] = parent[y] /\ 1 \notin {x, y}
       /\ (IsDir(x) /\ ~IsDir(y)) \/ (IsDir(x) = IsDir(y) /\ x < y)

\* Entries are listed in the order of the README, at every depth, and none
\* twice, whatever fails (dirtree.c:82-95, :180).
ListedInOrder ==
  \A m, n \in DOMAIN printed : m < n => Follows(printed[m], printed[n])

\* The streams that are open are those of the directories on the way to the
\* entry at hand; on every return, with an error or not, they are closed
\* (dirtree.c:146, :160, :283).
StreamsOfThePath ==
  main # "crashed" =>
    streams = {stack[n].dir : n \in {m \in DOMAIN stack : stack[m].at # "open"}}

=============================================================================
