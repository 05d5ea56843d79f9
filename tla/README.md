# Specifications of SNU-SystemProgramming

TLA+ models of the programs of this repository, checked with TLC on small
instances and, where the argument does not depend on the instance, proved with
TLAPS. The programs that carry the repository's own core logic are modelled:
the McDonald's server (Lab 5), the shell `csapsh` (Lab 4), the dynamic memory
manager (Lab 3) and `dirtree` (Lab 2); and, of the smaller ones, those with
concurrency of their own: the parallel CRC (Homework 11) and the ring of
messages in shared memory (IPC examples).

## Inventory

| Component | State | Operations | What is hard | What makes it correct |
|---|---|---|---|---|
| **McDonald's server** `Lab/lab-5-network/mcdonalds.c` | `server_ctx`: the order list (`head`, `tail`, `count`), counters; order nodes on the heap with `is_ready`, a condition variable and a mutex of their own | `main`: accept, admit or decline, spawn; `serve_client`: welcome, read, `issue_order`, wait, send, free; `kitchen_task`: `get_order`, cook, count, mark, signal; SIGINT | threads; a node used by two threads under no common lock; calls that fail; shutdown | orders are cooked once, in order, and handed to whom they belong; no more than `CUSTOMER_MAX` seats; every order is cooked; the statistics count every burger |
| client `client.c` | none shared | connect, send a line, read a line | failing calls, a -1 kept in a `size_t` | hears the welcome and the goodbye for what it chose; leaves when the server does |
| line transfer `net.c` | the caller's buffer and its length | `get_line`, `put_line`, `get_data`, `put_data` | short reads and sends, end of the stream, resets, SIGPIPE | whole lines, in order, terminated |
| **csapsh, job control** `Lab/lab-4-shell/csapsh.c` | `jobs[MAXJOBS]`, `nextjid`; signal mask, pending signals; the children | `eval`, `builtin_cmd`, `do_bgfg`, `waitfg`, `addjob`, `deletejob`, the handlers of SIGCHLD, SIGINT, SIGTSTP | handlers between any two instructions, and nested; children that end before they are listed; pids used again | the list shows the children; one job in the foreground and the shell waits for it; no event of a child is lost |
| csapsh, `parseline` | none between calls; a mode while it scans | splits a line | quotes, pipes, redirection, lines cut off | what is run is what the grammar says the line says |
| **memmgr** `Lab/lab-3-memory/src/memmgr.c` | boundary tags in the heap, `heap_end`, `nf_curr` | `mm_malloc`, `mm_calloc`, `mm_realloc`, `mm_free`, three searches | long sequences of calls; tags in memory next to the client's data; growing and shrinking | blocks are inside the heap and apart; tags agree; free neighbours are merged |
| dataseg `dataseg.c` | `ds_heap_brk`, page protection | `ds_sbrk` | the limit | brk stays inside |
| blocklist, mm_test `blocklist.c`, `mm_test.c` | a sorted list, linked both ways; a copy of it while indices are typed | insert, find, delete; allocate and free several at once | pointers into a list that changes | the list is what is allocated; an index means what the user saw |
| nulldriver | none | empty functions | nothing | |
| **dirtree** `Lab/lab-2-io` | a summary per argument and a total, `errno` | a recursive walk | failing calls, stale `errno` | summaries match the tree, entries in order, streams closed |
| dirsize `Others/midterm` | a sum | the same walk, aborts on any error | little | the sum matches the tree |
| **parallel CRC** `Homework/homework-11` | a global under a semaphore, or return values | split, XOR, join | threads | the sequential CRC |
| **message ring**, parent and child `Others/IPC-Examples/shm/anonymous` | a ring of flags and texts in shared memory | produce, consume | no lock at all | first in, first out, each message once and whole |
| message ring of separate programs `shm/persistent`, pipes | the same ring; a pipe | find a slot, read or write it | any number of programs at once | as above |
| small programs (homework 2, 7, 8, midterm, `tools/`) | little | fork, wait, count signals | little | |

How they interact: client threads talk to the server over TCP with `net.c` on
both sides; the server's threads share `server_ctx` under one mutex and the
order nodes under none. The shell talks to its children by fork, process groups,
signals and `waitpid`, and its main program shares the job list with its own
handlers. `mm_test` (or the object-file driver) calls `memmgr`, which calls
`ds_sbrk`. The other programs stand alone.

`PROJECT.json` lists every component with its status and every hazard with the
line where it bites and the property that watches it.

## Modules

| Module | Contents |
|---|---|
| `OrderService` | what the server promises: a line of orders, cooked once, in order, handed over when cooked |
| `McDonalds` | the server in detail, its properties, and `KeepsPromise`, the refinement mapping to `OrderService` |
| `McDonaldsProofs` | its proofs |
| `MCMcDonalds` | values for TLC |
| `JobControl` | the shell: main program, handlers, children |
| `ParseLine`, `ParseLineProofs` | the scan of a command line, the grammar, and their agreement; its proofs |
| `Shell` | both together: job control, and the scan that makes its lines |
| `JobControlProofs`, `MCJobControl` | the proofs of `JobControl` and `Shell`; values for TLC |
| `Heap` | memory manager and data segment, as functions of the heap's memory |
| `BlockList` | the linked list of what a client holds, as functions of its cells |
| `MMTest`, `MMTestProofs`, `MCMMTest` | the menu of `mm_test`, which composes both; their proofs; values for TLC |
| `LineChannel` | what `get_line` and `put_line` promise: lines in order |
| `Session`, `SessionProofs`, `MCSession` | a client and its serving thread over a connection, and `KeepsLines`, the refinement mapping to `LineChannel` in both directions; its proofs; values for TLC |
| `ParallelCRC`, `ParallelCRCProofs` | both CRC programs; their proofs |
| `MessageRing`, `MessageRingProofs` | both ring programs; their proofs |
| `DirTree`, `MCDirTree`, `DirTreeProofs` | `processDir` and main's loop over directories; values for TLC; its invariant, paths in a tree and qsort |

### McDonalds

One variable per variable of the program, plus a control point per thread
(`mpc`, `serve[c]`, `kitchen[k]`), the state of each node address (`mem`), and
two histories: `served`, who has been sent a burger, and `queue`, the orders
appended and not taken, which the list has to represent.

*Steps.* A critical section of `server_ctx.lock` is one step; what it protects
is touched nowhere else while the threads run. `malloc` and the initialisation
of a node come before it and are a step of their own. Accesses to a node
outside that mutex (`is_ready`, the wait, the signal, `free`) are one step each:
the kitchen does not hold `order->mutex`, so nothing orders it against the
customer. The read of `keep_running` in a loop condition is merged with the
next step, since the flag only ever falls. Counters are read unlocked by the
statistics, which are printed when the program ends.

*Freed memory.* An access that reads or links through a freed node takes the
process to `crashed`. `Reuse` says whether `malloc` may return a freed address,
`SpuriousWakeups` whether `pthread_cond_wait` may return by itself, as POSIX
allows. The two are constants because the code's correctness depends on them.
The runs with passing properties all have fresh memory: `server` with no spurious
wakeup, for everything, and `server_faulty` with spurious wakeups, for what the
kitchen gets to. The two runs of violations show a customer sent away by a
spurious wakeup and one woken by the signal of another's order. With `Reuse` the
list itself breaks, for which see the findings; no property is claimed there but
the seats, which are proved for every value of both.

*Environment.* Clients connect, send a line, and leave; calls fail
whenever they may (welcome, read, `malloc` of the buffer, `pthread_create` of a
customer's thread); SIGINT comes at any time. The listen backlog is a set: the
order in which the kernel delivers connections is not the program's. Failure of
the kitchens' own creation in `start_server` is not modelled. An order line ends as an order
for any burger or as none, whatever was sent: the line may name several, of which
the last counts, and the position that `strtok` keeps is one for all threads, so
one thread may go on in another's line. What it would read in a line freed
meanwhile is not followed. `ReturnFromMain` ends the process by `exit` or, when the
first address of the list was bound (`FirstBinds`), by the abort at the second
`free` of one pointer (lines 365-366); `server` has the second, the other runs of
`McDonalds` the first.

### JobControl

`jobs` and `nextjid` are the list, slot by slot; `pc`, `line`, `cmd_idx`, `pid`
and `job` the main program; `handlers` the stack of handlers that run on top of
it; `chld` says that SIGCHLD is pending; `proc`, `grouped` and `news` what the
kernel knows of each pid: its state, whether it leads its process group, and
what `waitpid` has to report. A child may exit, stop or continue whenever it has
passed its `setpgid`, which covers failing `exec`, the builtins that run in a
forked child, and every tool program. A pid can be used again once reaped.
A handler can start between any two steps, unless its signal is blocked or
being handled. A system call, and a write or read of a slot, is one step; a
function over the list that no handler can see half done is one step because
the handlers it races with are blocked there, or because they touch other
slots (the comments in the module name the exceptions). `addjob` is not one of
these: SIGINT and SIGTSTP are not blocked around it, so it is two steps, the pid
(`Enlist`) and then the state and the job ID (`FillSlot`), and between them the
slot has the state that its last job left. The dereference of a
NULL job is status `crashed`, `unix_error` is `exited`. SIGQUIT, printing and
the descriptors of a pipe change no state of the list and are left out.
`kill(0)` after `fgpid` found a cleared slot cannot be told from the race one
step later and is merged with it.

### ParseLine

A line is a sequence of characters of which only the classes count that the
code tells apart; `Letters` is any set of others. `Turn` is one turn of the
loop, with a case per branch of the `switch`; `Step` adds the loop's condition
and what is tested behind it, and `Scan` is the recursive function from the
number of turns to the state after them. `parseline` yields the commands, the
file name and FG, BG or an error. Two results are the code's too though it has
no name for them: `loops`, when the line has no newline and the `'\0'` is read
again and again, and `overrun`, when the search for a quote passes the end of
the string. Out of memory is left out. The properties go both ways: a line
written by the grammar in the comment of csapsh.c:500-521, with or without
blanks, each word plain or in either quote, is understood as written
(`Understood`); and of a text that is accepted nothing is lost (`Kept`). The run
`shell` checks both for bounded lines as `LinesAreParsed` of the module `Shell`,
since the lines of `JobControl` are the results of this scan; both are proved
for all lines.

### Heap, BlockList and MMTest

Addresses count units of 32 bytes from `heap_start`. Next to each there are
two words that may be tags, `hdr` and `ftr`; they keep what was written last, so
a search that left the blocks would read old tags or the client's data, which
the client writes into every word that it is given. The functions of
`memmgr.c` are functions of the heap; `Free` is `mm_free` (merge, trim, reset
`nf_curr`), because `mm_realloc` calls it, and `Malloc` likewise. `mm_calloc` is
`mm_malloc` followed by a memset of the client's words, and `mm_realloc` of NULL
and to size 0 are the calls they make. Pointers that fail the alignment test,
logging, the contents moved by `memcpy` and page protection are left out.

`BlockList` has the cells of `blocklist.c` with both links, so a link that is
left behind shows. `MMTest` is the menu: a number typed is a step, since a line
may hold several, and `do_free` works on the copy of the list that it made
before the first. Named twice in one line, an index leads to a freed cell; this
is undefined and ends the model. `DriverRealloc` stands for the lab's driver,
which exists as object files and keeps its blocks in the same list. `Coalesce`
writes the tags where the code does, the inner ones too, which stay behind when
the block is merged. The user asks
only for what the data segment can still give (`RoomFor`).

### Session

The two programs' control points are `pc`; `io` is the call of `get_line` or
`put_line` each is in, with its buffer; `sock` the sockets with the segments under
way. A `send` takes any part of what is left, and segments arrive one by one. A
step of `get_line` is a byte, for it calls `recv` for each. The kernel is external
and behaves as Linux does: data before an RST can still be read, the first call
after it fails, later ones read nothing or raise SIGPIPE, and closing with data
unread sends an RST. Either process can be killed at any time. `McDonalds` has
what the serving threads share and takes the results of these calls as given;
`Session` has where they come from, and takes the kitchen as a step that may come
(`HandOver`, or after a spurious wakeup `TurnAway`). `get_line` reads an
uninitialised character when its first `recv` brings none; `EndResults` has both
outcomes. A burger's name is two bytes, so that half a name is not a name.

### ParallelCRC

`version` chooses between `parallel.semaphore.c`, where each thread adds its
part to a global, and `parallel.rval.c`, where `main` adds what the threads
return. A value of the CRC is the set of positions that are in it an odd number
of times, so that exclusive or is symmetric difference. A thread's own sum is
one step, for nobody else sees it; `crc ^=` is a read and a write. A
`pthread_create` that fails is not modelled. The homework's README:17 asks for
the same amount of work for each thread; that the last thread takes all of the
rest is as the code has it and no property speaks of it.

### MessageRing

The variables are the two processes' `index` (`in` and `out`), their control
points, and the slots. Message k is the number k; a text has `MSG_LENGTH`
parts, each of which is of some message. `strncpy` writes over the old text one part
at a time (`CopyPart`) and `printf` reads one part at a time (`ReadPart`), in any
order, so that a slot, and the `text` printed, may be a mix. `printf` may stop at
a `'\0'` before the end, which the model does not follow: it prints all parts, so
what is said of every part holds of those that appear. The stores of
each process are taken to be seen in program order, as x86 has it. `barrier` chooses the program:
without the memory barrier a spinning loop may read the flag once and never end
(`hung`), which is what an optimising compiler makes of the plain loop, or go on
as written. `printed` counts what was printed. At end of input
`getline` leaves the old line, which the producer sends again: any line may come
at any time in the model, so this is among its steps.

### DirTree

`stack` holds the calls of `processDir`, each with its directory, its sorted
entries and its loop counter; `errno` only whether it is set, since this is what
decides in the code whether `lstat` failed. Reading a directory is one step with
its outcomes: all of it, part of it (`readdir` fails, which `getNext` reports as
the end), nothing (out of memory), or the process is gone (`realloc` returned
NULL and the entries are freed through it). `lstat` may fail, and in verbose
mode the lookup of user and group may set `errno` or find nobody, whose name is
read all the same. A failing `asprintf` leaves a pointer undefined that is used
next and ends the model (`TextLost`); a failing `strdup` sets `errno`, as a lookup
may. A lookup that leaves `errno` set counts as a failing call even when it found
the name. A directory that its file system reports as `DT_UNKNOWN` is not
entered by the code; it is an entry of kind `other`. The message at line 113 is only
printed. Sizes are counted per entry, so a size added twice shows. The
tree does not change during the walk but by failing calls; symbolic links are
entries like others, as in the code.

## Runs

| Run | Bounds | Shows |
|---|---|---|
| `server` | 3 customers, 2 seats, 2 kitchens, 3 nodes, one burger, symmetry | seats, list, nodes and statistics are consistent, and the server implements `OrderService` |
| `server_faulty` | 2 customers, 2 seats, 1 kitchen, 2 nodes, one burger, fresh memory, `SpuriousWakeups` | an order in the list is cooked as long as a kitchen is open, and after SIGINT and once no more orders come every kitchen closes, unless the program has crashed |
| `server_lost_wakeup` | 1 customer, 1 kitchen | violated: ready and signal fall between test and wait |
| `server_wrong_wakeup` | 2 customers, reused nodes | violated: the signal of a freed order wakes its next owner |
| `shell` | 2 pids, 2 slots, job IDs to 3, nine kinds of lines | list and children agree, a foreground job is awaited or just being listed, no lost event, jobs stay listed; all lines of up to two commands of up to two words, in every spelling, and all texts of up to five characters over two letters, are parsed right |
| `shell_interrupt` | few lines | violated: Ctrl-C before `setpgid`, or after the reaping, ends the shell |
| `shell_background` | the lines `a` and `a &` | violated: the command ends and is reaped between `addjob` and the announcement of its job |
| `heap` | 3 cells, blocks of 1 to 3 units, initial heap of 4, segment of 8, three policies, symmetry | blocks apart, tags coherent and telling what is in the block list, neighbours merged, `nf_curr` on a block, the list linked, sorted and in step with the copy in `do_free` |
| `session` | one session, two burgers, lines of 3 and 4 bytes, a buffer of 2 | lines are kept, the order is the client's choice, SIGPIPE only in the cases named, both hang up |
| `parallel_crc` | 3 threads, files of up to 7 bytes, both programs | each byte once, no lost update, `main` finishes |
| `message_ring` | 3 slots, 6 messages of 3 parts, both programs | flags and messages agree; what is printed is the message next in order or a mix with that of a round before, wrong only while copied; with the barrier all are printed |
| `dirtree` | all trees of 3 entries below a directory, 4 argument lists, `MAX_DIR` 2, 2 failing calls | summaries, sizes, total, order, closed streams |

*Why these bounds.* Two kitchens are needed for one to take the node another
leaves behind, which `server` has; `server_faulty`, with its spurious wakeups
and fairness, makes do with one: an early wakeup frees a node that the list or
the kitchen still has, which needs one kitchen and is seen by the next. Only the
statistics tell the kinds of burgers apart; `server` has one kind, and that none
is counted for another is what `StatisticsCount` proves for any number of them. Three customers and two seats
are needed for one to be declined while one orders and one leaves, and three
nodes for a list with an inner node. Two pids allow
a pipe, a foreground job with a background job, and reuse of a pid; the list of
two slots is never overfull in `shell`, but the proof does not depend on its
size. Three cells let a block be freed between two neighbours,
after, before and between free ones; the heap of 4 units must grow for two
blocks of 3 and shrinks to nothing. A line of four bytes has every
split, and the buffer of two doubles twice and is just filled by a line. Five
characters hold two words with an operator, a quoted operator, and every pair of
operators. Seven bytes and three threads give a rest, no
rest, fewer bytes than threads and an empty file. Six messages go round three
slots twice, and with three parts a text can be new before and after an old one. Three entries below a directory are enough for a subdirectory with
entries and one after it, for a directory named besides one above it, for a
file as an argument, an argument named twice, and for an array that grows. The cut-offs are `MaxJid`,
`Limit`, `MaxSize`, `MaxTyped` and `MaxFaults`; the server counts at most one
order per customer, and a session has one order.

*Fairness.* `FairSpec` of `McDonalds` assumes weak fairness of `main`, of each
kitchen and of each serving thread but for the step that reads the client's
line: the operating system runs every thread that can run, and nothing makes a
client send. No fairness is assumed of clients, of failing calls or of SIGINT.
The mutexes cause no waiting in the model, as a critical section is a step; the
program needs for this that nobody stays in one, which holds since none
contains a blocking call. `ParallelCRC` assumes weak fairness of `main` and of
each thread; the semaphore needs no more, as each thread takes it once.
`MessageRing` assumes it of both processes but not of the user who types;
`Session` assumes it of both programs and of
the delivery of what was sent, which the loopback interface never loses; not of
the kitchen, nor of kills. Properties without `~>` or `<>` do not depend
on fairness.

Deadlock is checked in every run but `heap`, whose user may quit, and `session`,
which ends: `Stopped`, `Ended` and `Exited` stutter where
the process has ended, `Spinning` where the consumer of the ring spins, and
until then there is always a step, if only of the user.

## Findings

Four places where the code does not do what its documentation says, each with
the run whose counterexample shows it (`PROJECT.json` quotes the lines): the lost
and the misdirected wakeup of the server; Ctrl-C that ends the shell, and the
background job that crashes it.

Met while modelling, present in the models, and without a run of their own:

- `memmgr.c:266`: the result of `ds_sbrk` is ignored. Out of memory, `heap_end` has
  not moved and the new block is put over the blocks at the end of the heap;
  README.md:113 of the lab has blocks not overlap. `RoomFor` keeps the model
  from there.
- `mm_test.c:97`: an index given twice in one line frees the block of a list
  cell that was freed. At the end of its input the menu of `main` repeats for
  ever, for `c` keeps its value.
- `net.c:170`: `c` is read when nothing was received. net.h:100 has 0 mean
  "nothing read", but `get_line` returns 0 also after part of a line, and the
  server (`mcdonalds.c:249`) parses that part.
- `client.c:92`, `:110`: `read` and `sent` are unsigned, so -1 passes for success;
  neither program handles SIGPIPE. `SigpipeIsNarrow` says what that costs.
- `csapsh.c:185`, `:609`: a line of `MAXLINE` characters reaches `parseline`
  without its newline; it then reads the `'\0'` for ever or looks for a quote
  behind it. A line of blanks is "Command expected", an empty one is accepted.
- `memmgr.c:498`: best fit remembers the size wanted instead of the size found
  and takes the last block that fits, not the smallest.
- `mcdonalds.c:203`: when `malloc` returns an address the kitchen still cooks for,
  the new owner is handed the burger cooked for the old one, and the statistics
  count the old one's kind. `ServedWereCounted` is therefore claimed for fresh
  memory only.
- `mcdonalds.c:296`, `:115`, `:151`: a customer who wakes early frees a node that is still
  in the list. When `malloc` returns it to the next customer, `append` clears its
  `next` and puts it in the list a second time. `get_order` then takes `head = tail`
  for a list of one: orders behind are never cooked (three customers, one kitchen),
  and `count` stays above 0 with nothing in the list, so that after SIGINT the
  kitchens look for orders for ever (two customers). Without a spurious wakeup
  the late signal of a freed order does the same, for three customers.
  `QueuedIsCooked` and `KitchensClose` are therefore claimed for fresh memory only.
- `mcdonalds.c:365`: `ai` and `ai_it` are one pointer when the first address could
  be bound; the second `free` aborts before the statistics are printed.
- `mcdonalds.c:257`: `strtok` in several threads at once; an order can be read from
  another customer's line.
- `mcdonalds.c:340`: customers accepted after SIGINT may place orders when every
  kitchen has closed, and wait for ever.
- `csapsh.c:406`: when the job of `fg` is reaped just before this line, the
  state FG is written to a slot that `deletejob` has cleared, and is there when
  `addjob` stores the next pid (line 767). Ctrl-C before line 768 is sent to that
  job though it was started in the background;
  README.md:101-102 of the lab has it passed to the foreground job.
- `csapsh.c:312`: the announcement looks up a job that is not there also for a
  background pipe, of which only the last command is listed, and when the list was
  full; and line 454 writes to the job of a pid that is not listed when a command
  of a pipe stops.
- `shm_anonymous.c:76`: the flag is set before the text is copied, and the consumer
  can print a mix of the new text and the old one in the slot. `PrintedInOrder` says
  that nothing else can get in, `WrongOnlyWhileCopied` when it can.
- `dirtree.c:248`: an `errno` left over from another call makes a good entry
  "No such file or directory"; `SizesAreThere` bounds how many. Line 137 returns
  in silence on other errors of `opendir`, such as too many open files, which a
  deep tree causes by itself; README.md:300 of the lab has errors reported in
  place of the entries. Line 171 frees the entries through the NULL that
  `realloc` returned, and line 258 reads the name of a user nobody has.
- The server's README:351 asks for a limit of 20 customers where the code has
  10; no model depends on it.

## Theorems

Assumptions are the named ASSUMEs of the modules and nothing else; sets and
bounds are arbitrary.

*Server.* `SeatLimit`: the seats taken are the serving threads that have not
given theirs back, at most `CustomerMax`, whatever memory and wakeups do. The
invariant adds where `main` stands between its test and its thread.
`OrdersInvariant` is the inductive invariant of the rest, under `Faultless`
(fresh memory, no spurious wakeups). It says of each node which customer and
which kitchen point to it at which control point, and that `head`, `tail`,
`next` and `count` spell out `queue`; neither is inductive alone, because an
append writes through `tail`, which must be a live node, and a node is freed
by a customer, who must know that no kitchen holds it unserved. From it follow
`TypeCorrect`, `ListCorrect`, `OneCookPerOrder`, `NoUseAfterFree`,
`ServedBeforeRelease`, and, step by step, `PromiseKept`: the server implements
`OrderService`. For `StatisticsCount` the invariant `TallyInv` compares each
total with the customers whose burger was counted, not with those served: the
count rises a step before `is_ready` does, and who is served is among the counted.
That it rises in the right place needs `OrdersInvariant` (the node still belongs
to who ordered), which is what reused memory takes away.

*Shell.* `ShellCorrect`: the inductive invariant `ShellInv` has types; the
stack (each handler at most once, SIGCHLD's not under itself, the process being
deleted is gone); the list against the children (a listed pid is a child not
reaped, or the one being deleted; at most once; a pid just forked is in no
slot); the slot `do_bgfg` works on and the one `addjob` fills; what `eval` waits
for (a job in state FG is the one awaited, and the last command of its line, or it
is the one being listed, in a slot that was left in state FG); and pending events. The key step is
`RecordExit` with a reaped pid still listed: no other step can add that pid,
since SIGCHLD stays blocked from `fork` to the end of `addjob` and during its handler.
`ShellTypes`, `JobsAreChildren`, `OneSlotEach`, `OneForegroundJob` and
`ChildrenNoticed` follow, and for every step `AliveStays`: what `addjob` overwrites is
empty, and what `deletejob` clears has been reaped.

*Parallel CRC.* `CRCCorrect`: the inductive invariant `CRCInv` says what each
thread was given and has done, that one thread at most is inside the semaphore
and what it read is still there, and whose parts are in `crc`. With the lemmas
`PartsApart` and `PartsCover` (integer division splits the file into parts that
do not overlap and leave nothing out) follow `CRCTypes`, `UpdatesAreKept` and `CRCIsRight`,
for any number of threads and size of the file.

*Message ring.* `RingCorrect`: the inductive invariant `RingInv` ties the
producer's slot to the consumer's by the number of messages held, the flags to
that number, each part of a slot to the last message copied there and, at the
producer's slot, to the one being copied; and the parts that the consumer has read to
its own message and the one before. Neither the flags nor the texts suffice alone:
that the parts at the consumer's slot are of its message needs all three. `RingTypes`, `FlagsAreRight`, `PrintsInOrder` and
`RightUnlessCopied` follow, for any number of slots and any length of the texts.

*Session.* `SessionInvariant`: the inductive invariant `SessionInv`. Each
direction is one text, the `Script` of its sender, and what was got as lines,
what is in the line buffer, in the socket, in the segments under way and in
`rest` are consecutive stretches of it (`Stream`; the segments by the positions
where they begin, `Sliced`). That the next byte continues the line being read
needs to know which stretch comes next, also for an end that gave up a call and
calls again (`Follows`), so the parts that follow the programs (`PlacesInv`,
`SaidInv`, `HeardInv`, `PutInv`, `GetInv`) are part of the induction. `NoCtrl`
and `Clean` are about the end of a connection: nothing is ended or reset while
both live, and an end is not reset while all it has sent was taken as lines;
the second is what makes `SigpipeIsNarrow` true. `Answered` says that a client
that did not get its lines had a server that left. From it follow `SessionTypes`
(with the place for the `'\0'`), `OrdersKept`, `SigpipeNarrow` and, step by step,
`LinesKept`: a session implements a `LineChannel` in each direction, for any
burgers and any `BUF_SIZE`. Assumed is that the two ends differ and that no
burger is named by a newline.

*Memory manager and block list.* The invariant is `Inv` of `MMTestProofs`. What
the tags in memory mean is `Tiles(h, B)`: `B` is a set of blocks that begins at
`heap_start`, each reaching to the next or to `heap_end`, with a header and a
footer that agree, between the two sentinels; `WalkAll` shows that a walk by
header sizes then visits `B`, so that there is one such set. Tags inside a block
mean nothing to it, so those a merge leaves behind (`CoalesceIs`) do no harm. Every function of
`memmgr.c` writes the tags of one stretch anew, as those of one or two blocks
(`Retile`, `OneBlock`, `TwoBlocks`), grows the heap or trims it. `Sound` adds that no two
free blocks are neighbours and that `nf_curr` is at a block in use or at
`heap_start`; neither can be left out, since a free looks at one neighbour on
each side only, and a search that starts inside a block finds none.
From `Sound` follow `mm_mallocGains`, `FreeLoses` and `mm_reallocMoves`, which
say what each call does to the set of blocks in use, under each policy.
`Chain(l)` is the list in the same manner: each live cell is linked both ways
with the next by address (`InsertIs`, `DeleteIs`, `ArrayIs`). `Held` ties the two: the listed
cells are the blocks in use, with the sizes asked for. `TypeAlways`,
`DisjointAlways`, `CoherentAlways`, `NextFitAlways` and `LinkedAlways` follow, for
any data segment, `CHUNKSIZE`, requests, client data and number of cells. Assumed
are that `CHUNKSIZE` is not 0, that cells are finitely many and differ from the
sentinels and from NULL, and that `(void *)-1` is behind the data segment.

The walks of the heap and of the list are recursive functions. What they return
is shown by least counterexample (`LeastNumber`, which instantiates no operator), and
that the functions exist at all by building them up (`WalkIs`, `AheadIs`).

*dirtree.* The inductive invariant is `DirInv`. An entry is *pending* while a call
of `processDir` has yet to list it, itself or in a call it makes (`Pends`), and
`Covered` says that the entries to list are those listed and those pending, and
that what is listed comes before all that is pending. `SummaryCountsTheTree` and
`ListedInOrder` speak of the end of a walk and of the list alone and are not
inductive; they follow from what each step does to the pending entries: `StepVisit`
takes one, the first in the order; `StepRead` and `StepDrop` hide some, none of them
listed. That no entry is pending in two calls (`OuterApart`) needs that the calls
are nested along one path (`Nested`). `Path` is a recursive function, so that it
exists is shown first (`PathEquation`), and what is true of all paths by the first
entry for which it is not (`PathTransitive`, `PathChain`, `PathUnique`); that
entries can be sorted at all is `SortExists`. From it follow `TreeTypes`,
`StreamsAreClosed`, `OrderIsKept`, `SizesAreRight` and `SummariesAreRight`, for any
tree, kinds of entries, arguments and `MAX_DIR`, and any number of failing calls.

*parseline.* `EveryLineIsUnderstood`: a line of the grammar, with any number of
commands of any number of words of any length, is understood as what it says,
however it is spaced and its words are quoted. `NothingIsEverLost`: parseline
answers to every text that ends in a newline, what it accepts is the text but
for blanks and quotes, and it accepts no text without its newline. Assumed is
that a letter is none of the characters that the code treats apart, and that
`a` and `b`, of which the run's lines are made, are letters. `LinesParsed` is
the property of the run, whose lines are among these. The proofs go turn by turn.
For the second, `Reading` says that what was read up to a position, written out, is the
text up to there but for blanks and quotes; a separator
just passed is in the mode only, so it depends on the mode as well. Each turn keeps it and
reads on (`TurnAdvances`), so the turns that `Scan` has are enough (`LineScan`). For the first, a rendered
line is cut into pieces that follow each other (`Spans`), and a state that the
scan comes to in front of a piece (`Reached`) leads to one behind it: a word, the
words of a command, a separator, the commands, the file name, the `&`, the end.

Induction is by least counterexample (`LeastNumber`, `UpTo`): a set stands where the
library's theorems take a predicate as a parameter, which the provers here cannot
instantiate. Each recursive function is first shown to exist and to satisfy its
equation (`ScanIs`, `JoinedToIs`, `SkeletonToIs`).

*Model-checked only:* the liveness properties (the proof system has no rules for
fairness and ENABLED) and the violations, which need no proof. Every invariant
and action property that a passing run checks is stated by a theorem.

## Not modelled

See the component list in `PROJECT.json`. In short: pure input and output
(printing, descriptors, page protection, name resolution), programs that do one
system call after another (pipes, `piper`, the counters of Homework 7, `control`,
`dirsize`), functions nothing calls (`free_blocklist` and the iterators of
`blocklist.c`, `ds_release`), the object files of the drivers, and the ring of
separate programs (`shm/persistent`), which is planned.

## Plan

Written, in this order: `OrderService` and `McDonalds`, their proofs, then
`JobControl` and its proofs, `Heap`, `ParallelCRC` and `MessageRing` with their
proofs, `DirTree`; then `Session` and `LineChannel`, `BlockList` and `MMTest`,
`ParseLine`; then the proofs of `Session`, of `MMTest`, of `DirTree` and of
`ParseLine`, with `Shell`. Next:

1. `JobControl`: `waitfg` returns when its job has ended or stopped (liveness),
   the range of job IDs, whom Ctrl-C reaches when a slot was left in state FG.
   `McDonalds`: a run with `Reuse` for the node that is in the list twice.
2. The ring of separate programs: the search for a slot, programs that start and
   end at any time, what is left of first in, first out.
