# Verification of the laboratory programs of os_5sem

TLA+ models of the concurrent programs in this repository (a course on operating
systems: C programs for Linux and Windows), TLC runs on small instances of them, and
theorems checked by TLAPS for every size of them.

The repository has no tests and no design documents. What the programs are meant to do
is said by comments in the sources; the models are translated from the sources alone.

## 1. Inventory

| Component | State | Operations | Hard behaviours | What makes it correct |
|---|---|---|---|---|
| **Producers and consumers**, `os_lab_4/pc/src/pc.c` | three System V semaphores (`BINARY`, `BEMPTY`, `BFULL`), one shared page with two pointers, the current letter and the bytes, a flag per process | `main` forks the producers and the consumers, waits for them, removes the IPC objects; `producer` and `consumer` loop: sleep, `semop`, work, `semop`; a SIGINT handler | processes interrupted, stopped or killed between their two `semop`s; `SEM_UNDO`; `EINTR`; the end of the page | mutual exclusion and a lock that is given back by the dead; consumers read only what was produced; clean-up after the last child |
| **Readers and writers**, `os_lab_4/wr/src/wr.c` | five semaphores, one letter, a flag per process | `start_read`, `stop_read`, `start_write`, `stop_write`, each one `semop`; the same `main` | a process killed inside (no `SEM_UNDO`); a load and a store of the letter by several writers; Ctrl-C at any time | it is a read-write lock; no update lost; Ctrl-C ends it |
| **Readers and writers for Windows**, `lab_win/winwr.c` | four interlocked counters, an auto-reset event, a manual-reset event, a mutex, the letter | the same four procedures, `CtrlCHandler`, `main` | tests of counters and waits for events that are not one step; lost wake-ups | somebody can always go on; Ctrl-C ends it |
| **Bakery over RPC**, `os_lab_rpc/bakery` | the server's arrays `numbers` and `pids` and a mutex per slot | `get_number` and `serve`, each in a thread; clients that call both | loads and stores of several threads; clients killed between the calls; calls given up after a timeout while their thread goes on | clients are served in the order of their numbers; everybody is served |
| **Daemon**, `os_lab_3/src/daemon.c`, `daemon_test.c` | a lock file, a configuration file, the record lock, pending signals | `already_running`, `reread`, the thread that takes SIGHUP and SIGTERM | copies started at once; a copy killed anywhere; signals before the mask; files removed under other copies | one copy runs; its files are its own; SIGTERM ends it |
| **Earlier versions of both**, `os_lab_4/tmp.c`, `tmp_wr.c`, `wr_old.c`, `tmp_pc.c`, `les_pc.c` | as above: four or five semaphores and a letter or an `int`; `les_pc.c` a ring of 26 letters with two pointers in the segment | the same plan, with other `semop` arrays, with `SEM_UNDO` or without, a `main` that waits for `pids[0]`, `pids[1]`, ... or for any child | the same; SIGINT that nobody handles (`tmp_pc.c`) | the same read-write lock; nothing kept by the dead (`tmp_wr.c`); the alphabet in order |
| **Producers and consumers over RPC**, `os_lab_rpc/pc`, `pc2`, `pc (копия)`, `rpc_pc`, `pc_last` | three semaphores, a buffer, two pointers and a letter in a server | two procedures, called by client processes; dispatchers that start a thread per datagram | threads that use the dispatcher's request after it has gone on; `semop` in a server thread; datagrams late, again, or lost | letters taken in the order they were put; an answer that belongs to the call |
| **Dictionary over RPC**, `os_lab_rpc/threads_rpc` | an array of words and its length | `initw`, `insertw`, `deletew`, `lookupw` | a thread per call and no lock; repeated datagrams | a bag of words |
| **Bakeries over RPC without threads**, `os_lab_rpc/obakery`, `obakery/old` | the array of numbers, the number served last, the next slot | `get_number` and `serve`; a client that is sent away when it is late | repeated datagrams take slots; an index that only grows; indices never set | numbers distinct; served in their order |
| **Calculator over RPC**, `os_lab_rpc/calc` | none | one procedure | datagrams late, again, or lost | an answer to the call |
| Processes, `os_lab_2` | pipes, exit statuses | `fork`, `wait`, `exec`, `pipe`, `signal` samples | orphans; a signal that decides whether children write | every child is waited for; a pipe is read to its end |
| Drafts that do not build, samples of the manual, generated stubs, lab 1 | | | | |

How they interact. The programs of different laboratories do not call each other. Inside
one program: the processes of lab 4 share a semaphore set and a segment, and are
signalled as a process group; the threads of `winwr.c` share counters and events; a
client of the RPC programs reaches a server thread through the dispatcher (`*_svc.c`),
and the threads of one server share its globals and, by pointer, the dispatcher's request and
its one transport; copies of the daemon meet only in the
two files.

`PROJECT.json` lists every component with its sources, the lines each definition
stands for, and the hazards: the places of the code that tests would hardly reach, with
the properties that cover them.

## 2. The modules

| Module | Models |
|---|---|
| `SysVSem` | `semop(2)` on arrays of two and five operations and `SEM_UNDO`: operators, not part of the repository |
| `ProcessGroup` | what `pc.c` and `wr.c` have in common: forks, the loop flag, `waitpid`, the clean-up, SIGINT to the group, SIGKILL, SIGSTOP, SIGCONT, a failing fork |
| `ProdCons` | `pc.c`, on top of these two |
| `ReadersWriters` | `wr.c`, on top of these two |
| `ReadWriteLock` | what a readers-writers program promises: the abstract specification `ReadersWriters` implements |
| `Drafts` | the five earlier programs of lab 4, on `SysVSem` and `ProcessGroup`: one record of parts for each program, and `program` says which runs |
| `WinEvent` | Windows events: operators |
| `WinRW` | `winwr.c` |
| `Bakery` | the bakery's server and clients |
| `Daemon` | `daemon.c` and `daemon_test.c`, told apart by the variable `program` |
| `RpcPrograms` | the RPC servers over UDP and their clients, as tables: what is called, registered and done, step by step |
| `SunRpc` | Sun RPC over UDP and the generated dispatchers, which carry these tables out |
| `PcRpc`, `DictRpc`, `BakeryRpc` | the procedures of the producers and consumers, the dictionary, the bakeries |
| `Dictionary` | what a dictionary promises: the abstract specification |
| `RpcServers` | the composition of `SunRpc` with the three, and its properties |
| `ProcessGroupProofs` | lemmas about `ProcessGroup` that the three programs of lab 4 share |
| `ProdConsProofs`, `ReadersWritersProofs`, `DraftsProofs`, `WinRWProofs`, `BakeryProofs`, `DaemonProofs`, `RpcProofs` | the theorems |
| `MCProdCons`, `MCReadersWriters`, `MCWinRW`, `MCBakery`, `MCDaemon`, `MCDrafts`, `MCRpc` | instances for TLC |

### Lab 4: ProcessGroup, ProdCons, ReadersWriters

`pc[p]` is where a child is: `"loop"` at the test of `f_sigint`, `"sleep"`, `"P"` at the
first `semop` (there it waits), then the accesses to shared memory one by one, then the
second `semop`. A child waits in `semop` exactly as long as the array cannot be
carried out as a whole (`Ready2`, `Ready5`); an array is one step. `mpc` is the parent.

- *SIGINT* makes every process of the group pending. A child handles it at any place
  (`ChildHandler`) except inside a `semop` that waits: there the call returns `EINTR`
  and the child ends (`Interrupted`). A child that handles it before `semop` may still
  go into it and wait.
- *SEM_UNDO* is an adjustment per child (`adj`), which the end of the child adds to the
  semaphores. It undoes what a killed child holds, and it also undoes the completed
  operations of a child that ends normally.
- *waitpid* has `WUNTRACED | WCONTINUED`, and the parent's loop counts every return. A
  stopped and continued child therefore counts as two ended ones and the parent may
  remove the semaphores under children that run. The comments (`pc.c` 135, `wr.c` 171)
  say that `waitpid` waits until a child terminates: `WaitsForEnds` is what the loop is
  for, and is false. `CleanupLast` says how far the count can be wrong: at most two
  children for each SIGSTOP outlive the removal, and none without a SIGSTOP.
- *fork* handles a pending signal of the parent first, so that no child starts with a
  flag that misses a Ctrl-C (without that, `Shutdown` is false).
- The page: `*prod_ptr` is only ever incremented; past the mapped page the store is a
  SIGSEGV, which `SEM_UNDO` cleans up after.
- In `wr.c` the letter is loaded and stored in separate steps. The variable `died`
  remembers where a child was killed; nothing gives back what it held.

Some steps are longer than an access where nobody else can be there: a writer of `wr.c`
reads the letter for the test and again for the increment (lines 81-84), which is one
`Load`; the two stores of `tmp_wr.c` (lines 119-120) are one step.

Left out: the system calls before the first fork, `printf`, the random durations, the
SIGHUP an orphaned stopped process group gets, the number of children (constants).

### Drafts

The five programs are `wr.c` and `pc.c` with other parts, and a record for each program
holds these: its arrays (`tmp_ops`, ...; `undo` says whether they have `SEM_UNDO`), whether
SIGINT is handled (`tmp_flag`, ...; in `tmp_pc.c` it is not, and ends `main` as well), the
loops of the two kinds of children as lists of places, the next letter, and how `main`
waits: for `pids[0]`, `pids[1]`, ... or for any child, and which returns of `waitpid` it
counts. An array of any length is one step (`Semop`); its entries see the values the ones
before it leave (`Values`), which the arrays rely on, since some test a counter that they
have changed.

`les_pc.c` keeps two pointers and the current letter in front of the buffer, and `cell`
has the letter at -1 and the highest byte of `*ptr_cons` at -2. At `'z'`, in the 26th slot,
the pointers go back by 26 and point to the current letter itself. The producer stores
`'a'` over it, which changes nothing, and the consumer that reads it gets the letter that
will be stored next. If that is `'z'` it goes back once more, and out of the segment. After
the second `'z'` the producer's pointer is two bytes before the buffer: it stores `'a'` into
`*ptr_cons`, which is no address then, and the next consumer dies of SIGSEGV (`Segfaults`) between its `semop`s.
Nothing gives `BIN_SEM` back. What a consumer reads below `*ptr_cons`' last byte is any
byte, or a SIGSEGV. The comments at lines 55 and 102 say that the loops last until a
signal comes and go through the alphabet "по кругу" (round and round): `LastsUntilSignal`
is violated, by a consumer that reads a wrong letter first. `AlphabetButOneLetter` is what
remains: a first round without fault, a second but for one letter, no third.
`tmp_wr.c` includes `<cstring>` and is built as C++.

### SunRpc, RpcPrograms, PcRpc, DictRpc, BakeryRpc, RpcServers

A client calls, and its library sends a datagram, again every few seconds, and gives up
after a while. A datagram in `net` may therefore come late, again, or never, and the server
does not know: there is no cache of answers. `svc_run` takes one datagram at a time
(`Receive`) and calls the dispatcher, which carries out its `switch` or hands two pointers
to a new thread, one to its own stack (`rqstp`) and one to the transport, and returns.
From then on `cur` is the datagram received last, whatever thread looks at it:

- `Switch` reads the procedure's number through `rqstp`, after the next datagram may have
  come; `pc2`, its copy and `rpc_pc` read it again to choose the semaphores (`If`);
- `Getargs` decodes the buffer of the transport. Once decoded or overwritten it gives any
  argument, or fails (`fresh`);
- `Answers` sends to the return address and with the identifier of the datagram received
  last; a client takes an answer only if the identifier is that of its current call.

`pc` decodes in the dispatcher, and `obakery`, `calc` and `dict_svc copy.c` have no
threads: there `Receive` waits for the end of the call. A record of `thr` is one run
of a dispatcher's `switch`; `todo` is what remains of it, from the tables of
`RpcPrograms`. `copy` and `rpc_pc` have the same table as `pc2`
(`ASSUME SameServers`, which TLC evaluates), and are not run separately.

`DictRpc` has the load and the store of `nwords++` apart from each other and from the
`strcpy`s; a search is one step, since with calls that overlap nothing is claimed of it.
`BakeryRpc`: `serve`'s loop waits up to a second for each slot while nothing can change in
a server without threads; it changes nothing. The static `result.num` of `serve` is set to
-1 for a client that is late and never back, so that every later client is told it is late
(`num`). Semaphores are undone when the last thread of the server ends, not with each
(glibc's threads share their undo list), which the model therefore leaves out.

Left out: a null pointer in an answer or argument, and what then happens; what is stored
past the end of an array; the SIGINT handler of `pc_last`; the wording and arithmetic.
`Dict!Spec` is checked with the words as they are while no call is between its steps
(`Bag`), and as they were before the call otherwise.

### WinRW

Every interlocked operation, every read of a counter in an `if`, every call of
`WaitForSingleObject`, `SetEvent`, `ResetEvent`, `ReleaseMutex` is a step. A thread that
waits for an event is in that event's `waiting` set and its place is already the one
after the wait. `active_readers` and `active_writer` are tested without the mutex and
some steps before the thread counts itself in, and `can_write` stays signalled: TLC finds
two writers inside, or a writer and a reader. No line of `winwr.c` promises otherwise,
although the draft `lab_win/tmp.c` (line 59) does. The project states what holds in
spite of it: no wake-up is lost, and Ctrl-C ends the program. Left out: the letter
(which can then pass `'z'`), and the arrays of lines 91-92, whose sizes have the two
constants swapped, so that the sixth writer's handle is stored outside them.

### Bakery

`get` and `serve` are the places of a client's two threads in the server, `client` that
of its process. The makefile compiles without optimisation, so that every access to
`numbers` and `pids` in the source is a step. `mut[ind]` excludes only the two threads of
one slot from each other. A client that is killed, or gives up its call, leaves its
thread running; `Faulty` are those that may. `ahead[c]` (a history variable) is who had a number in its slot when `c`
began to take the maximum.

Left out: the arithmetic in `serve`, and the dispatcher `bakery_svc.c`, whose threads read
a request that the dispatcher may already have replaced (`usleep(300)` makes that rare).
Its clients use TCP, with a transport each, and it names `xdr_BAKERY_CALCULATOR` (line
101), which no file defines: each call is taken to reach its own procedure.

### Daemon

A file name leads to an inode; the contents of an inode are the copy that wrote it. A
copy goes through `open`, `fcntl`, `ftruncate` and `write` of the lock file, the same of
the configuration, then restores the default of SIGHUP, blocks all signals, starts the
thread and takes signals. A copy that ends, however, loses its descriptors and its lock.
`daemon_test.c` differs in that it closes the lock file (which releases the lock) and
removes it on SIGTERM. `daemonize` works on the process alone and is the start.

Where the program looks at the result of a call on a file, a failure ends it (`FileFails`);
where it does not (both `ftruncate`s and the `write` of the pid, lines 118, 120 and 127), or
only logs it (the removals), it goes on with the file as it was (`FailsUnseen`). `told` (a
history variable) is whose pid was in fact written: `PidOwned` says that LOCKFILE holds it,
and that otherwise it is empty or holds the pid of a copy that is gone.

## 3. The runs

| Run | Question | Instance | Size |
|---|---|---|---|
| `ProdConsSafe` | Is the lock exclusive and given back, the buffer whole and in order, the clean-up miscounted by stops only, under all four faults? | 2 producers, 1 consumer, `N_BUF` 2, a page of 3, one Ctrl-C, one stop | 1.7 million states |
| `ProdConsLive` | Without signals, is what is stored taken, and does the page run out? After Ctrl-C, what else than an end? | 2 producers, 1 consumer, `N_BUF` 1, a page of 3, one Ctrl-C | 55 000 |
| `ReadersWriters` | Does `wr.c` implement the lock, tell of the dead inside, end after Ctrl-C and let somebody in, under all four faults? | 2 writers, 1 reader, one Ctrl-C, one stop | 350 000 |
| `Drafts` | Do the earlier programs implement the same lock, miscount stops only, keep nothing for the dead, and read what of the alphabet? | the 5 programs, 2 writers, 1 reader, all four faults | 1.8 million |
| `DraftsSignal` | Do the loops of `les_pc.c` last until a signal comes, as the comments say? **No.** | 2 producers, 1 consumer, no faults | violated |
| `Rpc` | What do a call, a ring, the dictionary and the bakeries keep, with datagrams late, again or lost, and threads that share a request? | 8 tables of servers, 2 clients, 2 calls each | 526 000 |
| `BakeryRace` | When is a client overtaken? | 3 clients, kills | 1.4 million |
| `BakeryLive` | Do number and pid of a slot stay together? Is everybody served, and behind whom is one not? | 3 clients on 2 slots, one of them killed or giving up calls | 217 000 |
| `BakeryOrder` | Does a client wait for all smaller numbers, as the comment says? **No.** | 3 clients | violated |
| `WinRW` | Is a wake-up lost? Does Ctrl-C end the program? | 2 readers, 2 writers, Ctrl-C | 250 000 |
| `Daemon` | Does one copy run, are its files its own, does SIGTERM end it? | 2 copies of either program, all faults, 3 signals | 58 000 |
| `DaemonTest` | Does only one copy of `daemon_test.c` run, as the comment says? **No.** | 2 copies | violated |

What they show, by property:

- `MutualExclusion`, `LockRecovered`: at most one process of `pc.c` is between its
  `semop`s, and `BINARY` is free exactly when none is, though processes are killed there.
- `BufferBound`, `LettersInOrder`: up to the first end of a process at most `N_BUF` stored
  bytes wait, and they are the alphabet again and again. After an end `SEM_UNDO` has
  changed `BFULL` and `BEMPTY`, and these do not hold. `NoHoles` holds for ever.
- `ItemsConsumed`, `PageRunsOut`: progress without signals, up to the SIGSEGV at the end
  of the page.
- `StopsUnlessStarved`: after Ctrl-C `pc.c` ends, or some child that has had the signal
  waits in `semop`, which only children that have ended could let through, and the parent
  waits for it for ever. No child misses the signal.
- `Exclusion`, `SemaphoresTell`: the semaphores of `wr.c` tell who is inside, the dead
  included. (The two queues are raised and lowered inside one `semop`, so that nobody
  ever sees them, and readers do not yield to a waiting writer.)
- `ImplementsLock`: every behaviour of `wr.c` is one of `ReadWriteLock`.
- `Shutdown`, `SomebodyEnters`: Ctrl-C ends `wr.c` unless a child was killed between its
  `semop`s, stays stopped, or a fork failed; until the end somebody always gets in.
- `CleanupLast`: no more than two children for each SIGSTOP outlive the removal of the
  semaphores. `WaitsForEnds`, the comments at `pc.c` 135, `wr.c` 171 and `les_pc.c` 234,
  is false of these programs: a child stopped and continued makes the parent go on while
  two others run, which TLC shows in thirteen states when it is given as the invariant.
- `ImplementLock`, `CleanupAfterAll`, `NothingKeptByTheDead`, `AlphabetButOneLetter`: see
  Drafts above. Of the five only `tmp_wr.c` calls `waitpid` without options, and only there
  the clean-up is last whoever is stopped: `CleanupAfterAll` is `CleanupLast` for the
  others and `WaitsForEnds` for it. `LastsUntilSignal`, the comment of `les_pc.c`, is
  violated.
- `SoloCallsRight`: a call whose thread runs alone is answered to its own client, with what
  it asked for, or fails. With two threads at once answers do go to the wrong client, or
  to nobody. `LettersInOrder` of `RpcServers`: nevertheless letters are taken in the order
  in which they were put, until a service runs between the semaphores of the other.
- `ImplementsDictionary`: as long as no calls have overlapped, the array and its counter
  are a bag of words; in the server without threads, always.
- `NumbersDistinct`, `NewcomersInTime`: in spite of repeated datagrams no number is given
  twice, and whatever index a client sends, `number_last` does not get past the numbers
  still to be given, so that a newcomer is not late already.
- `OvertakenOnlyByRace`: without choosing, a client is still served before one ahead of it
  only if a number went away while it took the maximum (`max_number` reads a number
  again after comparing it). `WaitsForSmallerNumbers`, the comment at
  `bakery_server.c` 47, is violated.
- `PairsWhole`: `mut[ind]` makes the two stores of number and pid one.
- `EverybodyServed`: equal numbers are decided by the pids, and nobody spins for ever,
  except behind a number left behind: that of a client killed between its two calls, or
  one that a late thread stores for a client that has given up and gone.
- `SomebodyRuns`, `CtrlCEnds`: see WinRW above.
- `OneDaemon`, `ConfOwned`, `PidOwned`: see Daemon above. `TermObeyed`: a copy that has
  been sent SIGTERM ends, unless its thread could not be created. `SingleInstance`,
  the comment at `daemon_test.c` 109, is violated by `daemon_test.c`.

Every property has a mutant in `PROJECT.json`: a plausible bug in one definition with
which TLC finds the property violated.

### Bounds

The numbers of processes, the page, `N_BUF` and the alphabet are constants. Two writers and
one on the other side give every kind of conflict there is (same side, other side, third
party while two compete); two letters and a page of three give a wrap of the letter and
the end of the page. `MaxSigint` and `MaxStops` are 1: a second SIGINT finds the flag
already cleared, a second stop repeats what the first can do to the count. Three clients
let one overtake another while a third goes away. Two copies of the daemon let one be
refused by the other, race it, find what it left behind, or lose its files to it; what holds of more copies is proved. Three signals are a
SIGHUP and a SIGTERM at once and one more, or one to the other copy. In `BakeryLive` one
faulty client is enough for a late thread beside the next client of its slot, and for a
number nobody clears; more of them only make more such threads. In `Drafts` three letters would only lengthen
the way to the wrap. In `Rpc` two clients of two calls and up to four datagrams let a thread of one client, past
its first look at the request, meet the datagram of another, or its own again; a ring of
two slots and three letters are both gone round; three words' places hold what three calls
can insert. Symmetry is used only in `ProdConsSafe` and `Rpc`, which have no liveness
property.
Deadlock is not checked: every one of these programs may end, `pc.c` may wait for
ever after Ctrl-C, and the clients of the RPC servers make a bounded number of calls.

### Fairness

- `ProdCons`, `ReadersWriters`: weak fairness of each child's steps and of the parent's.
  The scheduler runs a process that is ready, a sleep ends, and a process in `semop`
  whose array can be carried out is woken. In `ReadersWriters` strong fairness of
  `ChildHandler`: a pending signal is handled when the process returns from the kernel,
  which it does again and again, though between two of the model's steps it may not.
  Forks that fail and signals are never owed. No fairness between processes that compete
  for a semaphore: that each writer gets in is not claimed.
- `Bakery`: clients make their calls and server threads run; kills and time-outs are not owed.
- `WinRW`: threads and `main` run; nobody has to press Ctrl-C. `SetAuto` lets any waiting
  reader go.
- `Drafts`, `RpcServers`: none, only safety is stated. (A datagram need never come, and a
  server's threads may wait in `semop` for calls nobody makes.)
- `Daemon`: a copy's own steps. Which pending signal `sigwait` takes first is left open.

## 4. The theorems

All hold for any numbers of processes, any values of the other constants, and any subset
of the faults, from the named assumptions of each module only.

| Module | Theorem | Says |
|---|---|---|
| `ProdConsProofs` | `TypeCorrect` | `[]TypeOK` |
| | `Exclusion` | `[](MutualExclusion /\ LockRecovered)` |
| | `BoundedBuffer` | `[](ReadsOnlyProduced /\ BufferBound)` |
| | `RemovedLast` | `[]CleanupLast` |
| | `Stored` | `[](NoHoles /\ LettersInOrder)` |
| `ReadersWritersProofs` | `Invariance`, `TypeCorrect`, `Safety` | `[]TypeOK`, `[](Exclusion /\ QueuesNeverSeen /\ SemaphoresTell)` |
| | `Refinement` | `ImplementsLock` |
| | `RemovedLast` | `[]CleanupLast` |
| `DraftsProofs` | `Invariance`, `TypeCorrect` | `[](TypeOK /\ DraftsInv)` |
| | `Refinement` | `ImplementLock` |
| | `RemovedAfterAll`, `FreeOfTheDead`, `ReadInOrder` | `[]CleanupAfterAll`, `[]NothingKeptByTheDead`, `[]AlphabetButOneLetter` |
| `BakeryProofs` | `TypeCorrect`, `PairsTogether` | `[]TypeOK`, `[]PairsWhole` |
| | `Overtaking` | `[]OvertakenOnlyByRace`, if each client has a slot of its own and no call is given up |
| `WinRWProofs` | `Invariant`, `TypeCorrect`, `NotAllWaiting` | `[]TypeOK`, `[]SomebodyRuns` |
| `DaemonProofs` | `TypeCorrect`, `Invariant`, `OneCopy`, `FilesOwned` | `[]OneDaemon`, `[](ConfOwned /\ PidOwned)` |
| `RpcProofs` | `TypeCorrect` | `[]TypeOK` |
| | `SoloRight` | `[]SoloCallsRight` |
| | `InOrder` | `[]LettersInOrder` |
| | `NumbersGiven`, `InTime` | `[]NumbersDistinct`, `NewcomersInTime`, an action property |
| | `Refinement`, `NeverOverlapped` | `ImplementsDictionary`; in `dict_one` no calls ever overlap |

The arguments:

- **pc.c, the lock.** `MutualExclusion` alone is not inductive: the end of a process adds
  its adjustment, and nothing in it says what that is. `LockInv` adds `UndoOwed`: the
  adjustment of `BINARY` is 1 for the process inside and 0 for all others, so that an end
  gives the lock back exactly when its holder ends. Every step is put in one of five kinds
  (nobody moves in or out; enter; leave; inside; end), and each kind keeps the invariant.
- **pc.c, the buffer.** `BufferInv`: as long as nobody has ended, `BFULL` is the number
  of bytes stored and not taken, less the one being taken or before the one being
  announced, and `BEMPTY + BFULL` is `N_BUF`, or one less while somebody is inside.
- **pc.c, the page.** `PageInv`: the slot a producer has filled and not left behind is on the
  page and holds a letter. `AlphabetInv`: as long as nobody has ended, `alfa` is the position
  of `prod_ptr` modulo the alphabet, but between the two increments of one producer.
- **The clean-up.** `CountInv` of `ProcessGroup`: what a child that has ended, or is stopped,
  still has to report is true of it; the parent is in the clean-up only when it has counted
  as many reports as there are children; and (`MiscountBounded`) the count and what is
  still to be told of stops and continuations together are at most the number of ends that
  were told, and two for each stop: one for the stop and one for its continuation. One proof in `ProcessGroupProofs`
  serves `pc.c`, `wr.c` and the earlier programs, in which only the way the reports are
  counted differs.
- **wr.c.** `IInv` ties the semaphores to the sets of children inside, dead ones included,
  by their cardinalities; the roles say that only writers write; `LoadedIsCurrent`, that
  the letter does not change between a writer's load and store, makes its store the
  lock's write. The refinement maps the children at a place, alive or dead there, to
  the lock's holders.
- **The earlier programs.** `DraftsInv` is a conjunction. `PlacesInv`: a child is at a place
  of its own loop, and dies holding something only where nothing is undone. `AdjInv`: the
  adjustment of a child is what its place has taken from the semaphores, so that `SEM_UNDO`
  gives back exactly that. `LockInv`: the semaphores are a function (`SemsWith`, by program)
  of the numbers of readers and writers inside, and a writer's loaded letter is current.
  `BufferInv`: as long as no child has died inside, some number `k` of letters, at most three
  rounds, was stored, and the cells, the producers' pointer and the semaphores of `les_pc.c`
  are a function of `k` and the number taken (`Stored`); the consumers' pointer is too, or
  has got below where it can come back from; once one has died there, `BIN_SEM` stays 0 and
  nobody is inside any more. `DraftsCountInv`: `CountInv`, and in `tmp_wr.c` the
  count is exact whoever is stopped.
- **Bakery.** `Mutex` and `Pairs` for the slots. For the order: those ahead keep their
  numbers (`AheadStored`), the maximum being taken is at least the numbers already passed
  of those ahead (`Scanned`), hence a greater number (`Greater`), hence the loop of
  `serve` does not pass them (`Passed`). Where a number goes away in between, those ahead
  are forgotten: that is the race.
- **WinRW.** `Counted`: each counter is the number of threads in its section. `ReadersWoken`
  and `WritersWoken`: if somebody waits for an event, or is about to, then the event is
  signalled or some thread that does not wait is on its way to set it.
- **Daemon.** `LockHeld`: there is only one lock file inode ever, and a copy past `fcntl` has locked
  it; `OneLocks`; `Contented`: the contents of LOCKFILE are empty or the pid of a copy that has
  written it, which is the one that holds the lock if that has.

- **RPC, the calls.** `BaseInv` says of every thread that what is left of its `switch` is a
  plan in which each step may follow the one before (`Follows`), from any table; and of
  every datagram that it is one of a client's calls, with the procedure and the argument of
  the last call if it has that number (`CallsInv`). `AloneInv`: a thread that has been alone
  since it started decodes the datagram that started it, reads its own request, and has only
  steps of the procedure asked for ahead of it. `SoloCallsRight` follows when it answers.
- **RPC, the letters.** `ServingInv`: whichever pair of semaphores a thread takes, `BINARY`
  lets one in at a time. `LettersInv`: as long as each service ran between its own
  semaphores, these count full and empty cells, the pointers are the lengths of `puts` and
  `takes` modulo the ring, and what was put and not taken lies in the cells between. This
  needs that two of at most `SIZE` numbers in a row never share a cell (`ModDistinct`).
- **RPC, the numbers.** `NumbersInv`: the n-th number given is n, the last one given is still
  in a slot and is the maximum there, and `number_last` is not above it.
- **RPC, the dictionary.** `DictInv`: as long as no calls overlapped, one thread at most is
  between its steps, its register holds `nwords`, and the bag of words is that of before its
  call but for one word that is not counted yet, or counted still. The refinement is the bag
  before the call while one is between its steps, so that every call takes effect at its last.

These invariants were first checked by TLC on the instances above.

The constants need little. Lab 4: the children are finitely many, of two kinds, none of them
the parent; the alphabet and the buffer are not empty; in `Drafts` the order in which `main`
waits is that of the forks. RPC: the ring, the alphabet and the slots are not empty, `DICTSIZ`
may be 0, and at least one thread may run. TLC evaluates every assumption in the runs.

Only model-checked: all liveness (`ItemsConsumed`, `PageRunsOut`, `StopsUnlessStarved`,
`Shutdown`, `SomebodyEnters`, `EverybodyServed`, `CtrlCEnds`, `TermObeyed`), which is beyond the
prover here, and the three runs that show a violation. Every invariant, action property and
refinement that a run checks is also a theorem.

## 5. Not modelled, and the plan

Not modelled for good:

- generated stubs and XDR filters, vector programs (sequential arithmetic), the samples
  from manual pages, lab 1 (a disassembly and reports);
- what does not build: `os_lab_4/pc2.c`, `os_lab_4/pc/prod_cons.c` (no `main`),
  `lab_win/tmp.c` (operators missing), `os_lab_rpc/pc_svc.c` (a fragment), `pc3` (only an
  interface), `pc_4` (its `pc.h` has neither `SIZE_BUF` nor `semid`), `pc_old` (its client
  calls stubs nobody defines, and the server beside it never makes its semaphores),
  `bakery/tmp_bakery_*.c`, `exp_calc`;
- `bakery/bakery_svc.c`, for the reasons given under Bakery above;
- the experiments of lab 3 (`daemon_get_tty.c` tries out controlling terminals), and the
  programs of lab 2, each of which shows one system call.

Planned:

1. Without the two hypotheses of `Overtaking`: what is left of the order when clients share
   a slot or give up a call.
2. The lab 2 programs with a signal and a pipe.

## 6. Running

    tlc -config ProdConsSafe.cfg MCProdCons      (and so on for the other runs)
    tlapm ProdConsProofs.tla                     (and so on for the other proofs)
