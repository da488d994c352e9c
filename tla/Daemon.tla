------------------------------- MODULE Daemon -------------------------------
(***************************************************************************)
(* os_lab_3/src/daemon.c and daemon_test.c: a daemon that lets only one    *)
(* copy of itself run, by a lock on LOCKFILE, keeps a configuration in     *)
(* CONFFILE, and is told by signals to read it again or to end.  Several   *)
(* copies are started, killed and signalled.                               *)
(*                                                                         *)
(* A file name leads to an inode, whose contents are the daemon that wrote *)
(* them; a file that is removed stays there for those that have it open.   *)
(* Left out: daemonize, whose effect is on the process alone (a copy       *)
(* starts here with SIGHUP ignored), the text logged, and signals the      *)
(* thread only logs.                                                       *)
(***************************************************************************)
EXTENDS Integers

CONSTANTS
    Daemons,    \* the copies started, in any order
    Programs,   \* which of the two programs they may be
    Faults,     \* what may go wrong
    MaxSignals  \* bound: signals sent

ASSUME DaemonAssumption ==
    /\ Programs \subseteq {"daemon", "daemon_test"}
    /\ Faults \subseteq {"kill", "file", "thread"}
    /\ MaxSignals \in Nat
    /\ "empty" \notin Daemons

VARIABLES
    program,    \* the program that all copies run
    at,         \* where each copy is
    LOCKFILE,   \* the inode the name leads to, 0 if there is none
    CONFFILE,
    inodes,     \* inodes given out so far
    data,       \* their contents
    told,       \* the copies whose pid was written into LOCKFILE (history)
    fd,         \* the inode of each copy's descriptor of LOCKFILE
    conffd,     \* and of CONFFILE
    lock,       \* the inode each copy has locked, 0 if none
    pending,    \* its signals that are blocked and not yet taken
    sent        \* signals sent so far

files == <<LOCKFILE, CONFFILE, inodes, data, told>>
vars == <<program, at, files, fd, conffd, lock, pending, sent>>

Init ==
    /\ program \in Programs
    /\ at = [p \in Daemons |-> "unborn"]
    /\ LOCKFILE = 0 /\ CONFFILE = 0
    /\ inodes = 0
    /\ data = [n \in {} |-> "empty"]
    /\ told = {}
    /\ fd = [p \in Daemons |-> 0]
    /\ conffd = [p \in Daemons |-> 0]
    /\ lock = [p \in Daemons |-> 0]
    /\ pending = [p \in Daemons |-> {}]
    /\ sent = 0

(***************************************************************************)
(* A process and its files.                                                *)
(***************************************************************************)
Goto(p, from, to) == at[p] = from /\ at' = [at EXCEPT ![p] = to]

\* However a process ends, the kernel closes its files and releases its lock.
Leave(p) ==
    /\ at' = [at EXCEPT ![p] = "gone"]
    /\ fd' = [fd EXCEPT ![p] = 0]
    /\ conffd' = [conffd EXCEPT ![p] = 0]
    /\ lock' = [lock EXCEPT ![p] = 0]
    /\ pending' = [pending EXCEPT ![p] = {}]

\* O_CREAT where there is no such file.
NewFile ==
    /\ inodes' = inodes + 1
    /\ data' = [n \in 1 .. inodes + 1 |-> IF n \in 1 .. inodes THEN data[n] ELSE "empty"]

Contents(n, text) == data' = [data EXCEPT ![n] = text] /\ UNCHANGED <<LOCKFILE, CONFFILE, inodes>>

(***************************************************************************)
(* already_running.                                                        *)
(***************************************************************************)
Start(p) == Goto(p, "unborn", "open") /\ UNCHANGED <<files, fd, conffd, lock, pending, sent>>

\* Mutant: the file is emptied as it is opened.
OpenLockTruncating(p) ==
    /\ Goto(p, "open", "lock")
    /\ IF LOCKFILE = 0
         THEN NewFile /\ LOCKFILE' = inodes + 1
         ELSE data' = [data EXCEPT ![LOCKFILE] = "empty"] /\ UNCHANGED <<LOCKFILE, inodes>>
    /\ fd' = [fd EXCEPT ![p] = LOCKFILE']
    /\ UNCHANGED <<CONFFILE, told, conffd, lock, pending, sent>>
\* open(LOCKFILE, O_RDWR | O_CREAT)
OpenLock(p) ==
    /\ Goto(p, "open", "lock")
    /\ IF LOCKFILE = 0 THEN NewFile /\ LOCKFILE' = inodes + 1 ELSE UNCHANGED <<LOCKFILE, inodes, data>>
    /\ fd' = [fd EXCEPT ![p] = LOCKFILE']
    /\ UNCHANGED <<CONFFILE, told, conffd, lock, pending, sent>>

LockedByOther(p) == \E q \in Daemons \ {p} : lock[q] = fd[p]

\* Mutant: the result of fcntl is not looked at.
LockUnchecked(p) ==
    /\ Goto(p, "lock", "truncate")
    /\ lock' = [lock EXCEPT ![p] = fd[p]]
    /\ UNCHANGED <<files, fd, conffd, pending, sent>>
\* fcntl(F_SETLK)
Lock(p) ==
    /\ ~LockedByOther(p)
    /\ Goto(p, "lock", "truncate")
    /\ lock' = [lock EXCEPT ![p] = fd[p]]
    /\ UNCHANGED <<files, fd, conffd, pending, sent>>

\* EACCES or EAGAIN: another copy runs, and this one exits.
Refused(p) == at[p] = "lock" /\ LockedByOther(p) /\ Leave(p) /\ UNCHANGED <<files, sent>>

Truncate(p) ==
    /\ Goto(p, "truncate", "pid")
    /\ Contents(fd[p], "empty")
    /\ UNCHANGED <<told, fd, conffd, lock, pending, sent>>

\* The NUL that is written too ends the pid, even before a longer one that was
\* not truncated.
WritePid(p) ==
    /\ Goto(p, "pid", IF program = "daemon" THEN "confopen" ELSE "close")
    /\ Contents(fd[p], p)
    /\ told' = told \cup {p}
    /\ UNCHANGED <<fd, conffd, lock, pending, sent>>

\* Only daemon_test.c closes the descriptor, which releases the lock.
CloseLock(p) ==
    /\ Goto(p, "close", "confopen")
    /\ fd' = [fd EXCEPT ![p] = 0]
    /\ lock' = [lock EXCEPT ![p] = 0]
    /\ UNCHANGED <<files, conffd, pending, sent>>

\* Mutant: without O_CREAT, and the result not looked at.
OpenConfNoCreate(p) ==
    /\ Goto(p, "confopen", "conftruncate")
    /\ conffd' = [conffd EXCEPT ![p] = CONFFILE]
    /\ UNCHANGED <<files, fd, lock, pending, sent>>
\* open(CONFFILE, O_RDWR | O_CREAT)
OpenConf(p) ==
    /\ Goto(p, "confopen", "conftruncate")
    /\ IF CONFFILE = 0 THEN NewFile /\ CONFFILE' = inodes + 1 ELSE UNCHANGED <<CONFFILE, inodes, data>>
    /\ conffd' = [conffd EXCEPT ![p] = CONFFILE']
    /\ UNCHANGED <<LOCKFILE, told, fd, lock, pending, sent>>

TruncateConf(p) ==
    /\ Goto(p, "conftruncate", "confwrite")
    /\ Contents(conffd[p], "empty")
    /\ UNCHANGED <<told, fd, conffd, lock, pending, sent>>

WriteConf(p) ==
    /\ Goto(p, "confwrite", "default")
    /\ Contents(conffd[p], p)
    /\ conffd' = [conffd EXCEPT ![p] = 0]
    /\ UNCHANGED <<told, fd, lock, pending, sent>>

(***************************************************************************)
(* main after already_running: SIGHUP is no longer ignored, all signals    *)
(* are blocked, a thread takes them.                                       *)
(***************************************************************************)
Default(p) == Goto(p, "default", "mask") /\ UNCHANGED <<files, fd, conffd, lock, pending, sent>>
Mask(p) == Goto(p, "mask", "thread") /\ UNCHANGED <<files, fd, conffd, lock, pending, sent>>
CreateThread(p) == Goto(p, "thread", "sigwait") /\ UNCHANGED <<files, fd, conffd, lock, pending, sent>>

\* pthread_create returns an error number, never the -1 that is tested for:
\* the daemon goes on without the thread.
ThreadFails(p) ==
    /\ "thread" \in Faults
    /\ Goto(p, "thread", "deaf")
    /\ UNCHANGED <<files, fd, conffd, lock, pending, sent>>

(***************************************************************************)
(* thr_fn and reread.                                                      *)
(***************************************************************************)
Take(p, s) == s \in pending[p] /\ pending' = [pending EXCEPT ![p] = @ \ {s}]

TakeHup(p) ==
    /\ Goto(p, "sigwait", "reread")
    /\ Take(p, "SIGHUP")
    /\ UNCHANGED <<files, fd, conffd, lock, sent>>

\* fopen, fscanf, fclose of CONFFILE; without it the daemon exits.
Reread(p) ==
    /\ at[p] = "reread"
    /\ IF CONFFILE = 0
         THEN Leave(p)
         ELSE Goto(p, "reread", "sigwait") /\ UNCHANGED <<fd, conffd, lock, pending>>
    /\ UNCHANGED <<files, sent>>

\* Mutant: SIGTERM is one of the unexpected signals.
TakeTermUnexpected(p) ==
    /\ at[p] = "sigwait"
    /\ Take(p, "SIGTERM")
    /\ UNCHANGED <<at, files, fd, conffd, lock, sent>>
\* Mutant: the lock file is closed first.
TakeTermClosing(p) ==
    /\ Goto(p, "sigwait", IF program = "daemon" THEN "rmconf" ELSE "rmlock")
    /\ Take(p, "SIGTERM")
    /\ lock' = [lock EXCEPT ![p] = 0]
    /\ UNCHANGED <<files, fd, conffd, sent>>
TakeTerm(p) ==
    /\ Goto(p, "sigwait", IF program = "daemon" THEN "rmconf" ELSE "rmlock")
    /\ Take(p, "SIGTERM")
    /\ UNCHANGED <<files, fd, conffd, lock, sent>>

\* Only daemon_test.c removes LOCKFILE.
RemoveLock(p) ==
    /\ Goto(p, "rmlock", "rmconf")
    /\ LOCKFILE' = 0
    /\ UNCHANGED <<CONFFILE, inodes, data, told, fd, conffd, lock, pending, sent>>

RemoveConf(p) ==
    /\ Goto(p, "rmconf", "exit")
    /\ CONFFILE' = 0
    /\ UNCHANGED <<LOCKFILE, inodes, data, told, fd, conffd, lock, pending, sent>>

(***************************************************************************)
(* Files that fail: no space, no permission, an error of the disk.         *)
(***************************************************************************)
\* An open, the lock (not for a lock held), the write of the configuration or
\* the fopen of reread, whose results the program looks at: it exits.
FileFails(p) ==
    /\ "file" \in Faults
    /\ at[p] \in {"open", "lock", "confopen", "confwrite", "reread"}
    /\ Leave(p)
    /\ UNCHANGED <<files, sent>>

\* The ftruncates and the write of the pid, whose results it does not look at,
\* and the removals, whose failure it only logs: it goes on, and the file is as
\* it was.
FailsUnseen(p) ==
    /\ "file" \in Faults
    /\ \/ Goto(p, "truncate", "pid")
       \/ Goto(p, "pid", IF program = "daemon" THEN "confopen" ELSE "close")
       \/ Goto(p, "conftruncate", "confwrite")
       \/ Goto(p, "rmlock", "rmconf")
       \/ Goto(p, "rmconf", "exit")
    /\ UNCHANGED <<files, fd, conffd, lock, pending, sent>>

Exit(p) == at[p] = "exit" /\ Leave(p) /\ UNCHANGED <<files, sent>>

(***************************************************************************)
(* The environment.                                                        *)
(***************************************************************************)
Gone(p) == at[p] \in {"unborn", "gone"}
Unmasked == {"open", "lock", "truncate", "pid", "close", "confopen", "conftruncate", "confwrite",
             "default", "mask"}

Kill(p) == "kill" \in Faults /\ ~Gone(p) /\ Leave(p) /\ UNCHANGED <<files, sent>>

\* A signal is left pending once all are blocked.  Before, SIGTERM ends the
\* process, and so does SIGHUP when it is no longer ignored.
Signal(p, s) ==
    /\ sent < MaxSignals /\ sent' = sent + 1
    /\ ~Gone(p)
    /\ IF at[p] \notin Unmasked
         THEN pending' = [pending EXCEPT ![p] = @ \cup {s}] /\ UNCHANGED <<at, fd, conffd, lock>>
         ELSE (s = "SIGHUP" => at[p] = "mask") /\ Leave(p)
    /\ UNCHANGED files

Step(p) == UNCHANGED program /\ (
    \/ Start(p) \/ OpenLock(p) \/ Lock(p) \/ Refused(p) \/ Truncate(p) \/ WritePid(p) \/ CloseLock(p)
    \/ OpenConf(p) \/ TruncateConf(p) \/ WriteConf(p)
    \/ Default(p) \/ Mask(p) \/ CreateThread(p)
    \/ TakeHup(p) \/ Reread(p) \/ TakeTerm(p) \/ RemoveLock(p) \/ RemoveConf(p) \/ Exit(p))
Environment(p) == UNCHANGED program /\ (
    \/ FileFails(p) \/ FailsUnseen(p) \/ ThreadFails(p) \/ Kill(p)
    \/ \E s \in {"SIGHUP", "SIGTERM"} : Signal(p, s))

Next == \E p \in Daemons : Step(p) \/ Environment(p)

Spec == Init /\ [][Next]_vars

\* A process runs on.  Which pending signal sigwait takes first is left open.
FairSpec == Spec /\ \A p \in Daemons : WF_vars(Step(p))

(***************************************************************************)
(* Properties.                                                             *)
(***************************************************************************)
\* The lock is held, in daemon.c until the end.
Locking == {"truncate", "pid", "confopen", "conftruncate", "confwrite", "default", "mask", "thread",
            "sigwait", "reread", "rmconf", "exit", "deaf"}
\* already_running has returned 0.
Passed == {"default", "mask", "thread", "sigwait", "reread", "rmlock", "rmconf", "exit", "deaf"}
Places == Locking \cup {"unborn", "open", "lock", "close", "rmlock", "gone"}

TypeOK ==
    /\ program \in Programs
    /\ at \in [Daemons -> Places]
    /\ inodes \in Nat
    /\ LOCKFILE \in 0 .. inodes /\ CONFFILE \in 0 .. inodes
    /\ data \in [1 .. inodes -> Daemons \cup {"empty"}]
    /\ told \subseteq Daemons
    /\ fd \in [Daemons -> 0 .. inodes]
    /\ conffd \in [Daemons -> 0 .. inodes]
    /\ lock \in [Daemons -> 0 .. inodes]
    /\ pending \in [Daemons -> SUBSET {"SIGHUP", "SIGTERM"}]
    /\ sent \in 0 .. MaxSignals
    /\ \A p \in Daemons : /\ at[p] \in {"lock", "truncate", "pid"} => fd[p] # 0
                          /\ at[p] \in {"conftruncate", "confwrite"} => conffd[p] # 0

\* The comment above already_running (daemon.c 92, daemon_test.c 109), in
\* English: "a function that guarantees that only one copy of the daemon is
\* started".
SingleInstance == \A p, q \in Daemons : at[p] \in Passed /\ at[q] \in Passed => p = q

\* It holds of daemon.c however copies race, fail, are killed or signalled.
OneDaemon == program = "daemon" => SingleInstance

\* What a daemon will read again on SIGHUP is there and is what it wrote itself
\* (daemon.c 122-134, 146): no other copy, starting, refused or ending, has
\* overwritten or removed it.
ConfOwned ==
    program = "daemon" =>
        \A p \in Daemons :
            at[p] \in {"default", "mask", "thread", "sigwait", "reread", "deaf"} =>
                CONFFILE # 0 /\ data[CONFFILE] = p

\* LOCKFILE tells the pid of the daemon that runs, although every copy that is
\* refused has opened it too; and when it could not be written, which nobody looks
\* at (daemon.c 118-120), it tells the pid of no other that runs.
PidOwned ==
    program = "daemon" =>
        \A p \in Daemons : at[p] \in Passed =>
            /\ LOCKFILE # 0
            /\ IF p \in told THEN data[LOCKFILE] = p
               ELSE data[LOCKFILE] = "empty" \/ at[data[LOCKFILE]] = "gone"

\* SIGTERM ends a copy, whenever it comes, whatever SIGHUPs come as well and
\* whatever other copies do to its files; unless it has no thread.
TermObeyed == \A p \in Daemons : "SIGTERM" \in pending[p] ~> at[p] \in {"gone", "deaf"}

(***************************************************************************)
(* The inductive invariant of the proofs about daemon.c: a copy past the   *)
(* lock has locked the one LOCKFILE there ever is.                         *)
(***************************************************************************)
LockHeld ==
    \A p \in Daemons :
        /\ at[p] \notin {"close", "rmlock"}
        /\ at[p] \in Locking \cup {"lock"} => fd[p] = LOCKFILE /\ LOCKFILE # 0
        /\ at[p] \in Locking => lock[p] = LOCKFILE
        /\ at[p] \notin Locking => lock[p] = 0

OneLocks == \A p, q \in Daemons : at[p] \in Locking /\ at[q] \in Locking => p = q

Untold == {"unborn", "open", "lock", "truncate", "pid"}

Contented ==
    /\ LOCKFILE # 0 => LOCKFILE # CONFFILE
    /\ LOCKFILE # 0 => data[LOCKFILE] \in told \cup {"empty"}
    /\ \A p \in Daemons :
          /\ p \in told => at[p] \notin Untold
          /\ at[p] \in Locking /\ p \in told => data[LOCKFILE] = p
          /\ at[p] \in {"conftruncate", "confwrite"} => conffd[p] = CONFFILE /\ CONFFILE # 0
=============================================================================
