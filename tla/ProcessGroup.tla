---------------------------- MODULE ProcessGroup ----------------------------
(***************************************************************************)
(* What os_lab_4/pc/src/pc.c and os_lab_4/wr/src/wr.c have in common: a    *)
(* parent forks two kinds of children that loop until SIGINT clears their  *)
(* flag, waits for them and removes the System V semaphores and memory.    *)
(*                                                                         *)
(* The environment does what a terminal and the kernel do to a process     *)
(* group: SIGINT to all of it, SIGKILL, SIGSTOP and SIGCONT to a child,    *)
(* and a fork that fails.  Faults names those an instance allows.          *)
(*                                                                         *)
(* The actions here change this module's variables only; the module that   *)
(* extends it says what becomes of its own.  Left out: the failure of the  *)
(* system calls before the first fork (the program ends having started     *)
(* nothing), the text printed, and how long a process sleeps.              *)
(***************************************************************************)
EXTENDS Integers, FiniteSets

CONSTANTS
    FirstForked,  \* the children of main's first loop of forks
    ThenForked,   \* those of its second loop
    Faults,       \* what the environment may do
    MaxSigint,    \* bound: SIGINTs sent
    MaxStops      \* bound: SIGSTOPs sent

Children == FirstForked \cup ThenForked
AllFaults == {"SIGINT", "SIGKILL", "SIGSTOP", "fork"}

\* The parent, which is no child of its own.
Main == "main"

ASSUME GroupAssumption ==
    /\ IsFiniteSet(Children)
    /\ FirstForked \cap ThenForked = {}
    /\ Main \notin Children
    /\ Faults \subseteq AllFaults
    /\ MaxSigint \in Nat
    /\ MaxStops \in Nat

VARIABLES
    pc,        \* where each child is
    mpc,       \* where the parent is
    f_sigint,  \* each process's own copy of the flag
    pending,   \* processes with a SIGINT not yet handled
    stopped,   \* children stopped by SIGSTOP
    report,    \* what waitpid can report of each child
    waited,    \* returns of waitpid in the parent's loop
    removed,   \* the semaphores and the segment were removed
    sigints,   \* SIGINTs sent so far
    stops      \* SIGSTOPs sent so far

env == <<sigints, stops>>
group == <<pc, mpc, f_sigint, pending, stopped, report, waited, removed, sigints, stops>>

Alive(p) == pc[p] \notin {"unborn", "gone"}
Running(p) == Alive(p) /\ p \notin stopped
Unborn == {p \in Children : pc[p] = "unborn"}
NobodyGone == \A p \in Children : pc[p] # "gone"

GroupInit ==
    /\ pc = [p \in Children |-> "unborn"]
    /\ mpc = "fork"
    /\ f_sigint = [p \in Children \cup {Main} |-> 1]
    /\ pending = {}
    /\ stopped = {}
    /\ report = [p \in Children |-> "none"]
    /\ waited = 0
    /\ removed = FALSE
    /\ sigints = 0
    /\ stops = 0

(***************************************************************************)
(* Steps of a child.                                                       *)
(***************************************************************************)
Goto(p, to) == pc' = [pc EXCEPT ![p] = to]

\* A child goes on, and nothing else of the group changes.
Moves(p, to) ==
    /\ Goto(p, to)
    /\ UNCHANGED <<mpc, f_sigint, pending, stopped, report, waited, removed, env>>

\* A child ends, whatever the cause, and the parent can learn of it.
Ends(p) ==
    /\ Goto(p, "gone")
    /\ report' = [report EXCEPT ![p] = "exited"]
    /\ pending' = pending \ {p}
    /\ stopped' = stopped \ {p}
    /\ UNCHANGED <<mpc, waited, removed, env>>

\* exit, errExit or a fatal signal.
Quits(p) == Ends(p) /\ UNCHANGED f_sigint

\* SIGINT while semop waits: the handler clears the flag, semop returns EINTR
\* instead of being restarted, and the program ends.
QuitsInterrupted(p) ==
    /\ p \in pending
    /\ f_sigint' = [f_sigint EXCEPT ![p] = 0]
    /\ Ends(p)

\* while (f_sigint)
LoopAgain(p) == pc[p] = "loop" /\ f_sigint[p] = 1 /\ Moves(p, "sleep")
LoopEnds(p) == pc[p] = "loop" /\ f_sigint[p] = 0 /\ Quits(p)

\* sleep returns, early if a signal was handled.
Wake(p) == pc[p] = "sleep" /\ Moves(p, "P")

\* SIGINT, handled at any place but inside a semop that waits.
Handler(p) ==
    /\ p \in pending
    /\ f_sigint' = [f_sigint EXCEPT ![p] = 0]
    /\ pending' = pending \ {p}
    /\ UNCHANGED <<pc, mpc, stopped, report, waited, removed, env>>
ChildHandler(p) == pc[p] \notin {"P", "eintr"} /\ Handler(p)

(***************************************************************************)
(* Steps of the parent.                                                    *)
(***************************************************************************)
\* Mutant: the kernel would fork with a signal pending, which the child misses.
ForkWhilePending(p) ==
    /\ mpc = "fork" /\ p \in Unborn
    /\ p \in ThenForked => Unborn \cap FirstForked = {}
    /\ Goto(p, "loop")
    /\ f_sigint' = [f_sigint EXCEPT ![p] = f_sigint[Main]]
    /\ mpc' = IF Unborn = {p} THEN "wait" ELSE "fork"
    /\ UNCHANGED <<pending, stopped, report, waited, removed, env>>
\* The children inherit the parent's copy of the flag, and no pending signal:
\* the kernel has the parent handle a pending one before it forks.
Fork(p) ==
    /\ mpc = "fork" /\ p \in Unborn
    /\ Main \notin pending
    /\ p \in ThenForked => Unborn \cap FirstForked = {}
    /\ Goto(p, "loop")
    /\ f_sigint' = [f_sigint EXCEPT ![p] = f_sigint[Main]]
    /\ mpc' = IF Unborn = {p} THEN "wait" ELSE "fork"
    /\ UNCHANGED <<pending, stopped, report, waited, removed, env>>

\* Mutant: the loop counts one child less.
WaitOneShort(p) ==
    /\ mpc = "wait" /\ report[p] # "none"
    /\ report' = [report EXCEPT ![p] = "none"]
    /\ waited' = waited + 1
    /\ mpc' = IF waited + 2 = Cardinality(Children) THEN "cleanup" ELSE "wait"
    /\ UNCHANGED <<pc, f_sigint, pending, stopped, removed, env>>
\* waitpid(-1, &wstatus, WUNTRACED | WCONTINUED), which the handler does not
\* interrupt (signal() installs it with SA_RESTART).
Wait(p) ==
    /\ mpc = "wait" /\ report[p] # "none"
    /\ report' = [report EXCEPT ![p] = "none"]
    /\ waited' = waited + 1
    /\ mpc' = IF waited + 1 = Cardinality(Children) THEN "cleanup" ELSE "wait"
    /\ UNCHANGED <<pc, f_sigint, pending, stopped, removed, env>>

\* shmctl(IPC_RMID), shmdt, semctl(IPC_RMID).
Cleanup ==
    /\ mpc = "cleanup"
    /\ mpc' = "done"
    /\ removed' = TRUE
    /\ UNCHANGED <<pc, f_sigint, pending, stopped, report, waited, env>>

MainHandler == mpc \in {"fork", "wait", "cleanup"} /\ Handler(Main)

MainStep ==
    \/ \E p \in Children : Fork(p) \/ Wait(p)
    \/ Cleanup
    \/ MainHandler

(***************************************************************************)
(* The environment.                                                        *)
(***************************************************************************)
\* The parent exits: the forked children and the semaphores are left behind.
ForkFails ==
    /\ "fork" \in Faults
    /\ mpc = "fork"
    /\ mpc' = "failed"
    /\ UNCHANGED <<pc, f_sigint, pending, stopped, report, waited, removed, env>>

\* Ctrl-C reaches the parent and every child it has forked.
Sigint ==
    /\ "SIGINT" \in Faults /\ sigints < MaxSigint
    /\ mpc \in {"fork", "wait", "cleanup"}
    /\ pending' = pending \cup {Main} \cup {p \in Children : Alive(p)}
    /\ sigints' = sigints + 1
    /\ UNCHANGED <<pc, mpc, f_sigint, stopped, report, waited, removed, stops>>

Sigkill(p) == "SIGKILL" \in Faults /\ Alive(p) /\ Quits(p)

\* A semop that was waiting returns EINTR once the process is continued.
Sigstop(p, waiting) ==
    /\ "SIGSTOP" \in Faults /\ stops < MaxStops
    /\ Running(p)
    /\ stopped' = stopped \cup {p}
    /\ report' = [report EXCEPT ![p] = "stopped"]
    /\ stops' = stops + 1
    /\ IF waiting THEN Goto(p, "eintr") ELSE UNCHANGED pc
    /\ UNCHANGED <<mpc, f_sigint, pending, waited, removed, sigints>>

Sigcont(p) ==
    /\ p \in stopped
    /\ stopped' = stopped \ {p}
    /\ report' = [report EXCEPT ![p] = "continued"]
    /\ UNCHANGED <<pc, mpc, f_sigint, pending, waited, removed, env>>

(***************************************************************************)
(* Properties of the group.                                                *)
(***************************************************************************)
GroupTypeOK(Places) ==
    /\ pc \in [Children -> Places]
    /\ mpc \in {"fork", "wait", "cleanup", "done", "failed"}
    /\ f_sigint \in [Children \cup {Main} -> {0, 1}]
    /\ pending \subseteq Children \cup {Main}
    /\ stopped \subseteq Children
    /\ report \in [Children -> {"none", "exited", "stopped", "continued"}]
    /\ waited \in Nat
    /\ removed \in BOOLEAN
    /\ sigints \in 0 .. MaxSigint
    /\ stops \in 0 .. MaxStops

\* "until one of its children terminates" (pc.c 135, wr.c 171): the parent waits
\* for as many children as it has forked, so that all have ended when it removes
\* the semaphores and the segment.
WaitsForEnds == removed => \A p \in Children : pc[p] = "gone"

\* What holds of it however children end, are stopped and continued between the
\* parent's forks and waits: only a return of waitpid that tells of a stop or a
\* continuation is taken for an end, so that at most two children for each
\* SIGSTOP outlive the semaphores (pc.c 155-160, wr.c 192-203), and none without.
CleanupLast == removed => Cardinality({p \in Children : pc[p] # "gone"}) <= 2 * stops

(***************************************************************************)
(* The inductive invariant of its proof.  What waitpid can report is true; *)
(* the parent goes on when its count is that of the forks, and the count   *)
(* is that of the ends it has been told of, and of stops and continuations *)
(* that are not still to be told.                                          *)
(***************************************************************************)
ReportsTrue ==
    \A p \in Children :
        /\ p \in stopped => Alive(p)
        /\ report[p] = "exited" => pc[p] = "gone"
        /\ pc[p] = "gone" => report[p] \in {"none", "exited"}
        /\ report[p] = "continued" => p \notin stopped

CleanupAfterCount ==
    /\ removed => mpc = "done"
    /\ mpc \in {"cleanup", "done"} => waited = Cardinality(Children)

Reaped == {p \in Children : pc[p] = "gone" /\ report[p] = "none"}
ToTellStopped == {p \in Children : report[p] = "stopped"}
ToTellContinued == {p \in Children : p \in stopped \/ report[p] = "continued"}

EndsCounted == waited = Cardinality(Reaped)
MiscountBounded ==
    waited + Cardinality(ToTellStopped) + Cardinality(ToTellContinued)
        <= Cardinality(Reaped) + 2 * stops

CountInv == ReportsTrue /\ CleanupAfterCount /\ MiscountBounded
=============================================================================
