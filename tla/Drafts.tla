------------------------------- MODULE Drafts -------------------------------
(***************************************************************************)
(* The five other programs of os_lab_4: the readers and writers tmp.c,     *)
(* tmp_wr.c, wr_old.c and tmp_pc.c (which is no producers and consumers),  *)
(* and the producers and consumers les_pc.c.  They share the plan of wr.c  *)
(* and differ in their arrays of operations, in SEM_UNDO, in what SIGINT   *)
(* does, and in how main waits.  Each program is a record of these parts,  *)
(* and the variable program says which one runs.                           *)
(***************************************************************************)
EXTENDS SysVSem, ProcessGroup, SequencesExt

CONSTANTS
    Order,     \* the children in the order main forks them, as in its array of pids
    Programs,  \* the programs of an instance
    NLetters   \* letters of the alphabet, and the SIZE_BUF of les_pc.c

\* In les_pc.c, producers and consumers.
Writers == FirstForked
Readers == ThenForked

a == 0
z == NLetters - 1
Letters == a - 1 .. z
\* What a byte of a fresh segment holds, and the highest byte of a pointer into it.
NoLetter == a - 1

ASSUME DraftsAssumption ==
    /\ Programs \subseteq {"tmp", "tmp_wr", "wr_old", "tmp_pc", "les_pc"}
    /\ NLetters \in Nat \ {0}
    /\ Order \in Seq(Children)
    /\ Len(Order) = Cardinality(Children) /\ ToSet(Order) = Children
    /\ \A m, n \in DOMAIN Order : Order[m] \in Writers /\ Order[n] \in Readers => m < n

P == -1
V == 1

(***************************************************************************)
(* tmp.c.  The semaphores are FLAG_EDIT 0, ACTIVE_WRITER 1, ACTIVE_READERS *)
(* 2, WRITE_QUEUE 3 and READ_QUEUE 4.                                      *)
(***************************************************************************)
\* Mutant: readers do not look at the active writer.
tmp_ops_unchecked ==
    [start_read |-> <<Sembuf(4, V), Sembuf(3, 0), Sembuf(2, V), Sembuf(4, P)>>,
     stop_read |-> <<Sembuf(2, P)>>,
     start_write |-> <<Sembuf(3, V), Sembuf(2, 0), Sembuf(0, P), Sembuf(1, 0),
                       Sembuf(1, V), Sembuf(3, P)>>,
     stop_write |-> <<Sembuf(1, P), Sembuf(0, V)>>,
     undo |-> FALSE]
tmp_ops ==
    [start_read |-> <<Sembuf(4, V), Sembuf(1, 0), Sembuf(3, 0), Sembuf(2, V), Sembuf(4, P)>>,
     stop_read |-> <<Sembuf(2, P)>>,
     start_write |-> <<Sembuf(3, V), Sembuf(2, 0), Sembuf(0, P), Sembuf(1, 0),
                       Sembuf(1, V), Sembuf(3, P)>>,
     stop_write |-> <<Sembuf(1, P), Sembuf(0, V)>>,
     undo |-> FALSE]
tmp_flag == [handled |-> TRUE]
tmp_writer ==
    [start |-> "start_write", loop |-> <<"sleep", "P", "load", "store", "stop_write">>,
     next |-> [x \in Letters |-> IF x = z THEN a ELSE x + 1]]
tmp_reader == [start |-> "start_read", loop |-> <<"sleep", "P", "read", "stop_read">>]
tmp_sems == [s \in 0 .. 4 |-> IF s = 0 THEN 1 ELSE 0]
tmp_main == [first |-> a, inorder |-> TRUE, counts |-> {"exited", "stopped", "continued"}]

tmp == [ops |-> tmp_ops, flag |-> tmp_flag, writer |-> tmp_writer, reader |-> tmp_reader,
        sems |-> tmp_sems, main |-> tmp_main]

(***************************************************************************)
(* tmp_wr.c.  C_WAITING_R 0, C_ACTIVE_R 1, C_WAITING_W 2, B_ACTIVE_W 3,    *)
(* which is 1 when no writer is active, and B_SEM 4, which is then 0.      *)
(***************************************************************************)
\* Mutant: the operations are made without SEM_UNDO.
tmp_wr_ops_kept ==
    [start_read |-> <<Sembuf(0, 1), Sembuf(4, 0), Sembuf(2, 0), Sembuf(1, 1), Sembuf(0, -1)>>,
     stop_read |-> <<Sembuf(1, -1)>>,
     start_write |-> <<Sembuf(2, 1), Sembuf(1, 0), Sembuf(4, 1), Sembuf(3, -1), Sembuf(2, -1)>>,
     stop_write |-> <<Sembuf(3, 1), Sembuf(4, -1)>>,
     undo |-> FALSE]
tmp_wr_ops ==
    [start_read |-> <<Sembuf(0, 1), Sembuf(4, 0), Sembuf(2, 0), Sembuf(1, 1), Sembuf(0, -1)>>,
     stop_read |-> <<Sembuf(1, -1)>>,
     start_write |-> <<Sembuf(2, 1), Sembuf(1, 0), Sembuf(4, 1), Sembuf(3, -1), Sembuf(2, -1)>>,
     stop_write |-> <<Sembuf(3, 1), Sembuf(4, -1)>>,
     undo |-> TRUE]
tmp_wr_flag == [handled |-> TRUE]
tmp_wr_writer ==
    [start |-> "start_write", loop |-> <<"sleep", "P", "load", "store", "stop_write">>,
     next |-> [x \in Letters |-> (IF x = z THEN a - 1 ELSE x) + 1]]  \* one store
tmp_wr_reader == [start |-> "start_read", loop |-> <<"sleep", "P", "read", "stop_read">>]
\* Mutant: main is also told of children that stop.
tmp_wr_main_untraced ==
    [first |-> a - 1, inorder |-> TRUE, counts |-> {"exited", "stopped"},
     sems |-> [s \in 0 .. 4 |-> IF s = 3 THEN 1 ELSE 0]]
tmp_wr_main ==
    [first |-> a - 1, inorder |-> TRUE, counts |-> {"exited"},
     sems |-> [s \in 0 .. 4 |-> IF s = 3 THEN 1 ELSE 0]]

tmp_wr == [ops |-> tmp_wr_ops, flag |-> tmp_wr_flag, writer |-> tmp_wr_writer,
           reader |-> tmp_wr_reader, sems |-> tmp_wr_main.sems, main |-> tmp_wr_main]

(***************************************************************************)
(* wr_old.c.  FLAG_EDIT 0, which is 1 while a writer is active,            *)
(* NUMB_OF_READERS 1, WRITERS_QUEUE 2, READERS_QUEUE 3.                    *)
(***************************************************************************)
wr_old_ops ==
    [start_read |-> <<Sembuf(3, 1), Sembuf(0, 0), Sembuf(2, 0), Sembuf(1, 1), Sembuf(3, -1)>>,
     stop_read |-> <<Sembuf(1, -1)>>,
     start_write |-> <<Sembuf(2, 1), Sembuf(1, 0), Sembuf(0, 0), Sembuf(0, 1), Sembuf(2, -1)>>,
     stop_write |-> <<Sembuf(0, -1)>>,
     undo |-> FALSE]
wr_old_flag == [handled |-> TRUE]
\* Mutant: the letter after 'z' is not looked after.
wr_old_writer_unwrapped ==
    [start |-> "start_write", loop |-> <<"sleep", "P", "load", "store", "stop_write">>,
     next |-> [x \in Letters |-> x + 1]]
wr_old_writer ==
    [start |-> "start_write", loop |-> <<"sleep", "P", "load", "store", "stop_write">>,
     next |-> [x \in Letters |-> IF x = z THEN a ELSE x + 1]]
wr_old_reader == [start |-> "start_read", loop |-> <<"sleep", "P", "read", "stop_read">>]
wr_old_main ==
    [first |-> a, inorder |-> FALSE, counts |-> {"exited", "stopped", "continued"},
     sems |-> [s \in 0 .. 3 |-> 0]]

wr_old == [ops |-> wr_old_ops, flag |-> wr_old_flag, writer |-> wr_old_writer,
           reader |-> wr_old_reader, sems |-> wr_old_main.sems, main |-> wr_old_main]

(***************************************************************************)
(* tmp_pc.c.  ACTIVE_READERS 0, WRITE_QUEUE 1, READ_QUEUE 2, ACTIVE_WRITER *)
(* 3, BIN_WRITER 4.  SIGINT is not handled, and the loops have no end.     *)
(* The int *number, which is only counted up, is seen modulo NLetters.     *)
(***************************************************************************)
tmp_pc_ops ==
    [start_read |-> <<Sembuf(2, V), Sembuf(3, 0), Sembuf(1, 0), Sembuf(0, V), Sembuf(2, P)>>,
     stop_read |-> <<Sembuf(0, P)>>,
     start_write |-> <<Sembuf(1, V), Sembuf(0, 0), Sembuf(4, P), Sembuf(3, 0),
                       Sembuf(3, V), Sembuf(1, P)>>,
     stop_write |-> <<Sembuf(3, P), Sembuf(4, V)>>,
     undo |-> FALSE]
tmp_pc_writer ==
    [start |-> "start_write", loop |-> <<"sleep", "P", "load", "store", "stop_write">>,
     next |-> [x \in Letters |-> (x + 1) % NLetters]]
tmp_pc_reader == [start |-> "start_read", loop |-> <<"sleep", "P", "read", "stop_read">>]
tmp_pc_sems == [s \in 0 .. 4 |-> IF s = 4 THEN 1 ELSE 0]
tmp_pc_main == [first |-> a, inorder |-> TRUE, counts |-> {"exited", "stopped"}]

tmp_pc == [ops |-> tmp_pc_ops, flag |-> [handled |-> FALSE], writer |-> tmp_pc_writer,
           reader |-> tmp_pc_reader, sems |-> tmp_pc_sems, main |-> tmp_pc_main]

(***************************************************************************)
(* les_pc.c.  BIN_SEM 0, BUFF_FULL 1, BUFF_EMPTY 2.                        *)
(***************************************************************************)
\* Mutant: a consumer waits for an empty slot.
les_pc_ops_swapped ==
    [start_produce |-> <<Sembuf(2, P), Sembuf(0, P)>>, stop_produce |-> <<Sembuf(0, V), Sembuf(1, V)>>,
     start_consume |-> <<Sembuf(2, P), Sembuf(0, P)>>, stop_consume |-> <<Sembuf(0, V), Sembuf(2, V)>>,
     undo |-> FALSE]
les_pc_ops ==
    [start_produce |-> <<Sembuf(2, P), Sembuf(0, P)>>, stop_produce |-> <<Sembuf(0, V), Sembuf(1, V)>>,
     start_consume |-> <<Sembuf(1, P), Sembuf(0, P)>>, stop_consume |-> <<Sembuf(0, V), Sembuf(2, V)>>,
     undo |-> FALSE]
les_pc_flag == [handled |-> TRUE]
les_pc_producer == [start |-> "start_produce", loop |-> <<"sleep", "P", "put", "advance", "stop_produce">>]
les_pc_consumer == [start |-> "start_consume", loop |-> <<"sleep", "P", "take", "stop_consume">>]
les_pc_main ==
    [first |-> a, inorder |-> TRUE, counts |-> {"exited", "stopped", "continued"},
     sems |-> <<1, 0, NLetters>>]

les_pc == [ops |-> les_pc_ops, flag |-> les_pc_flag, writer |-> les_pc_producer,
           reader |-> les_pc_consumer, sems |-> [s \in 0 .. 2 |-> les_pc_main.sems[s + 1]],
           main |-> les_pc_main]

AllPrograms ==
    [tmp |-> tmp, tmp_wr |-> tmp_wr, wr_old |-> wr_old, tmp_pc |-> tmp_pc, les_pc |-> les_pc]

VARIABLES
    program,  \* the name of the program that runs
    sem,      \* the values of its semaphores
    adj,      \* SEM_UNDO adjustment of each child
    buf,      \* the shared letter
    reg,      \* the value of it a writer has loaded
    cell,     \* les_pc.c: the buffer; in cell[-1], the byte before it, *ptr_alpha_now; and in
              \* cell[-2] the highest byte of *ptr_cons, which is 0 in every address
    ptr_prod, \* les_pc.c: *ptr_prod and
    ptr_cons, \* *ptr_cons, seen from the first cell of the buffer
    takes,    \* les_pc.c: letters taken (history)
    died      \* where a child was killed holding something, if it was (history)

les == <<cell, ptr_prod, ptr_cons, takes>>
shm == <<buf, reg, les>>
sems == <<sem, adj>>
vars == <<group, program, sems, shm, died>>

prog == AllPrograms[program]
Sems == DOMAIN prog.sems

Reading == {"read", "stop_read"}
Writing == {"load", "store", "stop_write"}
Stopping == {"stop_read", "stop_write", "stop_produce", "stop_consume"}
Places == Reading \cup Writing \cup Stopping \cup
          {"put", "advance", "take", "unborn", "loop", "sleep", "P", "eintr", "gone"}

Init ==
    /\ GroupInit
    /\ program \in Programs
    /\ sem = prog.sems
    /\ adj = [p \in Children |-> [s \in Sems |-> 0]]
    /\ buf = prog.main.first
    /\ reg = [p \in Writers |-> prog.main.first]
    /\ cell = [i \in -2 .. NLetters - 1 |-> IF i = -1 THEN a ELSE NoLetter]
    /\ ptr_prod = 0 /\ ptr_cons = 0 /\ takes = 0
    /\ died = [p \in Children |-> "none"]

(***************************************************************************)
(* semop(semid, ops, n) with any number of entries, and its undoing.       *)
(***************************************************************************)
Values(v, ops) ==
    LET after[n \in 0 .. Len(ops)] == IF n = 0 THEN v ELSE Apply(after[n - 1], ops[n])
    IN  after

CanSemop(ops) ==
    /\ ~removed
    /\ \A n \in DOMAIN ops : Ready(Values(sem, ops)[n - 1], ops[n])

Semop(p, ops) ==
    /\ CanSemop(ops)
    /\ sem' = Values(sem, ops)[Len(ops)]
    /\ adj' = IF prog.ops.undo
              THEN [adj EXCEPT ![p] = [s \in Sems |-> @[s] + sem[s] - sem'[s]]] ELSE adj

\* What the kernel does when p ends.
SemUndo(p) ==
    /\ sem' = IF removed THEN sem ELSE Undo(sem, adj[p])
    /\ adj' = [adj EXCEPT ![p] = [s \in Sems |-> 0]]
    /\ UNCHANGED shm

(***************************************************************************)
(* The loops of writer and reader.                                         *)
(***************************************************************************)
loop(p) == IF p \in Writers THEN prog.writer.loop ELSE prog.reader.loop
start_of(p) == prog.ops[IF p \in Writers THEN prog.writer.start ELSE prog.reader.start]
Waiting(p) == pc[p] = "P" /\ ~CanSemop(start_of(p))

\* On to the next place of the loop, or back to its test.
Advances(p) ==
    LET n == CHOOSE n \in DOMAIN loop(p) : loop(p)[n] = pc[p]
    IN  Moves(p, IF n = Len(loop(p)) THEN "loop" ELSE loop(p)[n + 1])

LoopTest(p) ==
    /\ pc[p] = "loop"
    /\ \/ f_sigint[p] = 1 /\ Moves(p, loop(p)[1]) /\ UNCHANGED <<sems, shm>>
       \/ f_sigint[p] = 0 /\ Quits(p) /\ SemUndo(p)

Sleep(p) == pc[p] = "sleep" /\ Advances(p) /\ UNCHANGED <<sems, shm>>

Start(p) == pc[p] = "P" /\ Semop(p, start_of(p)) /\ Advances(p) /\ UNCHANGED shm

\* A handled SIGINT makes a semop that waits return EINTR.
Interrupted(p) == prog.flag.handled /\ Waiting(p) /\ QuitsInterrupted(p) /\ SemUndo(p)

\* semop returns -1: EINTR after SIGSTOP and SIGCONT, or no such set.
SemopFails(p) ==
    /\ \/ pc[p] = "eintr"
       \/ pc[p] \in Stopping \cup {"P"} /\ removed
    /\ Quits(p) /\ SemUndo(p)

Read(p) == pc[p] = "read" /\ Advances(p) /\ UNCHANGED <<sems, shm>>

Load(p) ==
    /\ pc[p] = "load"
    /\ reg' = [reg EXCEPT ![p] = buf]
    /\ Advances(p)
    /\ UNCHANGED <<sems, buf, les>>

Store(p) ==
    /\ pc[p] = "store"
    /\ buf' = prog.writer.next[reg[p]]
    /\ reg' = [reg EXCEPT ![p] = prog.main.first]   \* no longer used
    /\ Advances(p)
    /\ UNCHANGED <<sems, les>>

\* les_pc.c: **ptr_prod = *ptr_alpha_now.  The third round starts two bytes
\* before the buffer, in *ptr_cons.
Put(p) ==
    /\ pc[p] = "put"
    /\ cell' = [cell EXCEPT ![ptr_prod] = cell[-1]]
    /\ Advances(p)
    /\ UNCHANGED <<sems, buf, reg, ptr_prod, ptr_cons, takes>>

\* At 'z' the pointer goes back by SIZE_BUF, not by the SIZE_BUF - 1 letters
\* since 'a': to the byte before the buffer.
AdvanceProducer(p) ==
    /\ pc[p] = "advance"
    /\ IF cell[-1] = z
       THEN ptr_prod' = ptr_prod - NLetters /\ cell' = [cell EXCEPT ![-1] = a]
       ELSE ptr_prod' = ptr_prod + 1 /\ cell' = [cell EXCEPT ![-1] = @ + 1]
    /\ Advances(p)
    /\ UNCHANGED <<sems, buf, reg, ptr_cons, takes>>

\* *ptr_cons has a letter in its highest byte, and is no address (of x86-64).
Wild == cell[-2] # NoLetter

\* Below cell[-2] are other bytes of the pointers, which may be any, and then the
\* pages before the segment, if there are any.
Take(p) ==
    /\ pc[p] = "take" /\ ~Wild
    /\ \E byte \in IF ptr_cons \in DOMAIN cell THEN {cell[ptr_cons]} ELSE Letters :
          ptr_cons' = IF byte = z THEN ptr_cons - NLetters ELSE ptr_cons + 1
    /\ takes' = takes + 1
    /\ Advances(p)
    /\ UNCHANGED <<sems, buf, reg, cell, ptr_prod>>

\* SIGSEGV: the child ends between its semops, and nothing is undone.
Segfaults(p) ==
    /\ pc[p] = "take"
    /\ Wild \/ ptr_cons \notin DOMAIN cell
    /\ Quits(p) /\ SemUndo(p)

Stop(p) ==
    /\ pc[p] \in Stopping
    /\ Semop(p, prog.ops[pc[p]])
    /\ Advances(p)
    /\ UNCHANGED shm

Handles(p) == prog.flag.handled /\ ChildHandler(p) /\ UNCHANGED <<sems, shm>>

ChildStep(p) ==
    /\ Running(p)
    /\ \/ LoopTest(p) \/ Sleep(p) \/ Start(p) \/ Interrupted(p) \/ SemopFails(p)
       \/ Read(p) \/ Load(p) \/ Store(p) \/ Put(p) \/ AdvanceProducer(p) \/ Take(p)
       \/ Segfaults(p) \/ Stop(p) \/ Handles(p)
    /\ UNCHANGED <<program, died>>

(***************************************************************************)
(* main: it forks in order, and waits for pids[0], pids[1], ... or for any *)
(* child.                                                                  *)
(***************************************************************************)
ForkNext(p) ==
    /\ Fork(p)
    /\ p = Order[Cardinality(Children \ Unborn) + 1]

WaitNext(p) ==
    /\ Wait(p)
    /\ report[p] \in prog.main.counts
    /\ prog.main.inorder => p = Order[waited + 1]

MainGoesOn ==
    /\ \/ \E p \in Children : ForkNext(p) \/ WaitNext(p)
       \/ Cleanup
       \/ prog.flag.handled /\ MainHandler
    /\ UNCHANGED <<program, sems, shm, died>>

(***************************************************************************)
(* The environment.                                                        *)
(***************************************************************************)
\* What p holds stays taken, unless the kernel undoes it.
Dies(p) ==
    /\ SemUndo(p)
    /\ died' = [died EXCEPT ![p] =
                   IF ~prog.ops.undo /\ pc[p] \in Reading \cup Writing THEN pc[p] ELSE "none"]

Killed(p) == Sigkill(p) /\ Dies(p)

\* SIGINT that is not handled ends a child wherever it is, and the parent,
\* which then removes nothing.
KilledBySigint(p) ==
    /\ ~prog.flag.handled
    /\ p \in pending /\ Running(p)
    /\ Quits(p)
    /\ Dies(p)
MainKilledBySigint ==
    /\ ~prog.flag.handled
    /\ Main \in pending /\ mpc \in {"fork", "wait", "cleanup"}
    /\ mpc' = "failed"
    /\ UNCHANGED <<pc, f_sigint, pending, stopped, report, waited, removed, env>>

Environment ==
    /\ UNCHANGED program
    /\ \/ (ForkFails \/ Sigint \/ MainKilledBySigint) /\ UNCHANGED <<sems, shm, died>>
       \/ \E p \in Children :
             \/ Killed(p) \/ KilledBySigint(p)
             \/ (Sigstop(p, Waiting(p)) \/ Sigcont(p)) /\ UNCHANGED <<sems, shm, died>>

Next ==
    \/ MainGoesOn
    \/ \E p \in Children : ChildStep(p)
    \/ Environment

Spec == Init /\ [][Next]_vars

(***************************************************************************)
(* Properties.                                                             *)
(***************************************************************************)
TypeOK ==
    /\ GroupTypeOK(Places)
    /\ program \in Programs
    /\ sem \in [Sems -> Nat]
    /\ adj \in [Children -> [Sems -> Int]]
    /\ buf \in Letters
    /\ reg \in [Writers -> Letters]
    /\ cell \in [-2 .. NLetters - 1 -> Letters]
    /\ ptr_prod \in Int /\ ptr_cons \in Int /\ takes \in Nat
    /\ died \in [Children -> Reading \cup Writing \cup {"none"}]

Holding(places) == {p \in Children : pc[p] \in places \/ died[p] \in places}

\* The readers and writers implement the lock that wr.c does, in spite of their
\* different semaphores (tmp.c 33-50, tmp_wr.c 23-47, wr_old.c 23-39, tmp_pc.c
\* 21-42), and with one increment for each writer.
Lock == INSTANCE ReadWriteLock WITH
            reading <- Holding(Reading),
            writing <- Holding({"load", "store"}),
            wrote <- Holding({"stop_write"}),
            value <- (buf - prog.main.first) % NLetters,
            NValues <- NLetters
ImplementLock == Lock!Spec

\* The semaphores are removed after every child has ended: with waitpid's
\* options 0 (tmp_wr.c 193) even if children are stopped and continued, which
\* the others take for ends, in order (tmp.c 230) or in any (wr_old.c 182), so
\* that at most two children for each SIGSTOP live on.
CleanupAfterAll ==
    /\ CleanupLast
    /\ program = "tmp_wr" => WaitsForEnds

\* With SEM_UNDO (tmp_wr.c 23-47) nobody waits for the dead: when nobody who
\* lives is inside, the semaphores are as at the start, whoever was killed where.
NothingKeptByTheDead ==
    /\ program = "tmp_wr" /\ ~removed
    /\ \A p \in Children : pc[p] \notin Reading \cup Writing
    => sem = prog.sems

\* "The loop lasts until a signal comes, reading the alphabet round and round"
\* (les_pc.c 102, and 55 of printing it).
LastsUntilSignal ==
    sigints = 0 /\ "SIGKILL" \notin Faults => \A p \in Children : pc[p] # "gone"

\* What holds instead: the consumers read the first round, and the second but
\* for its first letter, where *ptr_cons is one byte too low and they read the
\* letter that the producers will store next (les_pc.c 74, 118).  When that is
\* 'z', or when the producers have come round into *ptr_cons, which is not
\* before, the pointer is lost.  Nobody reads a third round, and the producers
\* go no lower.
AlphabetButOneLetter ==
    /\ takes <= 2 * NLetters
    /\ \A p \in Readers : pc[p] = "take" =>
          /\ takes <= NLetters => ptr_cons \in DOMAIN cell /\ ~Wild
          /\ ptr_cons \in DOMAIN cell /\ ~Wild =>
                cell[ptr_cons] = IF takes = NLetters THEN cell[-1] ELSE takes % NLetters
    /\ \A p \in Writers : pc[p] = "put" => ptr_prod \in DOMAIN cell

(***************************************************************************)
(* The inductive invariant of the proofs.                                  *)
(***************************************************************************)
LockPrograms == {"tmp", "tmp_wr", "wr_old", "tmp_pc"}

\* A child is at a place of its own loop, and dies holding something only
\* where nothing is undone.
PlacesInv ==
    \A p \in Children :
        /\ pc[p] \in ToSet(loop(p)) \cup {"unborn", "loop", "eintr", "gone"}
        /\ died[p] # "none" => pc[p] = "gone" /\ ~prog.ops.undo

\* The semaphores when r readers and w writers are inside.
SemsWith(r, w) ==
    CASE program = "tmp" ->
            [s \in 0 .. 4 |-> IF s = 0 THEN 1 - w ELSE IF s = 1 THEN w ELSE IF s = 2 THEN r ELSE 0]
      [] program = "tmp_wr" ->
            [s \in 0 .. 4 |-> IF s = 1 THEN r ELSE IF s = 3 THEN 1 - w ELSE IF s = 4 THEN w ELSE 0]
      [] program = "wr_old" ->
            [s \in 0 .. 3 |-> IF s = 0 THEN w ELSE IF s = 1 THEN r ELSE 0]
      [] OTHER ->
            [s \in 0 .. 4 |-> IF s = 0 THEN r ELSE IF s = 3 THEN w ELSE IF s = 4 THEN 1 - w ELSE 0]

\* With SEM_UNDO a child's adjustment is what it has taken and not given back.
Taken(p) ==
    LET r == IF pc[p] \in Reading THEN 1 ELSE 0
        w == IF pc[p] \in Writing THEN 1 ELSE 0
    IN  [s \in Sems |-> IF prog.ops.undo THEN SemsWith(0, 0)[s] - SemsWith(r, w)[s] ELSE 0]
AdjInv == \A p \in Children : adj[p] = Taken(p)

\* A writer is alone, the semaphores count who is inside, and the letter a
\* writer has loaded is still the shared one when it stores the next.
LockInv ==
    program \in LockPrograms =>
        /\ \A p \in Holding(Writing) : Holding(Writing) = {p} /\ Holding(Reading) = {}
        /\ ~removed => sem = SemsWith(Cardinality(Holding(Reading)), Cardinality(Holding(Writing)))
        /\ \A p \in Writers : pc[p] = "store" => reg[p] = buf
        /\ buf \in prog.main.first .. z

\* les_pc.c: where a pointer is after k letters, and what the cells then hold.
PlaceOf(k) ==
    IF k < NLetters THEN k
    ELSE IF k < 2 * NLetters THEN k - NLetters - 1
    ELSE IF k < 3 * NLetters THEN k - 2 * NLetters - 2 ELSE -3
CellAfter(k, i) ==
    IF i + NLetters + 1 < k THEN i + 1 ELSE IF i < k THEN i ELSE NoLetter

Producing == {"put", "advance", "stop_produce"}
Consuming == {"take", "stop_consume"}
InBuffer == {p \in Children : pc[p] \in Producing \cup Consuming}

\* les_pc.c: BIN_SEM lets one child in, and one that is killed keeps it out of
\* reach for ever.  Until then k letters were stored, and the other two
\* semaphores count the cells; the first letter of the third round makes
\* *ptr_cons wild, and before a consumer may have gone astray below the cells.
Stored(k) ==
    LET advancing == \E p \in Writers : pc[p] = "advance"
        full == k - takes
        empty == NLetters - full
    IN  /\ takes <= k
        /\ cell[-1] = k % NLetters /\ ptr_prod = PlaceOf(k)
        /\ Wild <=> k > 2 * NLetters \/ (k = 2 * NLetters /\ advancing)
        /\ ~Wild => \A i \in 0 .. NLetters - 1 :
              cell[i] = CellAfter(IF advancing THEN k + 1 ELSE k, i)
        /\ \/ ptr_cons = PlaceOf(takes)
           \/ takes > NLetters /\ ptr_cons <= takes - 2 * NLetters - 2
        /\ sem[0] = 1 => sem[1] = full /\ sem[2] = empty
        /\ \A p \in Children :
              /\ pc[p] \in {"put", "advance", "stop_consume"} => sem[1] = full /\ sem[2] = empty - 1
              /\ pc[p] \in {"stop_produce", "take"} => sem[1] = full - 1 /\ sem[2] = empty
              /\ pc[p] = "advance" => k < 3 * NLetters
BufferInv ==
    /\ program # "les_pc" => takes = 0
    /\ program = "les_pc" =>
        /\ sem[0] \in {0, 1} /\ takes <= 2 * NLetters
        /\ \A p \in InBuffer : InBuffer = {p} /\ sem[0] = 0
        /\ sem[0] = 1 \/ InBuffer # {} => \E k \in 0 .. 3 * NLetters : Stored(k)

DraftsCountInv ==
    /\ CountInv
    /\ program = "tmp_wr" => EndsCounted

DraftsInv == PlacesInv /\ AdjInv /\ LockInv /\ BufferInv /\ DraftsCountInv
=============================================================================
