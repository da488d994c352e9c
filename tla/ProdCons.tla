------------------------------ MODULE ProdCons ------------------------------
(***************************************************************************)
(* os_lab_4/pc/src/pc.c: producers and consumers that share a buffer in    *)
(* System V shared memory, guarded by three System V semaphores whose      *)
(* every operation has SEM_UNDO.                                           *)
(***************************************************************************)
EXTENDS SysVSem, ProcessGroup

CONSTANTS
    N_BUF,      \* the initial value of BEMPTY
    PageSlots,  \* bytes from the first slot to the end of the mapped page
    NLetters    \* letters of the alphabet

ASSUME BufferAssumption ==
    /\ N_BUF \in Nat \ {0}
    /\ PageSlots \in Nat
    /\ NLetters \in Nat \ {0}

Producers == FirstForked
Consumers == ThenForked

(***************************************************************************)
(* The semaphores and the arrays of operations.                            *)
(***************************************************************************)
BINARY == 0
BEMPTY == 1
BFULL == 2
Sems == {BINARY, BEMPTY, BFULL}

P == -1
V == 1

\* Mutant: V of the binary semaphore where P is meant.
PprodUnlocked == <<Sembuf(BEMPTY, P), Sembuf(BINARY, V)>>
\* Mutant: the producer does not wait for an empty slot.
PprodUnbounded == <<Sembuf(BINARY, P), Sembuf(BEMPTY, V)>>
Pprod == <<Sembuf(BEMPTY, P), Sembuf(BINARY, P)>>

\* Mutant: a finished producer announces an empty slot, not a full one.
VprodToEmpty == <<Sembuf(BINARY, V), Sembuf(BEMPTY, V)>>
Vprod == <<Sembuf(BINARY, V), Sembuf(BFULL, V)>>

Pcons == <<Sembuf(BFULL, P), Sembuf(BINARY, P)>>

\* Mutant: a finished consumer announces a full slot, not an empty one.
VconsToFull == <<Sembuf(BINARY, V), Sembuf(BFULL, V)>>
Vcons == <<Sembuf(BINARY, V), Sembuf(BEMPTY, V)>>

VARIABLES
    sem,       \* the values of the semaphores
    adj,       \* SEM_UNDO adjustment of each child
    prod_ptr,  \* *prod_ptr, as an offset from the first slot
    cons_ptr,  \* *cons_ptr
    alfa,      \* *alfa, 0 for 'a'
    buf        \* the bytes of the page from the first slot on

sems == <<sem, adj>>
shm == <<prod_ptr, cons_ptr, alfa, buf>>
vars == <<group, sems, shm>>

Letters == 0 .. NLetters - 1
\* The zero byte of a fresh page.
NoLetter == -1

\* The places between the two semops of a child.
ProducerCS == {"write", "advance", "letter", "Vprod"}
ConsumerCS == {"read", "take", "Vcons"}
Critical == ProducerCS \cup ConsumerCS
Places == Critical \cup {"unborn", "loop", "sleep", "P", "eintr", "gone"}

(***************************************************************************)
(* main, up to the first fork.                                             *)
(***************************************************************************)
Init ==
    /\ GroupInit
    /\ sem = [s \in Sems |-> IF s = BINARY THEN 1 ELSE IF s = BEMPTY THEN N_BUF ELSE 0]
    /\ adj = [p \in Children |-> [s \in Sems |-> 0]]
    /\ prod_ptr = 0
    /\ cons_ptr = 0
    /\ alfa = 0
    /\ buf = [i \in 0 .. PageSlots - 1 |-> NoLetter]

(***************************************************************************)
(* The end of a child: the kernel undoes what it did to the semaphores, if *)
(* they still exist.                                                       *)
(***************************************************************************)
\* Mutant: the operations are made without SEM_UNDO.
NoUndo(p) == UNCHANGED sems /\ UNCHANGED shm
SemUndo(p) ==
    /\ sem' = IF removed THEN sem ELSE Undo(sem, adj[p])
    /\ adj' = [adj EXCEPT ![p] = [s \in Sems |-> 0]]
    /\ UNCHANGED shm

\* errExit, exit, or a fatal signal.
Exit(p) == Quits(p) /\ SemUndo(p)

(***************************************************************************)
(* semop: it can be carried out at once, or the process waits in it, or    *)
(* there is no such set any more.                                          *)
(***************************************************************************)
CanSemop(a) == ~removed /\ Ready2(sem, a)

Semop(p, a) ==
    /\ CanSemop(a)
    /\ sem' = After2(sem, a)
    /\ adj' = [adj EXCEPT ![p] = Adjust2(@, a)]

ParrayOf(p) == IF p \in Producers THEN Pprod ELSE Pcons
Waiting(p) == pc[p] = "P" /\ ~CanSemop(ParrayOf(p))

\* Pprod in producer, Pcons in consumer.
Enter(p) ==
    /\ pc[p] = "P"
    /\ Semop(p, ParrayOf(p))
    /\ Moves(p, IF p \in Producers THEN "write" ELSE "read")
    /\ UNCHANGED shm

Interrupted(p) == Waiting(p) /\ QuitsInterrupted(p) /\ SemUndo(p)

\* semop returns -1: EINTR after SIGSTOP and SIGCONT, or no such set.
SemopFails(p) ==
    /\ \/ pc[p] = "eintr"
       \/ pc[p] \in {"P", "Vprod", "Vcons"} /\ removed
    /\ Exit(p)

(***************************************************************************)
(* The producer between its semops.                                        *)
(***************************************************************************)
Write(p) ==
    /\ pc[p] = "write" /\ prod_ptr < PageSlots
    /\ buf' = [buf EXCEPT ![prod_ptr] = alfa]
    /\ Moves(p, "advance")
    /\ UNCHANGED <<sems, prod_ptr, cons_ptr, alfa>>

\* The pointer is never taken back to the first slot: past the page the
\* store is a SIGSEGV.
WriteFaults(p) == pc[p] = "write" /\ prod_ptr >= PageSlots /\ Exit(p)

\* Mutant: two bytes further.
AdvanceTwice(p) ==
    /\ pc[p] = "advance"
    /\ prod_ptr' = prod_ptr + 2
    /\ Moves(p, "letter")
    /\ UNCHANGED <<sems, cons_ptr, alfa, buf>>
Advance(p) ==
    /\ pc[p] = "advance"
    /\ prod_ptr' = prod_ptr + 1
    /\ Moves(p, "letter")
    /\ UNCHANGED <<sems, cons_ptr, alfa, buf>>

\* Mutant: after 'z' comes what follows it in the character set.
LetterNoWrap(p) ==
    /\ pc[p] = "letter"
    /\ alfa' = alfa + 1
    /\ Moves(p, "Vprod")
    /\ UNCHANGED <<sems, prod_ptr, cons_ptr, buf>>
Letter(p) ==
    /\ pc[p] = "letter"
    /\ alfa' = IF alfa = NLetters - 1 THEN 0 ELSE alfa + 1
    /\ Moves(p, "Vprod")
    /\ UNCHANGED <<sems, prod_ptr, cons_ptr, buf>>

LeaveProducer(p) == pc[p] = "Vprod" /\ Semop(p, Vprod) /\ Moves(p, "loop") /\ UNCHANGED shm

(***************************************************************************)
(* The consumer between its semops.                                        *)
(***************************************************************************)
Read(p) == pc[p] = "read" /\ cons_ptr < PageSlots /\ Moves(p, "take") /\ UNCHANGED <<sems, shm>>

ReadFaults(p) == pc[p] = "read" /\ cons_ptr >= PageSlots /\ Exit(p)

Take(p) ==
    /\ pc[p] = "take"
    /\ cons_ptr' = cons_ptr + 1
    /\ Moves(p, "Vcons")
    /\ UNCHANGED <<sems, prod_ptr, alfa, buf>>

LeaveConsumer(p) == pc[p] = "Vcons" /\ Semop(p, Vcons) /\ Moves(p, "loop") /\ UNCHANGED shm

(***************************************************************************)
(* The loops of producer and consumer, the program and its environment.    *)
(***************************************************************************)
ChildStep(p) ==
    /\ Running(p)
    /\ \/ (LoopAgain(p) \/ Wake(p) \/ ChildHandler(p)) /\ UNCHANGED <<sems, shm>>
       \/ LoopEnds(p) /\ SemUndo(p)
       \/ Enter(p) \/ Interrupted(p) \/ SemopFails(p)
       \/ Write(p) \/ WriteFaults(p) \/ Advance(p) \/ Letter(p) \/ LeaveProducer(p)
       \/ Read(p) \/ ReadFaults(p) \/ Take(p) \/ LeaveConsumer(p)

Environment ==
    \/ (ForkFails \/ Sigint) /\ UNCHANGED <<sems, shm>>
    \/ \E p \in Children :
          \/ Sigkill(p) /\ SemUndo(p)
          \/ (Sigstop(p, Waiting(p)) \/ Sigcont(p)) /\ UNCHANGED <<sems, shm>>

Next ==
    \/ MainStep /\ UNCHANGED <<sems, shm>>
    \/ \E p \in Children : ChildStep(p)
    \/ Environment

Spec == Init /\ [][Next]_vars

(***************************************************************************)
(* The scheduler runs every process that is ready, sleep returns, and the  *)
(* parent goes on; a fork that fails and signals are never owed.           *)
(***************************************************************************)
FairSpec ==
    /\ Spec
    /\ \A p \in Children : WF_vars(ChildStep(p))
    /\ WF_vars(MainStep /\ UNCHANGED <<sems, shm>>)

(***************************************************************************)
(* Properties.                                                             *)
(***************************************************************************)
TypeOK ==
    /\ GroupTypeOK(Places)
    /\ sem \in [Sems -> Nat]
    /\ adj \in [Children -> [Sems -> Int]]
    /\ prod_ptr \in Nat
    /\ cons_ptr \in Nat
    /\ alfa \in Letters
    /\ buf \in [0 .. PageSlots - 1 -> Letters \cup {NoLetter}]

InCS == {p \in Children : pc[p] \in Critical}

\* At most one process is between its two semops, where *prod_ptr, *cons_ptr
\* and *alfa are read and written without any other protection (pc.c 49-55,
\* 72-73), whatever signals end, stop or interrupt the processes.
MutualExclusion == \A p, q \in InCS : p = q

\* The binary semaphore is free exactly when nobody is between its semops: a
\* process killed there gives it back (SEM_UNDO, pc.c 27-30).
LockRecovered == ~removed => sem[BINARY] = IF InCS = {} THEN 1 ELSE 0

\* As long as no process has ended, a consumer about to read *(*cons_ptr)
\* (pc.c 72) finds a byte some producer stored and nobody has taken.
ReadsOnlyProduced ==
    \A p \in Children : NobodyGone /\ pc[p] = "read" => cons_ptr < prod_ptr

\* As long as no process has ended, the stored and not yet taken bytes, with
\* the one being stored, are at most the N_BUF that BEMPTY promises.
BufferBound ==
    NobodyGone =>
        prod_ptr - cons_ptr + (IF \E p \in Children : pc[p] = "write" THEN 1 ELSE 0) <= N_BUF

\* No byte before *prod_ptr is one that nobody stored: a producer killed
\* between its semops leaves no hole.
NoHoles == \A i \in 0 .. prod_ptr - 1 : buf[i] # NoLetter

\* As long as no process has ended, the stored bytes are the letters in
\* alphabetical order, again and again, in spite of signals (pc.c 49-55).
LettersInOrder == NobodyGone => \A i \in 0 .. prod_ptr - 1 : buf[i] = i % NLetters

\* Without signals, everything stored is taken in the end, up to the last
\* N_BUF slots of the page.
ItemsConsumed ==
    [](sigints = 0) =>
        \A i \in 0 .. PageSlots - N_BUF - 1 : (prod_ptr > i) ~> (cons_ptr > i)

\* Without signals, the program does not run for ever: *prod_ptr is never
\* taken back to the first slot (pc.c 51), so that a producer reaches the end
\* of the page in the end and is killed by SIGSEGV.
PageRunsOut == [](sigints = 0) => <>(\E p \in Producers : pc[p] = "gone")

\* Ctrl-C ends the program, or else some child that has taken the signal went
\* on to its semop, which only peers that have ended could let through, and the
\* parent waits for it (pc.c 41-47, 134-153); no child misses the signal.
StopsUnlessStarved ==
    (sigints > 0) ~> [](mpc = "done" \/ \E p \in Children : Waiting(p) /\ f_sigint[p] = 0)

(***************************************************************************)
(* The inductive invariants of the proofs.  The lock: who holds the binary *)
(* semaphore shows in what the kernel would undo, one operation of the     *)
(* process between its semops and none of any other.                       *)
(***************************************************************************)
UndoOwed == \A p \in Children : adj[p][BINARY] = IF p \in InCS THEN 1 ELSE 0

LockInv == MutualExclusion /\ LockRecovered /\ UndoOwed

\* The buffer, up to the first end of a process: BFULL counts the stored bytes
\* nobody has taken, but for the one the process inside is about to store or
\* to take; a slot is neither empty nor full while a process is inside with it.
BufferInv ==
    NobodyGone =>
      /\ InCS = {} => /\ sem[BFULL] = prod_ptr - cons_ptr
                      /\ sem[BEMPTY] + sem[BFULL] = N_BUF
      /\ \A p \in InCS :
            /\ sem[BEMPTY] + sem[BFULL] = N_BUF - 1
            /\ pc[p] \in {"write", "advance", "Vcons"} => sem[BFULL] = prod_ptr - cons_ptr
            /\ pc[p] \in {"letter", "Vprod", "read", "take"} =>
                  sem[BFULL] = prod_ptr - cons_ptr - 1

\* The page: the slot a producer has filled and not yet left behind holds a
\* letter.
PageInv ==
    /\ prod_ptr <= PageSlots
    /\ NoHoles
    /\ \A p \in Children : pc[p] = "advance" => prod_ptr < PageSlots /\ buf[prod_ptr] # NoLetter

\* The alphabet, up to the first end of a process: *alfa is the letter of the
\* slot at *prod_ptr, but between the two increments.
AlphabetInv ==
    NobodyGone =>
      /\ (\A p \in Children : pc[p] # "letter") => alfa = prod_ptr % NLetters
      /\ \A p \in Children :
            /\ pc[p] = "advance" => buf[prod_ptr] = alfa
            /\ pc[p] = "letter" => prod_ptr > 0 /\ alfa = (prod_ptr - 1) % NLetters
      /\ \A i \in 0 .. prod_ptr - 1 : buf[i] = i % NLetters
=============================================================================
