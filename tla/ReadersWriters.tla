--------------------------- MODULE ReadersWriters ---------------------------
(***************************************************************************)
(* os_lab_4/wr/src/wr.c: readers and writers of one shared byte.  The four *)
(* procedures of Hoare's monitor are one semop each on a set of five       *)
(* semaphores, without SEM_UNDO.                                           *)
(***************************************************************************)
EXTENDS SysVSem, ProcessGroup

CONSTANT NLetters  \* letters of the alphabet

ASSUME LettersAssumption == NLetters \in Nat \ {0}

Writers == FirstForked
Readers == ThenForked

(***************************************************************************)
(* The semaphores and the arrays of operations.                            *)
(***************************************************************************)
active_writer == 0
numb_of_readers == 1
writers_queue == 2
readers_queue == 3
bin_sem == 4
Sems == 0 .. 4

\* Mutant: readers do not wait for the active writer.
start_read_unchecked ==
    <<Sembuf(readers_queue, 1), Sembuf(writers_queue, 0), Sembuf(writers_queue, 0),
      Sembuf(numb_of_readers, 1), Sembuf(readers_queue, -1)>>
start_read ==
    <<Sembuf(readers_queue, 1), Sembuf(active_writer, 0), Sembuf(writers_queue, 0),
      Sembuf(numb_of_readers, 1), Sembuf(readers_queue, -1)>>

stop_read == <<Sembuf(numb_of_readers, -1)>>

start_write ==
    <<Sembuf(writers_queue, 1), Sembuf(numb_of_readers, 0), Sembuf(bin_sem, -1),
      Sembuf(active_writer, 1), Sembuf(writers_queue, -1)>>

\* Mutant: the writer does not free the binary semaphore.
stop_write_keeping == <<Sembuf(active_writer, -1), Sembuf(active_writer, 0)>>
stop_write == <<Sembuf(active_writer, -1), Sembuf(bin_sem, 1)>>

VARIABLES
    sem,   \* the values of the semaphores
    buf,   \* *buf, 0 for 'a'
    reg,   \* the value of *buf a writer has loaded
    died   \* where a child was killed between its semops, if it was (history)

shm == <<buf, reg>>
vars == <<group, sem, buf, reg, died>>

Letters == 0 .. NLetters - 1
Reading == {"read", "stop_read"}
Writing == {"load", "store", "stop_write"}
Places == Reading \cup Writing \cup {"unborn", "loop", "sleep", "P", "eintr", "gone"}

(***************************************************************************)
(* main, up to the first fork.                                             *)
(***************************************************************************)
Init ==
    /\ GroupInit
    /\ sem = [s \in Sems |-> IF s = bin_sem THEN 1 ELSE 0]
    /\ buf = 0
    /\ reg = [p \in Writers |-> 0]
    /\ died = [p \in Children |-> "none"]

(***************************************************************************)
(* The procedures of the monitor.                                          *)
(***************************************************************************)
start_of(p) == IF p \in Writers THEN start_write ELSE start_read
CanStart(p) == ~removed /\ Ready5(sem, start_of(p))
Waiting(p) == pc[p] = "P" /\ ~CanStart(p)

\* semop(semid, start_write, 5), semop(semid, start_read, 5)
Start(p) ==
    /\ pc[p] = "P" /\ CanStart(p)
    /\ sem' = After5(sem, start_of(p))
    /\ Moves(p, IF p \in Writers THEN "load" ELSE "read")
    /\ UNCHANGED <<shm, died>>

Interrupted(p) == Waiting(p) /\ QuitsInterrupted(p) /\ UNCHANGED <<sem, shm, died>>

\* semop returns -1: EINTR after SIGSTOP and SIGCONT, or no such set.
SemopFails(p) ==
    /\ \/ pc[p] = "eintr"
       \/ pc[p] \in {"P", "stop_read", "stop_write"} /\ removed
    /\ Quits(p)
    /\ UNCHANGED <<sem, shm, died>>

\* printf of *buf
Read(p) == pc[p] = "read" /\ Moves(p, "stop_read") /\ UNCHANGED <<sem, shm, died>>

\* semop(semid, stop_read, 1)
StopRead(p) ==
    /\ pc[p] = "stop_read" /\ ~removed
    /\ Ready(sem, stop_read[1])
    /\ sem' = Apply(sem, stop_read[1])
    /\ Moves(p, "loop")
    /\ UNCHANGED <<shm, died>>

\* (*buf)++, or from 'z' to 'a': a load and a store.
Load(p) ==
    /\ pc[p] = "load"
    /\ reg' = [reg EXCEPT ![p] = buf]
    /\ Moves(p, "store")
    /\ UNCHANGED <<sem, buf, died>>

\* Mutant: after 'z' comes what follows it in the character set.
StoreNoWrap(p) ==
    /\ pc[p] = "store"
    /\ buf' = reg[p] + 1
    /\ Moves(p, "stop_write")
    /\ UNCHANGED <<sem, reg, died>>
Store(p) ==
    /\ pc[p] = "store"
    /\ buf' = IF reg[p] = NLetters - 1 THEN 0 ELSE reg[p] + 1
    /\ Moves(p, "stop_write")
    /\ reg' = [reg EXCEPT ![p] = 0]   \* dead from here on
    /\ UNCHANGED <<sem, died>>

\* semop(semid, stop_write, 2)
StopWrite(p) ==
    /\ pc[p] = "stop_write" /\ ~removed
    /\ Ready2(sem, stop_write)
    /\ sem' = After2(sem, stop_write)
    /\ Moves(p, "loop")
    /\ UNCHANGED <<shm, died>>

(***************************************************************************)
(* The loops of reader and writer, the program and its environment.        *)
(***************************************************************************)
ChildStep(p) ==
    /\ Running(p)
    /\ \/ (LoopAgain(p) \/ LoopEnds(p) \/ Wake(p) \/ ChildHandler(p)) /\ UNCHANGED <<sem, shm, died>>
       \/ Start(p) \/ Interrupted(p) \/ SemopFails(p)
       \/ Read(p) \/ StopRead(p)
       \/ Load(p) \/ Store(p) \/ StopWrite(p)

\* Nothing is undone: what a killed child held stays taken.
Killed(p) ==
    /\ Sigkill(p)
    /\ died' = [died EXCEPT ![p] = IF pc[p] \in Reading \cup Writing THEN pc[p] ELSE "none"]
    /\ UNCHANGED <<sem, shm>>

Environment ==
    \/ (ForkFails \/ Sigint) /\ UNCHANGED <<sem, shm, died>>
    \/ \E p \in Children :
          \/ Killed(p)
          \/ (Sigstop(p, Waiting(p)) \/ Sigcont(p)) /\ UNCHANGED <<sem, shm, died>>

Next ==
    \/ MainStep /\ UNCHANGED <<sem, shm, died>>
    \/ \E p \in Children : ChildStep(p)
    \/ Environment

Spec == Init /\ [][Next]_vars

(***************************************************************************)
(* The scheduler runs every process that is ready, sleep returns, a child  *)
(* that comes by places where a pending signal is handled handles it, and  *)
(* the parent goes on; a fork that fails and signals are never owed.       *)
(***************************************************************************)
FairSpec ==
    /\ Spec
    /\ \A p \in Children :
          /\ WF_vars(ChildStep(p))
          /\ SF_vars(Running(p) /\ ChildHandler(p) /\ UNCHANGED <<sem, shm, died>>)
    /\ WF_vars(MainStep /\ UNCHANGED <<sem, shm, died>>)

(***************************************************************************)
(* Properties.                                                             *)
(***************************************************************************)
TypeOK ==
    /\ GroupTypeOK(Places)
    /\ sem \in [Sems -> Nat]
    /\ buf \in Letters
    /\ reg \in [Writers -> Letters]
    /\ died \in [Children -> Reading \cup Writing \cup {"none"}]

\* Who is at one of the places, or was when it was killed.
Holding(places) == {p \in Children : pc[p] \in places \/ died[p] \in places}

\* A writer between its semops is alone there, and readers are only with
\* readers (wr.c 58, 81-84), a child killed there included: nothing gives back
\* what it holds.
Exclusion ==
    /\ \A p, q \in Holding(Writing) : p = q
    /\ Holding(Writing) # {} => Holding(Reading) = {}

\* Each semop is all or nothing, so that what it adds to a queue it has taken
\* back before anyone can see it: readers never see a waiting writer
\* (writers_queue, wr.c 25, 32, 36) nor writers a waiting reader.
QueuesNeverSeen == sem[writers_queue] = 0 /\ sem[readers_queue] = 0

\* The semaphores say who is inside (until they are removed).
SemaphoresTell ==
    ~removed =>
        /\ sem[numb_of_readers] = Cardinality(Holding(Reading))
        /\ sem[active_writer] = IF Holding(Writing) = {} THEN 0 ELSE 1
        /\ sem[bin_sem] = 1 - sem[active_writer]

\* The value and the holders seen as a lock.
Lock == INSTANCE ReadWriteLock WITH
            reading <- Holding(Reading),
            writing <- Holding({"load", "store"}),
            wrote <- Holding({"stop_write"}),
            value <- buf,
            NValues <- NLetters

\* The program implements the lock, with its one increment per writer: no
\* update is lost, in spite of every signal.
ImplementsLock == Lock!Spec

\* Ctrl-C ends the program: every child leaves its loop or its semop and the
\* parent removes the semaphores, if every fork succeeds and no child is killed
\* between its semops or stays stopped.
Shutdown ==
    /\ [](mpc # "failed" /\ \A p \in Children : died[p] = "none")
    /\ []<>(stopped = {})
    => ((sigints > 0) ~> (mpc = "done"))

\* Nobody is shut out by everybody else waiting, unless a fork fails or a child
\* stays stopped.
SomebodyEnters == []<>(mpc \in {"done", "failed"} \/ stopped # {} \/ Holding(Reading \cup Writing) # {})

(***************************************************************************)
(* The inductive invariant of the proofs: besides the above, only a child  *)
(* that has ended has died, and a writer about to store has loaded what is *)
(* still there.                                                            *)
(***************************************************************************)
DeadAreGone == \A p \in Children : died[p] # "none" => pc[p] = "gone"
RolesKept ==
    \A p \in Children :
        /\ pc[p] \in Writing \/ died[p] \in Writing => p \in Writers
        /\ pc[p] \in Reading \/ died[p] \in Reading => p \in Readers
LoadedIsCurrent == \A p \in Writers : pc[p] = "store" => reg[p] = buf

IInv ==
    /\ TypeOK
    /\ Exclusion
    /\ SemaphoresTell
    /\ QueuesNeverSeen
    /\ DeadAreGone
    /\ RolesKept
    /\ LoadedIsCurrent
=============================================================================
