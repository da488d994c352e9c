------------------------------- MODULE WinRW -------------------------------
(***************************************************************************)
(* lab_win/winwr.c: readers and writers as threads of one Windows process, *)
(* with interlocked counters, an auto-reset event can_read, a manual-reset *)
(* event can_write and a mutex.  Every access to a shared variable is a    *)
(* step.  Ctrl-C ends the loops.                                           *)
(*                                                                         *)
(* A thread that waits for an event stays where it is: it goes on when it  *)
(* is no longer among the waiting.  Left out: the letter in buf, the sleep *)
(* and failures of the Create calls, which end the program before it       *)
(* starts.                                                                 *)
(***************************************************************************)
EXTENDS Integers, FiniteSets, WinEvent

CONSTANTS Readers, Writers  \* the threads

ASSUME WinRWAssumption == IsFiniteSet(Readers) /\ IsFiniteSet(Writers) /\ Readers \cap Writers = {}

Threads == Readers \cup Writers

VARIABLES
    at,              \* where each thread is
    counters,        \* the four interlocked variables
    can_read, can_write,
    mutex,           \* the thread that owns it, if any
    f_sigint,
    main             \* where main is

readers_queue == counters["readers_queue"]
writers_queue == counters["writers_queue"]
active_readers == counters["active_readers"]
active_writer == counters["active_writer"]
Counters == {"readers_queue", "writers_queue", "active_readers", "active_writer"}

events == <<can_read, can_write>>
vars == <<at, counters, events, mutex, f_sigint, main>>

Init ==
    /\ at = [t \in Threads |-> "while"]
    /\ counters = [c \in Counters |-> 0]
    /\ can_read = [signalled |-> FALSE, waiting |-> {}]
    /\ can_write = [signalled |-> FALSE, waiting |-> {}]
    /\ mutex = {}
    /\ f_sigint = 1
    /\ main = "wait"

Waits(t) == t \in can_read.waiting \cup can_write.waiting

Goto(t, from, to) == at[t] = from /\ ~Waits(t) /\ at' = [at EXCEPT ![t] = to]
Pass(t, from, to) == Goto(t, from, to) /\ UNCHANGED <<counters, events, mutex, f_sigint, main>>

InterlockedIncrement(c) == counters' = [counters EXCEPT ![c] = @ + 1] /\ UNCHANGED <<events, mutex, f_sigint, main>>
InterlockedDecrement(c) == counters' = [counters EXCEPT ![c] = @ - 1] /\ UNCHANGED <<events, mutex, f_sigint, main>>

\* while (f_sigint), of a reader or a writer.
While(t) ==
    Pass(t, "while", IF f_sigint = 0 THEN "return" ELSE IF t \in Readers THEN "start_read" ELSE "start_write")

(***************************************************************************)
(* start_read and stop_read.                                               *)
(***************************************************************************)
QueueReader(r) == Goto(r, "start_read", "if active_writer") /\ InterlockedIncrement("readers_queue")

TestActiveWriter(r) == Pass(r, "if active_writer", IF active_writer # 0 THEN "wait can_read" ELSE "if writers_queue")
TestWritersQueue(r) == Pass(r, "if writers_queue", IF writers_queue # 0 THEN "wait can_read" ELSE "wait mutex")

WaitCanRead(r) ==
    /\ Goto(r, "wait can_read", "wait mutex")
    /\ can_read' = WaitAuto(can_read, r)
    /\ UNCHANGED <<counters, can_write, mutex, f_sigint, main>>

WaitMutex(r) ==
    /\ mutex = {} /\ mutex' = {r}
    /\ Goto(r, "wait mutex", "unqueue")
    /\ UNCHANGED <<counters, events, f_sigint, main>>

UnqueueReader(r) == Goto(r, "unqueue", "activate") /\ InterlockedDecrement("readers_queue")

ActivateReader(r) == Goto(r, "activate", "set can_read") /\ InterlockedIncrement("active_readers")

\* Mutant: the next reader is not let in.
SetCanReadForgotten(r) == Pass(r, "set can_read", "release mutex")
SetCanRead(r) ==
    /\ Goto(r, "set can_read", "release mutex")
    /\ can_read' \in SetAuto(can_read)
    /\ UNCHANGED <<counters, can_write, mutex, f_sigint, main>>

ReleaseMutex(r) ==
    /\ Goto(r, "release mutex", "read")
    /\ mutex' = {}
    /\ UNCHANGED <<counters, events, f_sigint, main>>

Read(r) == Pass(r, "read", "stop_read")

\* Mutant: the other counter of readers.
StopReaderQueue(r) == Goto(r, "stop_read", "if no readers") /\ InterlockedDecrement("readers_queue")
StopReader(r) == Goto(r, "stop_read", "if no readers") /\ InterlockedDecrement("active_readers")

TestNoReaders(r) == Pass(r, "if no readers", IF active_readers = 0 THEN "set can_write" ELSE "while")

\* The last step of stop_read, and of stop_write with no reader queued.
SetCanWrite(t) ==
    /\ Goto(t, "set can_write", "while")
    /\ can_write' = SetManual(can_write)
    /\ UNCHANGED <<counters, can_read, mutex, f_sigint, main>>

(***************************************************************************)
(* start_write and stop_write.                                             *)
(***************************************************************************)
QueueWriter(w) == Goto(w, "start_write", "if active_readers") /\ InterlockedIncrement("writers_queue")

TestActiveReaders(w) == Pass(w, "if active_readers", IF active_readers # 0 THEN "wait can_write" ELSE "if a writer")
TestAnotherWriter(w) == Pass(w, "if a writer", IF active_writer # 0 THEN "wait can_write" ELSE "unqueue writer")

WaitCanWrite(w) ==
    /\ Goto(w, "wait can_write", "unqueue writer")
    /\ can_write' = WaitManual(can_write, w)
    /\ UNCHANGED <<counters, can_read, mutex, f_sigint, main>>

UnqueueWriter(w) == Goto(w, "unqueue writer", "activate writer") /\ InterlockedDecrement("writers_queue")

ActivateWriter(w) == Goto(w, "activate writer", "write") /\ InterlockedIncrement("active_writer")

Write(w) == Pass(w, "write", "stop_write")

StopWriter(w) == Goto(w, "stop_write", "reset can_write") /\ InterlockedDecrement("active_writer")

ResetCanWrite(w) ==
    /\ Goto(w, "reset can_write", "if readers_queue")
    /\ can_write' = Reset(can_write)
    /\ UNCHANGED <<counters, can_read, mutex, f_sigint, main>>

\* Mutant: the test is the wrong way round.
TestReadersQueueSwapped(w) == Pass(w, "if readers_queue", IF readers_queue > 0 THEN "set can_write" ELSE "let readers")
TestReadersQueue(w) == Pass(w, "if readers_queue", IF readers_queue > 0 THEN "let readers" ELSE "set can_write")

LetReaders(w) ==
    /\ Goto(w, "let readers", "while")
    /\ can_read' \in SetAuto(can_read)
    /\ UNCHANGED <<counters, can_write, mutex, f_sigint, main>>

(***************************************************************************)
(* CtrlCHandler and main.                                                  *)
(***************************************************************************)
CtrlCHandler ==
    /\ f_sigint = 1 /\ f_sigint' = 0
    /\ UNCHANGED <<at, counters, events, mutex, main>>

\* The two WaitForMultipleObjects, first for the readers, then for the writers.
WaitForReaders ==
    /\ main = "wait" /\ main' = "wait writers"
    /\ \A r \in Readers : at[r] = "return"
    /\ UNCHANGED <<at, counters, events, mutex, f_sigint>>
WaitForWriters ==
    /\ main = "wait writers" /\ main' = "return"
    /\ \A w \in Writers : at[w] = "return"
    /\ UNCHANGED <<at, counters, events, mutex, f_sigint>>

Reader(r) ==
    \/ QueueReader(r) \/ TestActiveWriter(r) \/ TestWritersQueue(r) \/ WaitCanRead(r) \/ WaitMutex(r)
    \/ UnqueueReader(r) \/ ActivateReader(r) \/ SetCanRead(r) \/ ReleaseMutex(r)
    \/ Read(r) \/ StopReader(r) \/ TestNoReaders(r)
Writer(w) ==
    \/ QueueWriter(w) \/ TestActiveReaders(w) \/ TestAnotherWriter(w) \/ WaitCanWrite(w)
    \/ UnqueueWriter(w) \/ ActivateWriter(w) \/ Write(w)
    \/ StopWriter(w) \/ ResetCanWrite(w) \/ TestReadersQueue(w) \/ LetReaders(w)
Thread(t) == While(t) \/ Reader(t) \/ Writer(t) \/ SetCanWrite(t)
Main == WaitForReaders \/ WaitForWriters

Next == Main \/ CtrlCHandler \/ \E t \in Threads : Thread(t)

Spec == Init /\ [][Next]_vars

\* Threads and main run on; nobody has to press Ctrl-C.
FairSpec == Spec /\ WF_vars(Main) /\ \A t \in Threads : WF_vars(Thread(t))

(***************************************************************************)
(* Properties.                                                             *)
(***************************************************************************)
ReaderPlaces == {"start_read", "if active_writer", "if writers_queue", "wait can_read", "wait mutex", "unqueue",
                 "activate", "set can_read", "release mutex", "read", "stop_read", "if no readers"}
WriterPlaces == {"start_write", "if active_readers", "if a writer", "wait can_write", "unqueue writer",
                 "activate writer", "write", "stop_write", "reset can_write", "if readers_queue", "let readers"}

TypeOK ==
    /\ at \in [Threads -> ReaderPlaces \cup WriterPlaces \cup {"while", "set can_write", "return"}]
    /\ counters \in [Counters -> Int]
    /\ readers_queue \in 0 .. Cardinality(Readers) /\ active_readers \in 0 .. Cardinality(Readers)
    /\ writers_queue \in 0 .. Cardinality(Writers) /\ active_writer \in 0 .. Cardinality(Writers)
    /\ can_read \in [signalled : BOOLEAN, waiting : SUBSET Readers]
    /\ can_write \in [signalled : BOOLEAN, waiting : SUBSET Writers]
    /\ mutex \in {{}} \cup {{r} : r \in Readers}
    /\ f_sigint \in {0, 1}
    /\ main \in {"wait", "wait writers", "return"}

\* No wakeup is lost (winwr.c 34, 40-41, 54-58): some thread that has not ended
\* can go on, so that it is never the case that each of them waits for an event
\* that only another of them would set.
SomebodyRuns ==
    (\E t \in Threads : at[t] # "return") => \E t \in Threads : at[t] # "return" /\ ~Waits(t)

\* Ctrl-C ends the program: no thread is left waiting for an event (winwr.c
\* 18-25, 64, 76, 124-125).
CtrlCEnds == f_sigint = 0 ~> main = "return"

(***************************************************************************)
(* The inductive invariant of the proofs: the counters count, and whoever  *)
(* waits, or is about to, leaves behind somebody who will set the event.   *)
(***************************************************************************)
QueuedReaders == {r \in Readers : at[r] \in {"if active_writer", "if writers_queue", "wait can_read", "wait mutex",
                                            "unqueue"}}
ActiveReaders == {r \in Readers : at[r] \in {"set can_read", "release mutex", "read", "stop_read"}}
QueuedWriters == {w \in Writers : at[w] \in {"if active_readers", "if a writer", "wait can_write", "unqueue writer"}}
ActiveWriters == {w \in Writers : at[w] \in {"write", "stop_write"}}

Counted ==
    /\ readers_queue = Cardinality(QueuedReaders)
    /\ active_readers = Cardinality(ActiveReaders)
    /\ writers_queue = Cardinality(QueuedWriters)
    /\ active_writer = Cardinality(ActiveWriters)

\* Readers and writers keep to their own functions and events, and an event
\* that is signalled keeps nobody.
Placed ==
    /\ \A r \in Readers : at[r] \in ReaderPlaces \cup {"while", "set can_write", "return"}
    /\ \A w \in Writers : at[w] \in WriterPlaces \cup {"while", "set can_write", "return"}
    /\ \A r \in can_read.waiting : at[r] = "wait mutex"
    /\ \A w \in can_write.waiting : at[w] = "unqueue writer"
    /\ can_read.signalled => can_read.waiting = {}
    /\ can_write.signalled => can_write.waiting = {}

\* A reader on its way from its wait to SetEvent(can_read).
Entering == \E r \in Readers \ can_read.waiting : at[r] \in {"wait mutex", "unqueue", "activate", "set can_read"}

\* A writer that has still to come to the test of readers_queue, and beyond.
Writing ==
    \E w \in Writers : at[w] \in {"if active_readers", "if a writer", "wait can_write", "unqueue writer",
                                  "activate writer", "write", "stop_write", "reset can_write", "if readers_queue",
                                  "let readers"}

ReadersWoken ==
    (\E r \in Readers : at[r] = "wait can_read" \/ r \in can_read.waiting) =>
        can_read.signalled \/ Entering \/ Writing

\* A reader inside, on its way to SetEvent(can_write) or to leave that to others.
Reading == \E r \in Readers : at[r] \in {"release mutex", "read", "stop_read", "if no readers", "set can_write"}

\* A writer that goes on to SetEvent(can_write), if no reader is queued.
Leaving ==
    \E w \in Writers \ can_write.waiting :
        at[w] \in {"unqueue writer", "activate writer", "write", "stop_write", "reset can_write", "if readers_queue",
                   "set can_write"}

\* A reader is queued that can_read lets in, or will let in.
LettingIn == QueuedReaders # {} /\ (can_read.signalled \/ \E w \in Writers : at[w] = "let readers")

WritersWoken ==
    (\E w \in Writers : at[w] = "wait can_write" \/ w \in can_write.waiting) =>
        can_write.signalled \/ Entering \/ Reading \/ Leaving \/ LettingIn
=============================================================================
