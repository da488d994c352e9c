---------------------------- MODULE WinRWProofs ----------------------------
(***************************************************************************)
(* Theorems about WinRW for any number of readers and writers: the events  *)
(* never leave all threads waiting.                                        *)
(***************************************************************************)
EXTENDS WinRW, FiniteSetTheorems, TLAPS

\* The types without the counters, whose bounds follow from what they count.
Shape ==
    /\ at \in [Threads -> ReaderPlaces \cup WriterPlaces \cup {"while", "set can_write", "return"}]
    /\ counters \in [Counters -> Int]
    /\ can_read \in [signalled : BOOLEAN, waiting : SUBSET Readers]
    /\ can_write \in [signalled : BOOLEAN, waiting : SUBSET Writers]
    /\ mutex \in {{}} \cup {{r} : r \in Readers}
    /\ f_sigint \in {0, 1}
    /\ main \in {"wait", "wait writers", "return"}

\* The two interlocked operations.
LEMMA Interlocked ==
    ASSUME counters \in [Counters -> Int], NEW c \in Counters, InterlockedIncrement(c) \/ InterlockedDecrement(c)
    PROVE  counters' \in [Counters -> Int]
  <1>1. counters[c] + 1 \in Int /\ counters[c] - 1 \in Int
    OBVIOUS
  <1>2. counters' = [counters EXCEPT ![c] = counters[c] + 1] \/ counters' = [counters EXCEPT ![c] = counters[c] - 1]
    BY DEF InterlockedIncrement, InterlockedDecrement
  <1> QED
    BY <1>1, <1>2

\* SetEvent of can_read signals it, or lets one of the waiting readers go.
LEMMA SetAutoLemma ==
    ASSUME Shape, Placed, NEW e \in SetAuto(can_read)
    PROVE  /\ e \in [signalled : BOOLEAN, waiting : SUBSET Readers]
           /\ e.waiting \subseteq can_read.waiting
           /\ e.signalled => e.waiting = {}
           /\ e.signalled \/ \E r \in can_read.waiting : e.waiting = can_read.waiting \ {r}
  <1>1. CASE can_read.waiting = {}
    <2>1. e = [can_read EXCEPT !.signalled = TRUE]
      BY <1>1 DEF SetAuto
    <2> QED
      BY <1>1, <2>1 DEF Shape
  <1>2. CASE can_read.waiting # {}
    <2>1. PICK r \in can_read.waiting : e = [can_read EXCEPT !.waiting = can_read.waiting \ {r}]
      BY <1>2 DEF SetAuto
    <2>2. ~can_read.signalled
      BY <1>2 DEF Placed
    <2> QED
      BY <2>1, <2>2 DEF Shape
  <1> QED
    BY <1>1, <1>2

\* Threads keep to their places and the events to their threads.
LEMMA ShapeStep ==
    ASSUME Shape, Placed, Next
    PROVE  Shape' /\ Placed'
  <1>1. SUFFICES ASSUME Main \/ CtrlCHandler \/ \E t \in Threads : Thread(t)
                PROVE  Shape' /\ Placed'
    BY DEF Next
  <1> USE DEF Threads, Goto, Waits, events, ReaderPlaces, WriterPlaces, Shape, Placed
  <1>2. CASE Main
    BY <1>2 DEF Main, WaitForReaders, WaitForWriters
  <1>3. CASE CtrlCHandler
    BY <1>3 DEF CtrlCHandler
  <1>4. ASSUME NEW t \in Threads, Thread(t) PROVE Shape' /\ Placed'
    <2>1. CASE While(t)
      BY <2>1, WinRWAssumption DEF While, Pass
    <2>2. CASE QueueReader(t)
      <3>1. InterlockedIncrement("readers_queue") /\ "readers_queue" \in Counters
        BY <2>2 DEF QueueReader, Counters
      <3>2. counters' \in [Counters -> Int]
        BY <3>1, Interlocked
      <3> QED
        BY <2>2, <3>2, WinRWAssumption DEF QueueReader, InterlockedIncrement
    <2>3. CASE TestActiveWriter(t)
      BY <2>3, WinRWAssumption DEF TestActiveWriter, Pass
    <2>4. CASE TestWritersQueue(t)
      BY <2>4, WinRWAssumption DEF TestWritersQueue, Pass
    <2>5. CASE WaitCanRead(t)
      BY <2>5, WinRWAssumption DEF WaitCanRead, WaitAuto
    <2>6. CASE WaitMutex(t)
      BY <2>6, WinRWAssumption DEF WaitMutex
    <2>7. CASE UnqueueReader(t)
      <3>1. InterlockedDecrement("readers_queue") /\ "readers_queue" \in Counters
        BY <2>7 DEF UnqueueReader, Counters
      <3>2. counters' \in [Counters -> Int]
        BY <3>1, Interlocked
      <3> QED
        BY <2>7, <3>2, WinRWAssumption DEF UnqueueReader, InterlockedDecrement
    <2>8. CASE ActivateReader(t)
      <3>1. InterlockedIncrement("active_readers") /\ "active_readers" \in Counters
        BY <2>8 DEF ActivateReader, Counters
      <3>2. counters' \in [Counters -> Int]
        BY <3>1, Interlocked
      <3> QED
        BY <2>8, <3>2, WinRWAssumption DEF ActivateReader, InterlockedIncrement
    <2>9. CASE SetCanRead(t)
      <3>1. can_read' \in SetAuto(can_read)
        BY <2>9 DEF SetCanRead
      <3>2. /\ can_read' \in [signalled : BOOLEAN, waiting : SUBSET Readers]
            /\ can_read'.waiting \subseteq can_read.waiting
            /\ can_read'.signalled => can_read'.waiting = {}
        BY <3>1, SetAutoLemma
      <3>3. Shape'
        BY <2>9, <3>2 DEF SetCanRead
      <3>4. Placed'
        BY <2>9, <3>2, WinRWAssumption DEF SetCanRead
      <3> QED
        BY <3>3, <3>4
    <2>10. CASE ReleaseMutex(t)
      BY <2>10, WinRWAssumption DEF ReleaseMutex
    <2>11. CASE Read(t)
      BY <2>11, WinRWAssumption DEF Read, Pass
    <2>12. CASE StopReader(t)
      <3>1. InterlockedDecrement("active_readers") /\ "active_readers" \in Counters
        BY <2>12 DEF StopReader, Counters
      <3>2. counters' \in [Counters -> Int]
        BY <3>1, Interlocked
      <3> QED
        BY <2>12, <3>2, WinRWAssumption DEF StopReader, InterlockedDecrement
    <2>13. CASE TestNoReaders(t)
      BY <2>13, WinRWAssumption DEF TestNoReaders, Pass
    <2>14. CASE QueueWriter(t)
      <3>1. InterlockedIncrement("writers_queue") /\ "writers_queue" \in Counters
        BY <2>14 DEF QueueWriter, Counters
      <3>2. counters' \in [Counters -> Int]
        BY <3>1, Interlocked
      <3> QED
        BY <2>14, <3>2, WinRWAssumption DEF QueueWriter, InterlockedIncrement
    <2>15. CASE TestActiveReaders(t)
      BY <2>15, WinRWAssumption DEF TestActiveReaders, Pass
    <2>16. CASE TestAnotherWriter(t)
      BY <2>16, WinRWAssumption DEF TestAnotherWriter, Pass
    <2>17. CASE WaitCanWrite(t)
      BY <2>17, WinRWAssumption DEF WaitCanWrite, WaitManual
    <2>18. CASE UnqueueWriter(t)
      <3>1. InterlockedDecrement("writers_queue") /\ "writers_queue" \in Counters
        BY <2>18 DEF UnqueueWriter, Counters
      <3>2. counters' \in [Counters -> Int]
        BY <3>1, Interlocked
      <3> QED
        BY <2>18, <3>2, WinRWAssumption DEF UnqueueWriter, InterlockedDecrement
    <2>19. CASE ActivateWriter(t)
      <3>1. InterlockedIncrement("active_writer") /\ "active_writer" \in Counters
        BY <2>19 DEF ActivateWriter, Counters
      <3>2. counters' \in [Counters -> Int]
        BY <3>1, Interlocked
      <3> QED
        BY <2>19, <3>2, WinRWAssumption DEF ActivateWriter, InterlockedIncrement
    <2>20. CASE Write(t)
      BY <2>20, WinRWAssumption DEF Write, Pass
    <2>21. CASE StopWriter(t)
      <3>1. InterlockedDecrement("active_writer") /\ "active_writer" \in Counters
        BY <2>21 DEF StopWriter, Counters
      <3>2. counters' \in [Counters -> Int]
        BY <3>1, Interlocked
      <3> QED
        BY <2>21, <3>2, WinRWAssumption DEF StopWriter, InterlockedDecrement
    <2>22. CASE ResetCanWrite(t)
      BY <2>22, WinRWAssumption DEF ResetCanWrite, Reset
    <2>23. CASE TestReadersQueue(t)
      BY <2>23, WinRWAssumption DEF TestReadersQueue, Pass
    <2>24. CASE LetReaders(t)
      <3>1. can_read' \in SetAuto(can_read)
        BY <2>24 DEF LetReaders
      <3>2. /\ can_read' \in [signalled : BOOLEAN, waiting : SUBSET Readers]
            /\ can_read'.waiting \subseteq can_read.waiting
            /\ can_read'.signalled => can_read'.waiting = {}
        BY <3>1, SetAutoLemma
      <3>3. Shape'
        BY <2>24, <3>2 DEF LetReaders
      <3>4. Placed'
        BY <2>24, <3>2, WinRWAssumption DEF LetReaders
      <3> QED
        BY <3>3, <3>4
    <2>25. CASE SetCanWrite(t)
      BY <2>25, WinRWAssumption DEF SetCanWrite, SetManual
    <2> QED
      BY <1>4, <2>1, <2>2, <2>3, <2>4, <2>5, <2>6, <2>7, <2>8, <2>9, <2>10, <2>11, <2>12,
         <2>13, <2>14, <2>15, <2>16, <2>17, <2>18, <2>19, <2>20, <2>21, <2>22, <2>23, <2>24,
         <2>25 DEF Thread, Reader, Writer
  <1> QED
    BY <1>1, <1>2, <1>3, <1>4

\* The sections can be counted.
LEMMA FiniteSections ==
    /\ IsFiniteSet(QueuedReaders) /\ IsFiniteSet(ActiveReaders)
    /\ IsFiniteSet(QueuedWriters) /\ IsFiniteSet(ActiveWriters)
  <1>1. /\ QueuedReaders \subseteq Readers /\ ActiveReaders \subseteq Readers
        /\ QueuedWriters \subseteq Writers /\ ActiveWriters \subseteq Writers
    BY DEF QueuedReaders, ActiveReaders, QueuedWriters, ActiveWriters
  <1> QED
    BY <1>1, WinRWAssumption, FS_Subset

\* Each counter is the number of threads in its section.
LEMMA CountedStep ==
    ASSUME Shape, Placed, Counted, Next
    PROVE  Counted'
  <1>0. /\ IsFiniteSet(QueuedReaders) /\ IsFiniteSet(ActiveReaders)
        /\ IsFiniteSet(QueuedWriters) /\ IsFiniteSet(ActiveWriters)
    BY FiniteSections
  <1>1. SUFFICES ASSUME Main \/ CtrlCHandler \/ \E t \in Threads : Thread(t)
                PROVE  Counted'
    BY DEF Next
  <1> USE DEF Threads, Goto, ReaderPlaces, WriterPlaces, Shape, Placed
  <1>2. CASE Main
    BY <1>2 DEF Main, WaitForReaders, WaitForWriters, Counted, readers_queue, active_readers, writers_queue, active_writer, QueuedReaders, ActiveReaders, QueuedWriters,
       ActiveWriters
  <1>3. CASE CtrlCHandler
    BY <1>3 DEF CtrlCHandler, Counted, readers_queue, active_readers, writers_queue, active_writer, QueuedReaders, ActiveReaders, QueuedWriters, ActiveWriters
  <1>4. ASSUME NEW t \in Threads, Thread(t) PROVE Counted'
    <2>1. CASE While(t)
      <3>1. UNCHANGED <<QueuedReaders, ActiveReaders, QueuedWriters, ActiveWriters>>
        BY <2>1, WinRWAssumption DEF While, Pass, QueuedReaders, ActiveReaders, QueuedWriters, ActiveWriters
      <3> QED
        BY <2>1, <3>1 DEF While, Pass, Counted, readers_queue, active_readers, writers_queue, active_writer
    <2>2. CASE QueueReader(t)
      <3>1. QueuedReaders' = QueuedReaders \cup {t} /\ t \notin QueuedReaders
        BY <2>2, WinRWAssumption DEF QueueReader, InterlockedIncrement, Counters, QueuedReaders
      <3>2. UNCHANGED <<ActiveReaders, QueuedWriters, ActiveWriters>>
        BY <2>2, WinRWAssumption DEF QueueReader, InterlockedIncrement, Counters, ActiveReaders, QueuedWriters, ActiveWriters
      <3>3. Cardinality(QueuedReaders)' = Cardinality(QueuedReaders) + 1
        BY <1>0, <3>1, FS_AddElement
      <3> QED
        BY <2>2, <3>2, <3>3 DEF QueueReader, InterlockedIncrement, Counters, Counted, readers_queue, active_readers, writers_queue, active_writer
    <2>3. CASE TestActiveWriter(t)
      <3>1. UNCHANGED <<QueuedReaders, ActiveReaders, QueuedWriters, ActiveWriters>>
        BY <2>3, WinRWAssumption DEF TestActiveWriter, Pass, QueuedReaders, ActiveReaders, QueuedWriters, ActiveWriters
      <3> QED
        BY <2>3, <3>1 DEF TestActiveWriter, Pass, Counted, readers_queue, active_readers, writers_queue, active_writer
    <2>4. CASE TestWritersQueue(t)
      <3>1. UNCHANGED <<QueuedReaders, ActiveReaders, QueuedWriters, ActiveWriters>>
        BY <2>4, WinRWAssumption DEF TestWritersQueue, Pass, QueuedReaders, ActiveReaders, QueuedWriters, ActiveWriters
      <3> QED
        BY <2>4, <3>1 DEF TestWritersQueue, Pass, Counted, readers_queue, active_readers, writers_queue, active_writer
    <2>5. CASE WaitCanRead(t)
      <3>1. UNCHANGED <<QueuedReaders, ActiveReaders, QueuedWriters, ActiveWriters>>
        BY <2>5, WinRWAssumption DEF WaitCanRead, QueuedReaders, ActiveReaders, QueuedWriters, ActiveWriters
      <3> QED
        BY <2>5, <3>1 DEF WaitCanRead, Counted, readers_queue, active_readers, writers_queue, active_writer
    <2>6. CASE WaitMutex(t)
      <3>1. UNCHANGED <<QueuedReaders, ActiveReaders, QueuedWriters, ActiveWriters>>
        BY <2>6, WinRWAssumption DEF WaitMutex, QueuedReaders, ActiveReaders, QueuedWriters, ActiveWriters
      <3> QED
        BY <2>6, <3>1 DEF WaitMutex, Counted, readers_queue, active_readers, writers_queue, active_writer
    <2>7. CASE UnqueueReader(t)
      <3>1. QueuedReaders' = QueuedReaders \ {t} /\ t \in QueuedReaders
        BY <2>7, WinRWAssumption DEF UnqueueReader, InterlockedDecrement, Counters, QueuedReaders
      <3>2. UNCHANGED <<ActiveReaders, QueuedWriters, ActiveWriters>>
        BY <2>7, WinRWAssumption DEF UnqueueReader, InterlockedDecrement, Counters, ActiveReaders, QueuedWriters, ActiveWriters
      <3>3. Cardinality(QueuedReaders)' = Cardinality(QueuedReaders) - 1
        BY <1>0, <3>1, FS_RemoveElement
      <3> QED
        BY <2>7, <3>2, <3>3 DEF UnqueueReader, InterlockedDecrement, Counters, Counted, readers_queue, active_readers, writers_queue, active_writer
    <2>8. CASE ActivateReader(t)
      <3>1. ActiveReaders' = ActiveReaders \cup {t} /\ t \notin ActiveReaders
        BY <2>8, WinRWAssumption DEF ActivateReader, InterlockedIncrement, Counters, ActiveReaders
      <3>2. UNCHANGED <<QueuedReaders, QueuedWriters, ActiveWriters>>
        BY <2>8, WinRWAssumption DEF ActivateReader, InterlockedIncrement, Counters, QueuedReaders, QueuedWriters, ActiveWriters
      <3>3. Cardinality(ActiveReaders)' = Cardinality(ActiveReaders) + 1
        BY <1>0, <3>1, FS_AddElement
      <3> QED
        BY <2>8, <3>2, <3>3 DEF ActivateReader, InterlockedIncrement, Counters, Counted, readers_queue, active_readers, writers_queue, active_writer
    <2>9. CASE SetCanRead(t)
      <3>1. UNCHANGED <<QueuedReaders, ActiveReaders, QueuedWriters, ActiveWriters>>
        BY <2>9, WinRWAssumption DEF SetCanRead, QueuedReaders, ActiveReaders, QueuedWriters, ActiveWriters
      <3> QED
        BY <2>9, <3>1 DEF SetCanRead, Counted, readers_queue, active_readers, writers_queue, active_writer
    <2>10. CASE ReleaseMutex(t)
      <3>1. UNCHANGED <<QueuedReaders, ActiveReaders, QueuedWriters, ActiveWriters>>
        BY <2>10, WinRWAssumption DEF ReleaseMutex, QueuedReaders, ActiveReaders, QueuedWriters, ActiveWriters
      <3> QED
        BY <2>10, <3>1 DEF ReleaseMutex, Counted, readers_queue, active_readers, writers_queue, active_writer
    <2>11. CASE Read(t)
      <3>1. UNCHANGED <<QueuedReaders, ActiveReaders, QueuedWriters, ActiveWriters>>
        BY <2>11, WinRWAssumption DEF Read, Pass, QueuedReaders, ActiveReaders, QueuedWriters, ActiveWriters
      <3> QED
        BY <2>11, <3>1 DEF Read, Pass, Counted, readers_queue, active_readers, writers_queue, active_writer
    <2>12. CASE StopReader(t)
      <3>1. ActiveReaders' = ActiveReaders \ {t} /\ t \in ActiveReaders
        BY <2>12, WinRWAssumption DEF StopReader, InterlockedDecrement, Counters, ActiveReaders
      <3>2. UNCHANGED <<QueuedReaders, QueuedWriters, ActiveWriters>>
        BY <2>12, WinRWAssumption DEF StopReader, InterlockedDecrement, Counters, QueuedReaders, QueuedWriters, ActiveWriters
      <3>3. Cardinality(ActiveReaders)' = Cardinality(ActiveReaders) - 1
        BY <1>0, <3>1, FS_RemoveElement
      <3> QED
        BY <2>12, <3>2, <3>3 DEF StopReader, InterlockedDecrement, Counters, Counted, readers_queue, active_readers, writers_queue, active_writer
    <2>13. CASE TestNoReaders(t)
      <3>1. UNCHANGED <<QueuedReaders, ActiveReaders, QueuedWriters, ActiveWriters>>
        BY <2>13, WinRWAssumption DEF TestNoReaders, Pass, QueuedReaders, ActiveReaders, QueuedWriters, ActiveWriters
      <3> QED
        BY <2>13, <3>1 DEF TestNoReaders, Pass, Counted, readers_queue, active_readers, writers_queue, active_writer
    <2>14. CASE QueueWriter(t)
      <3>1. QueuedWriters' = QueuedWriters \cup {t} /\ t \notin QueuedWriters
        BY <2>14, WinRWAssumption DEF QueueWriter, InterlockedIncrement, Counters, QueuedWriters
      <3>2. UNCHANGED <<QueuedReaders, ActiveReaders, ActiveWriters>>
        BY <2>14, WinRWAssumption DEF QueueWriter, InterlockedIncrement, Counters, QueuedReaders, ActiveReaders, ActiveWriters
      <3>3. Cardinality(QueuedWriters)' = Cardinality(QueuedWriters) + 1
        BY <1>0, <3>1, FS_AddElement
      <3> QED
        BY <2>14, <3>2, <3>3 DEF QueueWriter, InterlockedIncrement, Counters, Counted, readers_queue, active_readers, writers_queue, active_writer
    <2>15. CASE TestActiveReaders(t)
      <3>1. UNCHANGED <<QueuedReaders, ActiveReaders, QueuedWriters, ActiveWriters>>
        BY <2>15, WinRWAssumption DEF TestActiveReaders, Pass, QueuedReaders, ActiveReaders, QueuedWriters, ActiveWriters
      <3> QED
        BY <2>15, <3>1 DEF TestActiveReaders, Pass, Counted, readers_queue, active_readers, writers_queue, active_writer
    <2>16. CASE TestAnotherWriter(t)
      <3>1. UNCHANGED <<QueuedReaders, ActiveReaders, QueuedWriters, ActiveWriters>>
        BY <2>16, WinRWAssumption DEF TestAnotherWriter, Pass, QueuedReaders, ActiveReaders, QueuedWriters, ActiveWriters
      <3> QED
        BY <2>16, <3>1 DEF TestAnotherWriter, Pass, Counted, readers_queue, active_readers, writers_queue, active_writer
    <2>17. CASE WaitCanWrite(t)
      <3>1. UNCHANGED <<QueuedReaders, ActiveReaders, QueuedWriters, ActiveWriters>>
        BY <2>17, WinRWAssumption DEF WaitCanWrite, QueuedReaders, ActiveReaders, QueuedWriters, ActiveWriters
      <3> QED
        BY <2>17, <3>1 DEF WaitCanWrite, Counted, readers_queue, active_readers, writers_queue, active_writer
    <2>18. CASE UnqueueWriter(t)
      <3>1. QueuedWriters' = QueuedWriters \ {t} /\ t \in QueuedWriters
        BY <2>18, WinRWAssumption DEF UnqueueWriter, InterlockedDecrement, Counters, QueuedWriters
      <3>2. UNCHANGED <<QueuedReaders, ActiveReaders, ActiveWriters>>
        BY <2>18, WinRWAssumption DEF UnqueueWriter, InterlockedDecrement, Counters, QueuedReaders, ActiveReaders, ActiveWriters
      <3>3. Cardinality(QueuedWriters)' = Cardinality(QueuedWriters) - 1
        BY <1>0, <3>1, FS_RemoveElement
      <3> QED
        BY <2>18, <3>2, <3>3 DEF UnqueueWriter, InterlockedDecrement, Counters, Counted, readers_queue, active_readers, writers_queue, active_writer
    <2>19. CASE ActivateWriter(t)
      <3>1. ActiveWriters' = ActiveWriters \cup {t} /\ t \notin ActiveWriters
        BY <2>19, WinRWAssumption DEF ActivateWriter, InterlockedIncrement, Counters, ActiveWriters
      <3>2. UNCHANGED <<QueuedReaders, ActiveReaders, QueuedWriters>>
        BY <2>19, WinRWAssumption DEF ActivateWriter, InterlockedIncrement, Counters, QueuedReaders, ActiveReaders, QueuedWriters
      <3>3. Cardinality(ActiveWriters)' = Cardinality(ActiveWriters) + 1
        BY <1>0, <3>1, FS_AddElement
      <3> QED
        BY <2>19, <3>2, <3>3 DEF ActivateWriter, InterlockedIncrement, Counters, Counted, readers_queue, active_readers, writers_queue, active_writer
    <2>20. CASE Write(t)
      <3>1. UNCHANGED <<QueuedReaders, ActiveReaders, QueuedWriters, ActiveWriters>>
        BY <2>20, WinRWAssumption DEF Write, Pass, QueuedReaders, ActiveReaders, QueuedWriters, ActiveWriters
      <3> QED
        BY <2>20, <3>1 DEF Write, Pass, Counted, readers_queue, active_readers, writers_queue, active_writer
    <2>21. CASE StopWriter(t)
      <3>1. ActiveWriters' = ActiveWriters \ {t} /\ t \in ActiveWriters
        BY <2>21, WinRWAssumption DEF StopWriter, InterlockedDecrement, Counters, ActiveWriters
      <3>2. UNCHANGED <<QueuedReaders, ActiveReaders, QueuedWriters>>
        BY <2>21, WinRWAssumption DEF StopWriter, InterlockedDecrement, Counters, QueuedReaders, ActiveReaders, QueuedWriters
      <3>3. Cardinality(ActiveWriters)' = Cardinality(ActiveWriters) - 1
        BY <1>0, <3>1, FS_RemoveElement
      <3> QED
        BY <2>21, <3>2, <3>3 DEF StopWriter, InterlockedDecrement, Counters, Counted, readers_queue, active_readers, writers_queue, active_writer
    <2>22. CASE ResetCanWrite(t)
      <3>1. UNCHANGED <<QueuedReaders, ActiveReaders, QueuedWriters, ActiveWriters>>
        BY <2>22, WinRWAssumption DEF ResetCanWrite, QueuedReaders, ActiveReaders, QueuedWriters, ActiveWriters
      <3> QED
        BY <2>22, <3>1 DEF ResetCanWrite, Counted, readers_queue, active_readers, writers_queue, active_writer
    <2>23. CASE TestReadersQueue(t)
      <3>1. UNCHANGED <<QueuedReaders, ActiveReaders, QueuedWriters, ActiveWriters>>
        BY <2>23, WinRWAssumption DEF TestReadersQueue, Pass, QueuedReaders, ActiveReaders, QueuedWriters, ActiveWriters
      <3> QED
        BY <2>23, <3>1 DEF TestReadersQueue, Pass, Counted, readers_queue, active_readers, writers_queue, active_writer
    <2>24. CASE LetReaders(t)
      <3>1. UNCHANGED <<QueuedReaders, ActiveReaders, QueuedWriters, ActiveWriters>>
        BY <2>24, WinRWAssumption DEF LetReaders, QueuedReaders, ActiveReaders, QueuedWriters, ActiveWriters
      <3> QED
        BY <2>24, <3>1 DEF LetReaders, Counted, readers_queue, active_readers, writers_queue, active_writer
    <2>25. CASE SetCanWrite(t)
      <3>1. UNCHANGED <<QueuedReaders, ActiveReaders, QueuedWriters, ActiveWriters>>
        BY <2>25, WinRWAssumption DEF SetCanWrite, QueuedReaders, ActiveReaders, QueuedWriters, ActiveWriters
      <3> QED
        BY <2>25, <3>1 DEF SetCanWrite, Counted, readers_queue, active_readers, writers_queue, active_writer
    <2> QED
      BY <1>4, <2>1, <2>2, <2>3, <2>4, <2>5, <2>6, <2>7, <2>8, <2>9, <2>10, <2>11, <2>12,
         <2>13, <2>14, <2>15, <2>16, <2>17, <2>18, <2>19, <2>20, <2>21, <2>22, <2>23, <2>24,
         <2>25 DEF Thread, Reader, Writer
  <1> QED
    BY <1>1, <1>2, <1>3, <1>4

\* A counter that is not zero has a thread in its section.
LEMMA Counts ==
    ASSUME Counted
    PROVE  /\ readers_queue \in Nat /\ (readers_queue > 0 <=> QueuedReaders # {})
           /\ active_readers \in Nat /\ (active_readers = 0 <=> ActiveReaders = {})
           /\ writers_queue \in Nat /\ (writers_queue = 0 <=> QueuedWriters = {})
           /\ active_writer \in Nat /\ (active_writer = 0 <=> ActiveWriters = {})
  BY FiniteSections, FS_CardinalityType, FS_EmptySet DEF Counted

\* Who sets can_read for those that wait for it.
LEMMA ReadersWokenStep ==
    ASSUME Shape, Placed, Counted, ReadersWoken, Next
    PROVE  ReadersWoken'
  <1>1. SUFFICES ASSUME Main \/ CtrlCHandler \/ \E t \in Threads : Thread(t)
                PROVE  ReadersWoken'
    BY DEF Next
  <1> USE DEF Threads, Goto, Waits, events, ReaderPlaces, WriterPlaces, Shape, Placed, Entering, Writing, ReadersWoken
  <1>2. CASE Main
    BY <1>2 DEF Main, WaitForReaders, WaitForWriters
  <1>3. CASE CtrlCHandler
    BY <1>3 DEF CtrlCHandler
  <1>4. ASSUME NEW t \in Threads, Thread(t) PROVE ReadersWoken'
    <2>1. CASE While(t)
      BY <2>1, WinRWAssumption DEF While, Pass
    <2>2. CASE QueueReader(t)
      BY <2>2, WinRWAssumption DEF QueueReader, InterlockedIncrement, Counters
    <2>3. CASE TestActiveWriter(t)
      <3>1. CASE active_writer = 0
        BY <2>3, <3>1, WinRWAssumption DEF TestActiveWriter, Pass
      <3>2. CASE active_writer # 0
        <4>1. PICK w \in Writers : w \in ActiveWriters
          BY <3>2, Counts DEF ActiveWriters
        <4>2. w # t
          BY <2>3, <4>1, WinRWAssumption DEF TestActiveWriter, Pass, ActiveWriters
        <4>3. Writing'
          BY <2>3, <4>1, <4>2, WinRWAssumption DEF TestActiveWriter, Pass, ActiveWriters
        <4> QED
          BY <4>3
      <3> QED
        BY <3>1, <3>2
    <2>4. CASE TestWritersQueue(t)
      <3>1. CASE writers_queue = 0
        BY <2>4, <3>1, WinRWAssumption DEF TestWritersQueue, Pass
      <3>2. CASE writers_queue # 0
        <4>1. PICK w \in Writers : w \in QueuedWriters
          BY <3>2, Counts DEF QueuedWriters
        <4>2. w # t
          BY <2>4, <4>1, WinRWAssumption DEF TestWritersQueue, Pass, QueuedWriters
        <4>3. Writing'
          BY <2>4, <4>1, <4>2, WinRWAssumption DEF TestWritersQueue, Pass, QueuedWriters
        <4> QED
          BY <4>3
      <3> QED
        BY <3>1, <3>2
    <2>5. CASE WaitCanRead(t)
      BY <2>5, WinRWAssumption DEF WaitCanRead, WaitAuto
    <2>6. CASE WaitMutex(t)
      BY <2>6, WinRWAssumption DEF WaitMutex
    <2>7. CASE UnqueueReader(t)
      BY <2>7, WinRWAssumption DEF UnqueueReader, InterlockedDecrement, Counters
    <2>8. CASE ActivateReader(t)
      BY <2>8, WinRWAssumption DEF ActivateReader, InterlockedIncrement, Counters
    <2>9. CASE SetCanRead(t)
      <3>1. /\ can_read'.signalled => can_read'.waiting = {}
            /\ can_read'.waiting \subseteq can_read.waiting
            /\ can_read'.signalled \/ \E r \in can_read.waiting : can_read'.waiting = can_read.waiting \ {r}
        BY <2>9, SetAutoLemma DEF SetCanRead
      <3>2. CASE can_read'.signalled
        BY <3>2
      <3>3. ASSUME NEW r \in can_read.waiting, can_read'.waiting = can_read.waiting \ {r} PROVE Entering'
        BY <2>9, <3>3, WinRWAssumption DEF SetCanRead
      <3> QED
        BY <3>1, <3>2, <3>3
    <2>10. CASE ReleaseMutex(t)
      BY <2>10, WinRWAssumption DEF ReleaseMutex
    <2>11. CASE Read(t)
      BY <2>11, WinRWAssumption DEF Read, Pass
    <2>12. CASE StopReader(t)
      BY <2>12, WinRWAssumption DEF StopReader, InterlockedDecrement, Counters
    <2>13. CASE TestNoReaders(t)
      BY <2>13, WinRWAssumption DEF TestNoReaders, Pass
    <2>14. CASE QueueWriter(t)
      BY <2>14, WinRWAssumption DEF QueueWriter, InterlockedIncrement, Counters
    <2>15. CASE TestActiveReaders(t)
      BY <2>15, WinRWAssumption DEF TestActiveReaders, Pass
    <2>16. CASE TestAnotherWriter(t)
      BY <2>16, WinRWAssumption DEF TestAnotherWriter, Pass
    <2>17. CASE WaitCanWrite(t)
      BY <2>17, WinRWAssumption DEF WaitCanWrite, WaitManual
    <2>18. CASE UnqueueWriter(t)
      BY <2>18, WinRWAssumption DEF UnqueueWriter, InterlockedDecrement, Counters
    <2>19. CASE ActivateWriter(t)
      BY <2>19, WinRWAssumption DEF ActivateWriter, InterlockedIncrement, Counters
    <2>20. CASE Write(t)
      BY <2>20, WinRWAssumption DEF Write, Pass
    <2>21. CASE StopWriter(t)
      BY <2>21, WinRWAssumption DEF StopWriter, InterlockedDecrement, Counters
    <2>22. CASE ResetCanWrite(t)
      BY <2>22, WinRWAssumption DEF ResetCanWrite, Reset
    <2>23. CASE TestReadersQueue(t)
      <3>1. CASE ~(readers_queue > 0)
        <4>1. \A r \in Readers : at[r] # "wait can_read" /\ r \notin can_read.waiting
          BY <3>1, Counts DEF QueuedReaders
        <4> QED
          BY <2>23, <4>1, WinRWAssumption DEF TestReadersQueue, Pass
      <3>2. CASE readers_queue > 0
        <4>1. at' = [at EXCEPT ![t] = "let readers"] /\ UNCHANGED can_read
          BY <2>23, <3>2 DEF TestReadersQueue, Pass
        <4>2. t \in Writers
          BY <2>23, WinRWAssumption DEF TestReadersQueue, Pass
        <4> QED
          BY <4>1, <4>2
      <3> QED
        BY <3>1, <3>2
    <2>24. CASE LetReaders(t)
      <3>1. /\ can_read'.signalled => can_read'.waiting = {}
            /\ can_read'.waiting \subseteq can_read.waiting
            /\ can_read'.signalled \/ \E r \in can_read.waiting : can_read'.waiting = can_read.waiting \ {r}
        BY <2>24, SetAutoLemma DEF LetReaders
      <3>2. CASE can_read'.signalled
        BY <3>2
      <3>3. ASSUME NEW r \in can_read.waiting, can_read'.waiting = can_read.waiting \ {r} PROVE Entering'
        BY <2>24, <3>3, WinRWAssumption DEF LetReaders
      <3> QED
        BY <3>1, <3>2, <3>3
    <2>25. CASE SetCanWrite(t)
      BY <2>25, WinRWAssumption DEF SetCanWrite, SetManual
    <2> QED
      BY <1>4, <2>1, <2>2, <2>3, <2>4, <2>5, <2>6, <2>7, <2>8, <2>9, <2>10, <2>11, <2>12,
         <2>13, <2>14, <2>15, <2>16, <2>17, <2>18, <2>19, <2>20, <2>21, <2>22, <2>23, <2>24,
         <2>25 DEF Thread, Reader, Writer
  <1> QED
    BY <1>1, <1>2, <1>3, <1>4

\* Who sets can_write for those that wait for it.
LEMMA WritersWokenStep ==
    ASSUME Shape, Placed, Counted, WritersWoken, Next
    PROVE  WritersWoken'
  <1>1. SUFFICES ASSUME Main \/ CtrlCHandler \/ \E t \in Threads : Thread(t)
                PROVE  WritersWoken'
    BY DEF Next
  <1> USE DEF Threads, Goto, Waits, events, ReaderPlaces, WriterPlaces, Shape, Placed, Entering, Reading, Leaving, LettingIn, QueuedReaders, WritersWoken
  <1>2. CASE Main
    BY <1>2 DEF Main, WaitForReaders, WaitForWriters
  <1>3. CASE CtrlCHandler
    BY <1>3 DEF CtrlCHandler
  <1>4. ASSUME NEW t \in Threads, Thread(t) PROVE WritersWoken'
    <2>1. CASE While(t)
      BY <2>1, WinRWAssumption DEF While, Pass
    <2>2. CASE QueueReader(t)
      BY <2>2, WinRWAssumption DEF QueueReader, InterlockedIncrement, Counters
    <2>3. CASE TestActiveWriter(t)
      BY <2>3, WinRWAssumption DEF TestActiveWriter, Pass
    <2>4. CASE TestWritersQueue(t)
      BY <2>4, WinRWAssumption DEF TestWritersQueue, Pass
    <2>5. CASE WaitCanRead(t)
      BY <2>5, WinRWAssumption DEF WaitCanRead, WaitAuto
    <2>6. CASE WaitMutex(t)
      BY <2>6, WinRWAssumption DEF WaitMutex
    <2>7. CASE UnqueueReader(t)
      BY <2>7, WinRWAssumption DEF UnqueueReader, InterlockedDecrement, Counters
    <2>8. CASE ActivateReader(t)
      BY <2>8, WinRWAssumption DEF ActivateReader, InterlockedIncrement, Counters
    <2>9. CASE SetCanRead(t)
      BY <2>9, WinRWAssumption DEF SetCanRead, SetAuto
    <2>10. CASE ReleaseMutex(t)
      BY <2>10, WinRWAssumption DEF ReleaseMutex
    <2>11. CASE Read(t)
      BY <2>11, WinRWAssumption DEF Read, Pass
    <2>12. CASE StopReader(t)
      BY <2>12, WinRWAssumption DEF StopReader, InterlockedDecrement, Counters
    <2>13. CASE TestNoReaders(t)
      <3>1. CASE active_readers = 0
        BY <2>13, <3>1, WinRWAssumption DEF TestNoReaders, Pass
      <3>2. CASE active_readers # 0
        <4>1. PICK r \in Readers : r \in ActiveReaders
          BY <3>2, Counts DEF ActiveReaders
        <4>2. r # t
          BY <2>13, <4>1, WinRWAssumption DEF TestNoReaders, Pass, ActiveReaders
        <4>3. (Entering \/ Reading)'
          BY <2>13, <4>1, <4>2, WinRWAssumption DEF TestNoReaders, Pass, ActiveReaders
        <4> QED
          BY <4>3
      <3> QED
        BY <3>1, <3>2
    <2>14. CASE QueueWriter(t)
      BY <2>14, WinRWAssumption DEF QueueWriter, InterlockedIncrement, Counters
    <2>15. CASE TestActiveReaders(t)
      <3>1. CASE active_readers = 0
        BY <2>15, <3>1, WinRWAssumption DEF TestActiveReaders, Pass
      <3>2. CASE active_readers # 0
        <4>1. PICK r \in Readers : r \in ActiveReaders
          BY <3>2, Counts DEF ActiveReaders
        <4>2. r # t
          BY <2>15, <4>1, WinRWAssumption DEF TestActiveReaders, Pass, ActiveReaders
        <4>3. (Entering \/ Reading)'
          BY <2>15, <4>1, <4>2, WinRWAssumption DEF TestActiveReaders, Pass, ActiveReaders
        <4> QED
          BY <4>3
      <3> QED
        BY <3>1, <3>2
    <2>16. CASE TestAnotherWriter(t)
      <3>1. CASE active_writer = 0
        BY <2>16, <3>1, WinRWAssumption DEF TestAnotherWriter, Pass
      <3>2. CASE active_writer # 0
        <4>1. PICK w \in Writers : w \in ActiveWriters
          BY <3>2, Counts DEF ActiveWriters
        <4>2. w # t
          BY <2>16, <4>1, WinRWAssumption DEF TestAnotherWriter, Pass, ActiveWriters
        <4>3. Leaving'
          BY <2>16, <4>1, <4>2, WinRWAssumption DEF TestAnotherWriter, Pass, ActiveWriters
        <4> QED
          BY <4>3
      <3> QED
        BY <3>1, <3>2
    <2>17. CASE WaitCanWrite(t)
      BY <2>17, WinRWAssumption DEF WaitCanWrite, WaitManual
    <2>18. CASE UnqueueWriter(t)
      BY <2>18, WinRWAssumption DEF UnqueueWriter, InterlockedDecrement, Counters
    <2>19. CASE ActivateWriter(t)
      BY <2>19, WinRWAssumption DEF ActivateWriter, InterlockedIncrement, Counters
    <2>20. CASE Write(t)
      BY <2>20, WinRWAssumption DEF Write, Pass
    <2>21. CASE StopWriter(t)
      BY <2>21, WinRWAssumption DEF StopWriter, InterlockedDecrement, Counters
    <2>22. CASE ResetCanWrite(t)
      BY <2>22, WinRWAssumption DEF ResetCanWrite, Reset
    <2>23. CASE TestReadersQueue(t)
      <3>1. t \in Writers /\ t \notin can_write.waiting
        BY <2>23, WinRWAssumption DEF TestReadersQueue, Pass
      <3>2. CASE ~(readers_queue > 0)
        <4>1. at' = [at EXCEPT ![t] = "set can_write"] /\ UNCHANGED can_write
          BY <2>23, <3>2 DEF TestReadersQueue, Pass
        <4> QED
          BY <3>1, <4>1
      <3>3. CASE readers_queue > 0
        <4>1. at' = [at EXCEPT ![t] = "let readers"]
          BY <2>23, <3>3 DEF TestReadersQueue, Pass
        <4>2. PICK r \in Readers : r \in QueuedReaders
          BY <3>3, Counts
        <4>3. r # t
          BY <3>1, WinRWAssumption
        <4>4. LettingIn'
          BY <3>1, <4>1, <4>2, <4>3
        <4> QED
          BY <4>4
      <3> QED
        BY <3>2, <3>3
    <2>24. CASE LetReaders(t)
      <3>1. /\ can_read'.signalled => can_read'.waiting = {}
            /\ can_read'.waiting \subseteq can_read.waiting
            /\ can_read'.signalled \/ \E r \in can_read.waiting : can_read'.waiting = can_read.waiting \ {r}
        BY <2>24, SetAutoLemma DEF LetReaders
      <3>2. /\ at' = [at EXCEPT ![t] = "while"] /\ at[t] = "let readers" /\ t \in Writers
            /\ UNCHANGED can_write
        BY <2>24, WinRWAssumption DEF LetReaders
      <3>3. CASE LettingIn
        <4>1. QueuedReaders' = QueuedReaders
          BY <3>2, WinRWAssumption
        <4>2. CASE can_read'.signalled
          BY <3>3, <4>1, <4>2
        <4>3. ASSUME NEW r \in can_read.waiting, can_read'.waiting = can_read.waiting \ {r} PROVE Entering'
          BY <3>2, <4>3, WinRWAssumption
        <4> QED
          BY <3>1, <4>2, <4>3
      <3>4. Entering => Entering'
        BY <3>1, <3>2, WinRWAssumption
      <3>5. Reading => Reading'
        BY <3>2, WinRWAssumption
      <3>6. Leaving => Leaving'
        BY <3>2
      <3>7. CASE ~LettingIn
        BY <3>2, <3>4, <3>5, <3>6, <3>7
      <3> QED
        BY <3>3, <3>7
    <2>25. CASE SetCanWrite(t)
      BY <2>25, WinRWAssumption DEF SetCanWrite, SetManual
    <2> QED
      BY <1>4, <2>1, <2>2, <2>3, <2>4, <2>5, <2>6, <2>7, <2>8, <2>9, <2>10, <2>11, <2>12,
         <2>13, <2>14, <2>15, <2>16, <2>17, <2>18, <2>19, <2>20, <2>21, <2>22, <2>23, <2>24,
         <2>25 DEF Thread, Reader, Writer
  <1> QED
    BY <1>1, <1>2, <1>3, <1>4

IInv == Shape /\ Placed /\ Counted /\ ReadersWoken /\ WritersWoken

\* The invariant holds at the start.
LEMMA Initially == Init => IInv
  <1>1. SUFFICES ASSUME Init PROVE IInv
    OBVIOUS
  <1>2. Shape /\ Placed
    BY <1>1 DEF Init, Shape, Placed, Threads, Counters
  <1>3. QueuedReaders = {} /\ ActiveReaders = {} /\ QueuedWriters = {} /\ ActiveWriters = {}
    BY <1>1 DEF Init, Threads, QueuedReaders, ActiveReaders, QueuedWriters, ActiveWriters
  <1>4. Counted
    BY <1>1, <1>3, FS_EmptySet
       DEF Init, Counted, Counters, readers_queue, active_readers, writers_queue, active_writer
  <1>5. ReadersWoken /\ WritersWoken
    BY <1>1 DEF Init, Threads, ReadersWoken, WritersWoken
  <1> QED
    BY <1>2, <1>4, <1>5 DEF IInv

\* Every step keeps the invariant.
LEMMA Inductive == IInv /\ [Next]_vars => IInv'
  <1>1. IInv /\ Next => IInv'
    BY ShapeStep, CountedStep, ReadersWokenStep, WritersWokenStep DEF IInv
  <1>2. IInv /\ UNCHANGED vars => IInv'
    BY DEF IInv, vars, events, Shape, Placed, Counted, readers_queue, active_readers, writers_queue,
           active_writer, ReadersWoken, WritersWoken, Entering, Writing,
           Reading, Leaving, LettingIn, QueuedReaders, ActiveReaders, QueuedWriters, ActiveWriters
  <1> QED
    BY <1>1, <1>2

\* The counters count the threads in the sections of winwr.c 27-58, and whoever
\* waits for an event leaves behind somebody who will set it.
THEOREM Invariant == Spec => []IInv
  BY Initially, Inductive, PTL DEF Spec

\* The interlocked counters stay between 0 and the number of threads, and only
\* readers wait for can_read, only writers for can_write.
THEOREM TypeCorrect == Spec => []TypeOK
  <1>1. ASSUME IInv PROVE TypeOK
    <2>1. /\ QueuedReaders \subseteq Readers /\ ActiveReaders \subseteq Readers
          /\ QueuedWriters \subseteq Writers /\ ActiveWriters \subseteq Writers
      BY DEF QueuedReaders, ActiveReaders, QueuedWriters, ActiveWriters
    <2>2. /\ Cardinality(QueuedReaders) \in 0 .. Cardinality(Readers)
          /\ Cardinality(ActiveReaders) \in 0 .. Cardinality(Readers)
          /\ Cardinality(QueuedWriters) \in 0 .. Cardinality(Writers)
          /\ Cardinality(ActiveWriters) \in 0 .. Cardinality(Writers)
      BY <2>1, WinRWAssumption, FS_Subset, FS_CardinalityType
    <2> QED
      BY <1>1, <2>2 DEF IInv, Shape, Counted, TypeOK
  <1> QED
    BY <1>1, Invariant, PTL

\* However many readers and writers there are, and however their tests and
\* waits interleave, some thread that has not ended is not waiting.
THEOREM NotAllWaiting == Spec => []SomebodyRuns
  <1>1. ASSUME IInv, NEW t \in Threads, at[t] # "return"
        PROVE  \E u \in Threads : at[u] # "return" /\ ~Waits(u)
    <2> USE <1>1 DEF IInv
    <2>1. CASE can_write.waiting # {}
      <3>1. can_write.waiting \subseteq Writers /\ ~can_write.signalled
        BY <2>1 DEF Shape, Placed
      <3>2. Entering \/ Reading \/ Leaving \/ LettingIn
        BY <2>1, <3>1 DEF WritersWoken
      <3>3. CASE Entering \/ Reading
        BY <3>1, <3>3, WinRWAssumption DEF Entering, Reading, Waits, Threads, Placed
      <3>4. CASE Leaving
        <4>1. can_read.waiting \subseteq Readers
          BY DEF Shape
        <4> QED
          BY <3>4, <4>1, WinRWAssumption DEF Leaving, Waits, Threads
      <3>5. CASE LettingIn
        <4>1. CASE can_read.signalled
          BY <3>1, <3>5, <4>1, WinRWAssumption DEF LettingIn, QueuedReaders, Waits, Threads, Placed
        <4>2. CASE \E w \in Writers : at[w] = "let readers"
          BY <4>2, WinRWAssumption DEF Waits, Threads, Placed
        <4> QED
          BY <3>5, <4>1, <4>2 DEF LettingIn
      <3> QED
        BY <3>2, <3>3, <3>4, <3>5
    <2>2. CASE can_write.waiting = {} /\ can_read.waiting # {}
      <3>1. can_read.waiting \subseteq Readers /\ ~can_read.signalled
        BY <2>2 DEF Shape, Placed
      <3>2. Entering \/ Writing
        BY <2>2, <3>1 DEF ReadersWoken
      <3> QED
        BY <2>2, <3>1, <3>2, WinRWAssumption DEF Entering, Writing, Waits, Threads
    <2>3. CASE can_write.waiting = {} /\ can_read.waiting = {}
      BY <2>3 DEF Waits
    <2> QED
      BY <2>1, <2>2, <2>3
  <1>2. IInv => SomebodyRuns
    BY <1>1 DEF SomebodyRuns
  <1> QED
    BY <1>2, Invariant, PTL
=============================================================================
