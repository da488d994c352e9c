------------------------ MODULE ReadersWritersProofs ------------------------
(***************************************************************************)
(* Theorems about ReadersWriters, for every number of readers and writers, *)
(* for every choice of Faults and every bound: the program implements the  *)
(* read-write lock.                                                        *)
(***************************************************************************)
EXTENDS ReadersWriters, ProcessGroupProofs, FiniteSetTheorems

USE DEF Sems, active_writer, numb_of_readers, writers_queue, readers_queue, bin_sem

(***************************************************************************)
(* What each of the four arrays of operations needs and does.              *)
(***************************************************************************)
\* semop with start_read, which needs two semaphores to be zero.
LEMMA StartReadArray ==
    ASSUME NEW v \in [Sems -> Nat]
    PROVE  /\ Ready5(v, start_read) => v[active_writer] = 0 /\ v[writers_queue] = 0
           /\ After5(v, start_read) \in [Sems -> Nat]
           /\ After5(v, start_read)[numb_of_readers] = v[numb_of_readers] + 1
           /\ \A s \in Sems \ {numb_of_readers} : After5(v, start_read)[s] = v[s]
  <1>1. /\ start_read[1].num = readers_queue /\ start_read[1].op = 1
        /\ start_read[2].num = active_writer /\ start_read[2].op = 0
        /\ start_read[3].num = writers_queue /\ start_read[3].op = 0
        /\ start_read[4].num = numb_of_readers /\ start_read[4].op = 1
        /\ start_read[5].num = readers_queue /\ start_read[5].op = -1
    BY DEF start_read, Sembuf
  <1>2. /\ After2(v, start_read) \in [Sems -> Int]
        /\ After2(v, start_read)[readers_queue] = v[readers_queue] + 1
        /\ \A s \in Sems \ {readers_queue} : After2(v, start_read)[s] = v[s]
    BY <1>1 DEF After2, Apply
  <1>3. /\ After4(v, start_read) \in [Sems -> Int]
        /\ After4(v, start_read)[readers_queue] = v[readers_queue] + 1
        /\ After4(v, start_read)[numb_of_readers] = v[numb_of_readers] + 1
        /\ \A s \in Sems \ {readers_queue, numb_of_readers} : After4(v, start_read)[s] = v[s]
    BY <1>1, <1>2 DEF After4, Apply
  <1>4. /\ After5(v, start_read) \in [Sems -> Int]
        /\ After5(v, start_read)[numb_of_readers] = v[numb_of_readers] + 1
        /\ \A s \in Sems \ {numb_of_readers} : After5(v, start_read)[s] = v[s]
    BY <1>1, <1>3 DEF After5, Apply
  <1>5. After5(v, start_read) \in [Sems -> Nat]
    BY <1>4
  <1>6. Ready5(v, start_read) => v[active_writer] = 0 /\ v[writers_queue] = 0
    BY <1>1, <1>2 DEF Ready5, Ready2, Ready, Apply
  <1> QED
    BY <1>4, <1>5, <1>6

\* semop with start_write, which needs no reader and the binary semaphore.
LEMMA StartWriteArray ==
    ASSUME NEW v \in [Sems -> Nat], Ready5(v, start_write)
    PROVE  /\ v[numb_of_readers] = 0 /\ v[bin_sem] >= 1
           /\ After5(v, start_write) \in [Sems -> Nat]
           /\ After5(v, start_write)[active_writer] = v[active_writer] + 1
           /\ After5(v, start_write)[bin_sem] = v[bin_sem] - 1
           /\ \A s \in Sems \ {active_writer, bin_sem} : After5(v, start_write)[s] = v[s]
  <1>1. /\ start_write[1].num = writers_queue /\ start_write[1].op = 1
        /\ start_write[2].num = numb_of_readers /\ start_write[2].op = 0
        /\ start_write[3].num = bin_sem /\ start_write[3].op = -1
        /\ start_write[4].num = active_writer /\ start_write[4].op = 1
        /\ start_write[5].num = writers_queue /\ start_write[5].op = -1
    BY DEF start_write, Sembuf
  <1>2. /\ After2(v, start_write) \in [Sems -> Int]
        /\ After2(v, start_write)[writers_queue] = v[writers_queue] + 1
        /\ \A s \in Sems \ {writers_queue} : After2(v, start_write)[s] = v[s]
    BY <1>1 DEF After2, Apply
  <1>3. /\ After4(v, start_write) \in [Sems -> Int]
        /\ After4(v, start_write)[writers_queue] = v[writers_queue] + 1
        /\ After4(v, start_write)[active_writer] = v[active_writer] + 1
        /\ After4(v, start_write)[bin_sem] = v[bin_sem] - 1
        /\ After4(v, start_write)[numb_of_readers] = v[numb_of_readers]
        /\ After4(v, start_write)[readers_queue] = v[readers_queue]
    BY <1>1, <1>2 DEF After4, Apply
  <1>4. /\ After5(v, start_write) \in [Sems -> Int]
        /\ After5(v, start_write)[active_writer] = v[active_writer] + 1
        /\ After5(v, start_write)[bin_sem] = v[bin_sem] - 1
        /\ \A s \in Sems \ {active_writer, bin_sem} : After5(v, start_write)[s] = v[s]
    BY <1>1, <1>3 DEF After5, Apply
  <1>5. v[numb_of_readers] = 0 /\ v[bin_sem] >= 1
    <2>1. v[numb_of_readers] = 0
      BY <1>1 DEF Ready5, Ready2, Ready, Apply
    <2>2. v[bin_sem] >= 1
      BY <1>1, <1>2 DEF Ready5, Ready
    <2> QED
      BY <2>1, <2>2
  <1>6. After5(v, start_write) \in [Sems -> Nat]
    BY <1>4, <1>5
  <1> QED
    BY <1>4, <1>5, <1>6

\* semop with stop_read and with stop_write.
LEMMA StopArrays ==
    ASSUME NEW v \in [Sems -> Nat]
    PROVE  /\ Ready(v, stop_read[1]) =>
                /\ Apply(v, stop_read[1]) \in [Sems -> Nat]
                /\ Apply(v, stop_read[1])[numb_of_readers] = v[numb_of_readers] - 1
                /\ \A s \in Sems \ {numb_of_readers} : Apply(v, stop_read[1])[s] = v[s]
           /\ Ready2(v, stop_write) =>
                /\ After2(v, stop_write) \in [Sems -> Nat]
                /\ After2(v, stop_write)[active_writer] = v[active_writer] - 1
                /\ After2(v, stop_write)[bin_sem] = v[bin_sem] + 1
                /\ \A s \in Sems \ {active_writer, bin_sem} : After2(v, stop_write)[s] = v[s]
  <1>1. /\ stop_read[1].num = numb_of_readers /\ stop_read[1].op = -1
        /\ stop_write[1].num = active_writer /\ stop_write[1].op = -1
        /\ stop_write[2].num = bin_sem /\ stop_write[2].op = 1
    BY DEF stop_read, stop_write, Sembuf
  <1>2. Ready(v, stop_read[1]) =>
            /\ Apply(v, stop_read[1]) \in [Sems -> Nat]
            /\ Apply(v, stop_read[1])[numb_of_readers] = v[numb_of_readers] - 1
            /\ \A s \in Sems \ {numb_of_readers} : Apply(v, stop_read[1])[s] = v[s]
    BY <1>1 DEF Ready, Apply
  <1>3. Ready2(v, stop_write) =>
            /\ After2(v, stop_write) \in [Sems -> Nat]
            /\ After2(v, stop_write)[active_writer] = v[active_writer] - 1
            /\ After2(v, stop_write)[bin_sem] = v[bin_sem] + 1
            /\ \A s \in Sems \ {active_writer, bin_sem} : After2(v, stop_write)[s] = v[s]
    BY <1>1 DEF Ready2, Ready, After2, Apply
  <1> QED
    BY <1>2, <1>3

(***************************************************************************)
(* Type correctness.                                                       *)
(***************************************************************************)
\* The places a child can be at.
LEMMA PlacesOfChildren ==
    {"read", "stop_read", "load", "store", "stop_write", "unborn", "loop", "sleep", "P", "eintr",
     "gone"} = Places
  BY DEF Places, Reading, Writing

\* The types hold at the start.
LEMMA InitType == Init => TypeOK
  <1> SUFFICES ASSUME Init PROVE TypeOK
    OBVIOUS
  <1>1. GroupTypeOK(Places)
    BY GroupInitType, PlacesOfChildren DEF Init
  <1>2. /\ sem \in [Sems -> Nat]
        /\ buf \in Letters /\ reg \in [Writers -> Letters]
    BY LettersAssumption DEF Init, Letters
  <1>3. died \in [Children -> Reading \cup Writing \cup {"none"}]
    BY DEF Init
  <1> QED
    BY <1>1, <1>2, <1>3 DEF TypeOK

\* Every step keeps the types.
LEMMA TypeStep == TypeOK /\ RolesKept /\ [Next]_vars => TypeOK'
  <1> SUFFICES ASSUME TypeOK, RolesKept, [Next]_vars PROVE TypeOK'
    OBVIOUS
  <1>g. GroupTypeOK(Places)
    BY DEF TypeOK
  <1> USE DEF shm
  <1>1. ASSUME NEW p \in Children, ChildStep(p) PROVE TypeOK'
    <2>1. CASE (LoopAgain(p) \/ LoopEnds(p) \/ Wake(p) \/ ChildHandler(p)) /\ UNCHANGED <<sem, shm, died>>
      <3>1. GroupTypeOK(Places)'
        BY <1>g, <2>1, GroupSteps, PlacesOfChildren DEF LoopAgain, LoopEnds, Wake
      <3> QED
        BY <2>1, <3>1 DEF TypeOK
    <2>2. CASE Interrupted(p) \/ SemopFails(p)
      <3>1. GroupTypeOK(Places)'
        BY <1>g, <2>2, GroupSteps, PlacesOfChildren DEF Interrupted, SemopFails
      <3> QED
        BY <2>2, <3>1 DEF TypeOK, Interrupted, SemopFails
    <2>3. CASE Start(p)
      <3>1. GroupTypeOK(Places)'
        BY <1>g, <2>3, GroupSteps, PlacesOfChildren DEF Start
      <3>2. sem' \in [Sems -> Nat]
        <4>1. sem \in [Sems -> Nat] /\ Ready5(sem, start_of(p)) /\ sem' = After5(sem, start_of(p))
          BY <2>3 DEF Start, CanStart, TypeOK
        <4>2. CASE start_of(p) = start_write
          BY <4>1, <4>2, StartWriteArray
        <4>3. CASE start_of(p) = start_read
          BY <4>1, <4>3, StartReadArray
        <4> QED
          BY <4>2, <4>3 DEF start_of
      <3> QED
        BY <2>3, <3>1, <3>2 DEF TypeOK, Start
    <2>4. CASE Read(p)
      <3>1. GroupTypeOK(Places)'
        BY <1>g, <2>4, GroupSteps, PlacesOfChildren DEF Read
      <3> QED
        BY <2>4, <3>1 DEF TypeOK, Read
    <2>5. CASE StopRead(p)
      <3>1. GroupTypeOK(Places)'
        BY <1>g, <2>5, GroupSteps, PlacesOfChildren DEF StopRead
      <3> QED
        BY <2>5, <3>1, StopArrays DEF TypeOK, StopRead
    <2>6. CASE Load(p)
      <3>1. GroupTypeOK(Places)'
        BY <1>g, <2>6, GroupSteps, PlacesOfChildren DEF Load
      <3> QED
        BY <2>6, <3>1 DEF TypeOK, Load
    <2>7. CASE Store(p)
      <3>1. GroupTypeOK(Places)'
        BY <1>g, <2>7, GroupSteps, PlacesOfChildren DEF Store
      <3>2. p \in Writers
        BY <2>7 DEF Store, RolesKept, Writing
      <3>3. buf' \in Letters
        BY <2>7, <3>2, LettersAssumption DEF Store, TypeOK, Letters
      <3>4. reg' \in [Writers -> Letters]
        BY <2>7, <3>2, LettersAssumption DEF Store, TypeOK, Letters
      <3> QED
        BY <2>7, <3>1, <3>3, <3>4 DEF TypeOK, Store
    <2>8. CASE StopWrite(p)
      <3>1. GroupTypeOK(Places)'
        BY <1>g, <2>8, GroupSteps, PlacesOfChildren DEF StopWrite
      <3> QED
        BY <2>8, <3>1, StopArrays DEF TypeOK, StopWrite
    <2> QED
      BY <1>1, <2>1, <2>2, <2>3, <2>4, <2>5, <2>6, <2>7, <2>8 DEF ChildStep
  <1>2. CASE MainStep /\ UNCHANGED <<sem, shm, died>>
    BY <1>g, <1>2, ParentSteps, PlacesOfChildren DEF TypeOK
  <1>3. CASE Environment
    <2>1. CASE (ForkFails \/ Sigint) /\ UNCHANGED <<sem, shm, died>>
      BY <1>g, <2>1, ParentSteps, PlacesOfChildren DEF TypeOK
    <2>2. ASSUME NEW p \in Children, Killed(p) PROVE TypeOK'
      <3>1. GroupTypeOK(Places)'
        BY <1>g, <2>2, GroupSteps, PlacesOfChildren DEF Killed, Sigkill
      <3>2. died' \in [Children -> Reading \cup Writing \cup {"none"}]
        BY <2>2 DEF Killed, TypeOK
      <3> QED
        BY <2>2, <3>1, <3>2 DEF TypeOK, Killed
    <2>3. ASSUME NEW p \in Children, Sigstop(p, Waiting(p)) \/ Sigcont(p), UNCHANGED <<sem, shm, died>>
          PROVE  TypeOK'
      <3>1. Waiting(p) \in BOOLEAN
        BY DEF Waiting
      <3>2. GroupTypeOK(Places)'
        BY <1>g, <2>3, <3>1, GroupSteps, PlacesOfChildren
      <3> QED
        BY <2>3, <3>2 DEF TypeOK
    <2> QED
      BY <1>3, <2>1, <2>2, <2>3 DEF Environment
  <1>4. CASE UNCHANGED vars
    BY <1>4 DEF vars, group, env, TypeOK, GroupTypeOK
  <1> QED
    BY <1>1, <1>2, <1>3, <1>4 DEF Next

(***************************************************************************)
(* The kinds of steps, by what they do to the lock.                        *)
(***************************************************************************)
Inside == Reading \cup Writing

\* Nobody starts, stops or dies; who moves is outside before and after.
Quiet ==
    /\ UNCHANGED <<sem, shm, died>>
    /\ removed => removed'
    /\ \A q \in Children :
          \/ pc'[q] = pc[q]
          \/ pc[q] \notin Inside \cup {"gone"} /\ pc'[q] \notin Inside

\* stop_read or stop_write finds the semaphores removed.
LeavesRemoved(p) ==
    /\ removed /\ removed'
    /\ pc[p] \in Inside /\ Goto(p, "gone")
    /\ UNCHANGED <<sem, shm, died>>

\* Every step is one of those treated below.
LEMMA KindsOfSteps ==
    ASSUME TypeOK, [Next]_vars
    PROVE  \/ Quiet
           \/ \E p \in Children :
                 \/ Start(p) \/ Read(p) \/ StopRead(p) \/ Load(p) \/ Store(p) \/ StopWrite(p)
                 \/ LeavesRemoved(p)
                 \/ Killed(p)
  <1> USE DEF Inside, Reading, Writing
  <1>g. GroupTypeOK(Places)
    BY DEF TypeOK
  <1>0. ASSUME NEW p \in Children, NEW to \in {"loop", "sleep", "P", "eintr", "gone"}, Goto(p, to),
               pc[p] \notin Inside \cup {"gone"}, removed' = removed, UNCHANGED <<sem, shm, died>>
        PROVE  Quiet
    BY <1>g, <1>0 DEF Quiet, Goto, GroupTypeOK
  <1>1. ASSUME pc' = pc, removed => removed', UNCHANGED <<sem, shm, died>> PROVE Quiet
    BY <1>1 DEF Quiet
  <1>2. ASSUME NEW p \in Children, ChildStep(p)
        PROVE  \/ Quiet
               \/ Start(p) \/ Read(p) \/ StopRead(p) \/ Load(p) \/ Store(p) \/ StopWrite(p)
               \/ LeavesRemoved(p)
    <2>1. CASE LoopAgain(p) /\ UNCHANGED <<sem, shm, died>>
      BY <1>0, <2>1 DEF LoopAgain, Moves
    <2>2. CASE LoopEnds(p) /\ UNCHANGED <<sem, shm, died>>
      BY <1>0, <2>2 DEF LoopEnds, Quits, Ends
    <2>3. CASE Wake(p) /\ UNCHANGED <<sem, shm, died>>
      BY <1>0, <2>3 DEF Wake, Moves
    <2>4. CASE ChildHandler(p) /\ UNCHANGED <<sem, shm, died>>
      BY <1>1, <2>4 DEF ChildHandler, Handler
    <2>5. CASE Interrupted(p)
      BY <1>0, <2>5 DEF Interrupted, Waiting, QuitsInterrupted, Ends
    <2>6. CASE SemopFails(p)
      <3>1. CASE pc[p] \in {"eintr", "P"}
        BY <1>0, <2>6, <3>1 DEF SemopFails, Quits, Ends
      <3>2. CASE pc[p] \in {"stop_read", "stop_write"} /\ removed
        BY <2>6, <3>2 DEF SemopFails, Quits, Ends, LeavesRemoved
      <3> QED
        BY <2>6, <3>1, <3>2 DEF SemopFails
    <2> QED
      BY <1>2, <2>1, <2>2, <2>3, <2>4, <2>5, <2>6 DEF ChildStep
  <1>3. CASE MainStep /\ UNCHANGED <<sem, shm, died>>
    <2>1. ASSUME NEW p \in Children, Fork(p) PROVE Quiet
      BY <1>0, <1>3, <2>1 DEF Fork, Unborn
    <2>2. ASSUME NEW p \in Children, Wait(p) PROVE Quiet
      BY <1>1, <1>3, <2>2 DEF Wait
    <2>3. CASE Cleanup \/ MainHandler
      BY <1>1, <1>3, <2>3 DEF Cleanup, MainHandler, Handler
    <2> QED
      BY <1>3, <2>1, <2>2, <2>3 DEF MainStep
  <1>4. CASE Environment
    <2>1. CASE (ForkFails \/ Sigint) /\ UNCHANGED <<sem, shm, died>>
      BY <1>1, <2>1 DEF ForkFails, Sigint
    <2>2. ASSUME NEW p \in Children, Sigstop(p, Waiting(p)), UNCHANGED <<sem, shm, died>> PROVE Quiet
      BY <1>0, <1>1, <2>2 DEF Sigstop, Waiting
    <2>3. ASSUME NEW p \in Children, Sigcont(p), UNCHANGED <<sem, shm, died>> PROVE Quiet
      BY <1>1, <2>3 DEF Sigcont
    <2> QED
      BY <1>4, <2>1, <2>2, <2>3 DEF Environment
  <1>5. CASE UNCHANGED vars
    BY <1>1, <1>5 DEF vars, group, shm
  <1> QED
    BY <1>2, <1>3, <1>4, <1>5 DEF Next

(***************************************************************************)
(* Each kind of step keeps the invariant and is a step of the lock.        *)
(***************************************************************************)
LockPart ==
    /\ Exclusion
    /\ SemaphoresTell
    /\ QueuesNeverSeen
    /\ DeadAreGone
    /\ RolesKept
    /\ LoadedIsCurrent

LockStep == LockPart' /\ [Lock!Next]_(Lock!lvars)

\* The children inside can be counted.
LEMMA HoldingIsFinite == \A places : IsFiniteSet(Holding(places))
  BY GroupAssumption, FS_Subset DEF Holding

\* A step that moves nobody in or out and leaves semaphores and memory alone.
LEMMA QuietStep == ASSUME TypeOK, LockPart, Quiet PROVE LockStep
  <1>1. \A places \in SUBSET Inside : Holding(places)' = Holding(places)
    BY DEF Quiet, Holding
  <1>2. /\ Reading \in SUBSET Inside /\ Writing \in SUBSET Inside
        /\ {"load", "store"} \in SUBSET Inside /\ {"stop_write"} \in SUBSET Inside
    BY DEF Inside, Reading, Writing
  <1>3. /\ Holding(Reading)' = Holding(Reading) /\ Holding(Writing)' = Holding(Writing)
        /\ Holding({"load", "store"})' = Holding({"load", "store"})
        /\ Holding({"stop_write"})' = Holding({"stop_write"})
    BY <1>1, <1>2
  <1>4. UNCHANGED Lock!lvars
    BY <1>3 DEF Lock!lvars, Quiet, shm
  <1>5. Exclusion' /\ SemaphoresTell' /\ QueuesNeverSeen'
    BY <1>3 DEF Quiet, LockPart, Exclusion, SemaphoresTell, QueuesNeverSeen
  <1>6. DeadAreGone' /\ RolesKept'
    BY DEF Quiet, LockPart, DeadAreGone, RolesKept, Inside
  <1>7. LoadedIsCurrent'
    BY DEF Quiet, LockPart, LoadedIsCurrent, Inside, Writing, Reading, shm, Writers, Children
  <1> QED
    BY <1>4, <1>5, <1>6, <1>7 DEF LockStep, LockPart

\* A child killed inside holds on to what it held.
LEMMA KilledStep == ASSUME TypeOK, LockPart, NEW p \in Children, Killed(p) PROVE LockStep
  <1> USE DEF Inside, Reading, Writing
  <1>0. /\ pc \in [Children -> Places] /\ died \in [Children -> Inside \cup {"none"}]
        /\ pc' = [pc EXCEPT ![p] = "gone"] /\ pc[p] # "gone"
        /\ died' = [died EXCEPT ![p] = IF pc[p] \in Inside THEN pc[p] ELSE "none"]
        /\ died[p] = "none"
        /\ UNCHANGED <<sem, buf, reg, removed>>
    BY DEF TypeOK, GroupTypeOK, Killed, Sigkill, Alive, Quits, Ends, Goto, shm, LockPart, DeadAreGone
  <1>1. ASSUME NEW places \in SUBSET Inside PROVE Holding(places)' = Holding(places)
    BY <1>0 DEF Holding
  <1>2. /\ Reading \in SUBSET Inside /\ Writing \in SUBSET Inside
        /\ {"load", "store"} \in SUBSET Inside /\ {"stop_write"} \in SUBSET Inside
    OBVIOUS
  <1>3. /\ Holding(Reading)' = Holding(Reading) /\ Holding(Writing)' = Holding(Writing)
        /\ Holding({"load", "store"})' = Holding({"load", "store"})
        /\ Holding({"stop_write"})' = Holding({"stop_write"})
    BY <1>1, <1>2
  <1> HIDE DEF Inside, Reading, Writing
  <1>4. UNCHANGED Lock!lvars
    BY <1>0, <1>3 DEF Lock!lvars
  <1>5. Exclusion' /\ SemaphoresTell' /\ QueuesNeverSeen'
    BY <1>0, <1>3 DEF LockPart, Exclusion, SemaphoresTell, QueuesNeverSeen
  <1>6. DeadAreGone' /\ RolesKept'
    BY <1>0 DEF LockPart, DeadAreGone, RolesKept, Inside, Reading, Writing
  <1>7. LoadedIsCurrent'
    BY <1>0 DEF LockPart, LoadedIsCurrent, Writers, Children
  <1> QED
    BY <1>4, <1>5, <1>6, <1>7 DEF LockStep, LockPart

\* Exclusion and the roles say what a child inside excludes.
LEMMA InsideAlone ==
    ASSUME TypeOK, LockPart, NEW p \in Children
    PROVE  /\ pc[p] \in Writing => /\ Holding(Writing) = {p} /\ Holding(Reading) = {}
                                   /\ p \in Writers /\ died[p] = "none"
           /\ pc[p] \in Reading => /\ p \in Holding(Reading) /\ Holding(Writing) = {}
                                   /\ p \in Readers /\ died[p] = "none"
  <1>1. pc[p] \in Inside => died[p] = "none"
    BY DEF LockPart, DeadAreGone, TypeOK, Inside, Reading, Writing
  <1>2. CASE pc[p] \in Writing
    <2>1. p \in Holding(Writing)
      BY <1>2 DEF Holding
    <2> QED
      BY <1>1, <1>2, <2>1 DEF LockPart, Exclusion, RolesKept, Inside, Reading, Writing
  <1>3. CASE pc[p] \in Reading
    <2>1. p \in Holding(Reading)
      BY <1>3 DEF Holding
    <2> QED
      BY <1>1, <1>3, <2>1 DEF LockPart, Exclusion, RolesKept, Inside, Reading, Writing
  <1> QED
    BY <1>2, <1>3

\* start_write: no reader and no writer is inside.
LEMMA StartWriteStep ==
    ASSUME TypeOK, LockPart, NEW p \in Writers, Start(p) PROVE LockStep
  <1>0. /\ p \in Children /\ p \notin Readers
        /\ pc \in [Children -> Places] /\ sem \in [Sems -> Nat]
        /\ pc[p] = "P" /\ pc' = [pc EXCEPT ![p] = "load"]
        /\ ~removed /\ ~removed'
        /\ Ready5(sem, start_write) /\ sem' = After5(sem, start_write)
        /\ UNCHANGED <<buf, reg, died>>
    BY GroupAssumption
       DEF TypeOK, GroupTypeOK, Start, CanStart, start_of, Moves, Goto, shm, Writers, Readers, Children
  <1>1. sem[numb_of_readers] = 0 /\ sem[bin_sem] >= 1
    BY <1>0, StartWriteArray
  <1>2. Holding(Writing) = {}
    BY <1>0, <1>1 DEF LockPart, SemaphoresTell
  <1>3. Holding(Reading) = {}
    <2>1. Cardinality(Holding(Reading)) = 0
      BY <1>0, <1>1 DEF LockPart, SemaphoresTell
    <2> QED
      BY <2>1, HoldingIsFinite, FS_EmptySet
  <1>4. died[p] = "none"
    BY <1>0 DEF LockPart, DeadAreGone
  <1>5. /\ Holding(Writing)' = {p} /\ Holding(Reading)' = {}
        /\ Holding({"load", "store"})' = {p} /\ Holding({"stop_write"})' = {}
        /\ Holding({"load", "store"}) = {} /\ Holding({"stop_write"}) = {}
    BY <1>0, <1>2, <1>3, <1>4 DEF Holding, Reading, Writing
  <1>6. [Lock!Next]_(Lock!lvars)
    <2>1. Lock!BeginWrite(p)
      BY <1>0, <1>3, <1>5 DEF Lock!BeginWrite
    <2> QED
      BY <2>1 DEF Lock!Next
  <1>7. Exclusion' /\ SemaphoresTell' /\ QueuesNeverSeen'
    <2>1. /\ sem'[active_writer] = sem[active_writer] + 1
          /\ sem'[bin_sem] = sem[bin_sem] - 1
          /\ sem'[numb_of_readers] = sem[numb_of_readers]
          /\ sem'[writers_queue] = sem[writers_queue] /\ sem'[readers_queue] = sem[readers_queue]
      BY <1>0, StartWriteArray
    <2>2. sem[active_writer] = 0 /\ sem[bin_sem] = 1
      BY <1>0, <1>2 DEF LockPart, SemaphoresTell
    <2> QED
      BY <1>1, <1>5, <2>1, <2>2, FS_EmptySet DEF LockPart, Exclusion, SemaphoresTell, QueuesNeverSeen
  <1>8. DeadAreGone' /\ RolesKept'
    BY <1>0, <1>4 DEF LockPart, DeadAreGone, RolesKept, Reading, Writing
  <1>9. LoadedIsCurrent'
    BY <1>0 DEF LockPart, LoadedIsCurrent, Writers, Children
  <1> QED
    BY <1>6, <1>7, <1>8, <1>9 DEF LockStep, LockPart

\* start_read: no writer is inside.
LEMMA StartReadStep ==
    ASSUME TypeOK, LockPart, NEW p \in Readers, Start(p) PROVE LockStep
  <1>0. /\ p \in Children /\ p \notin Writers
        /\ pc \in [Children -> Places] /\ sem \in [Sems -> Nat]
        /\ pc[p] = "P" /\ pc' = [pc EXCEPT ![p] = "read"]
        /\ ~removed /\ ~removed'
        /\ Ready5(sem, start_read) /\ sem' = After5(sem, start_read)
        /\ UNCHANGED <<buf, reg, died>>
    BY GroupAssumption
       DEF TypeOK, GroupTypeOK, Start, CanStart, start_of, Moves, Goto, shm, Writers, Readers, Children
  <1>1. sem[active_writer] = 0
    BY <1>0, StartReadArray
  <1>2. Holding(Writing) = {}
    BY <1>0, <1>1 DEF LockPart, SemaphoresTell
  <1>3. died[p] = "none" /\ p \notin Holding(Reading)
    BY <1>0 DEF LockPart, DeadAreGone, Holding, Reading
  <1>4. /\ Holding(Reading)' = Holding(Reading) \cup {p} /\ Holding(Writing)' = {}
        /\ Holding({"load", "store"})' = {} /\ Holding({"stop_write"})' = {}
        /\ Holding({"load", "store"}) = {} /\ Holding({"stop_write"}) = {}
    BY <1>0, <1>2, <1>3 DEF Holding, Reading, Writing
  <1>5. [Lock!Next]_(Lock!lvars)
    <2>1. Lock!BeginRead(p)
      BY <1>0, <1>4 DEF Lock!BeginRead
    <2> QED
      BY <2>1 DEF Lock!Next
  <1>6. Exclusion' /\ SemaphoresTell' /\ QueuesNeverSeen'
    <2>1. /\ sem'[numb_of_readers] = sem[numb_of_readers] + 1
          /\ \A s \in Sems \ {numb_of_readers} : sem'[s] = sem[s]
      BY <1>0, StartReadArray
    <2>2. Cardinality(Holding(Reading)') = Cardinality(Holding(Reading)) + 1
      BY <1>3, <1>4, HoldingIsFinite, FS_AddElement
    <2> QED
      BY <1>0, <1>2, <1>4, <2>1, <2>2 DEF LockPart, Exclusion, SemaphoresTell, QueuesNeverSeen
  <1>7. DeadAreGone' /\ RolesKept'
    BY <1>0, <1>3 DEF LockPart, DeadAreGone, RolesKept, Reading, Writing
  <1>8. LoadedIsCurrent'
    BY <1>0 DEF LockPart, LoadedIsCurrent, Writers, Children
  <1> QED
    BY <1>5, <1>6, <1>7, <1>8 DEF LockStep, LockPart

\* stop_read, or a child that ends in it because the semaphores are gone.
LEMMA StopReadStep ==
    ASSUME TypeOK, LockPart, NEW p \in Children, pc[p] \in Reading,
           StopRead(p) \/ LeavesRemoved(p)
    PROVE  LockStep
  <1>0. /\ pc \in [Children -> Places] /\ sem \in [Sems -> Nat]
        /\ pc'[p] \in {"loop", "gone"} /\ \A q \in Children \ {p} : pc'[q] = pc[q]
        /\ UNCHANGED <<buf, reg, died>>
        /\ removed' = removed
    BY DEF TypeOK, GroupTypeOK, StopRead, LeavesRemoved, Moves, Goto, shm
  <1>1. p \in Readers /\ died[p] = "none" /\ Holding(Writing) = {} /\ p \in Holding(Reading)
    BY InsideAlone
  <1>2. /\ Holding(Reading)' = Holding(Reading) \ {p} /\ Holding(Writing)' = {}
        /\ Holding({"load", "store"})' = {} /\ Holding({"stop_write"})' = {}
        /\ Holding({"load", "store"}) = {} /\ Holding({"stop_write"}) = {}
    BY <1>0, <1>1 DEF Holding, Reading, Writing
  <1>3. [Lock!Next]_(Lock!lvars)
    <2>1. Lock!EndRead(p)
      BY <1>0, <1>1, <1>2 DEF Lock!EndRead
    <2> QED
      BY <1>1, <2>1 DEF Lock!Next
  <1>4. Exclusion' /\ SemaphoresTell' /\ QueuesNeverSeen'
    <2>1. CASE LeavesRemoved(p)
      BY <1>2, <2>1 DEF LockPart, Exclusion, SemaphoresTell, QueuesNeverSeen, LeavesRemoved
    <2>2. CASE StopRead(p)
      <3>1. /\ sem'[numb_of_readers] = sem[numb_of_readers] - 1
            /\ \A s \in Sems \ {numb_of_readers} : sem'[s] = sem[s]
        BY <1>0, <2>2, StopArrays DEF StopRead
      <3>2. Cardinality(Holding(Reading)') = Cardinality(Holding(Reading)) - 1
        BY <1>1, <1>2, HoldingIsFinite, FS_RemoveElement
      <3> QED
        BY <1>0, <1>1, <1>2, <2>2, <3>1, <3>2
           DEF LockPart, Exclusion, SemaphoresTell, QueuesNeverSeen, StopRead
    <2> QED
      BY <2>1, <2>2
  <1>5. DeadAreGone' /\ RolesKept'
    BY <1>0, <1>1 DEF LockPart, DeadAreGone, RolesKept, Reading, Writing
  <1>6. LoadedIsCurrent'
    BY <1>0 DEF LockPart, LoadedIsCurrent, Writers, Children
  <1> QED
    BY <1>3, <1>4, <1>5, <1>6 DEF LockStep, LockPart

\* stop_write, or a child that ends in it because the semaphores are gone.
LEMMA StopWriteStep ==
    ASSUME TypeOK, LockPart, NEW p \in Children, pc[p] \in Writing,
           StopWrite(p) \/ LeavesRemoved(p)
    PROVE  LockStep
  <1>0. /\ pc \in [Children -> Places] /\ sem \in [Sems -> Nat]
        /\ pc'[p] \in {"loop", "gone"} /\ \A q \in Children \ {p} : pc'[q] = pc[q]
        /\ UNCHANGED <<buf, reg, died>>
        /\ removed' = removed
    BY DEF TypeOK, GroupTypeOK, StopWrite, LeavesRemoved, Moves, Goto, shm
  <1>1. /\ p \in Writers /\ died[p] = "none"
        /\ Holding(Writing) = {p} /\ Holding(Reading) = {}
    BY InsideAlone
  <1>2. /\ Holding(Reading)' = {} /\ Holding(Writing)' = {}
        /\ Holding({"load", "store"})' = {} /\ Holding({"stop_write"})' = {}
        /\ Holding({"load", "store"}) \cup Holding({"stop_write"}) = {p}
    BY <1>0, <1>1 DEF Holding, Reading, Writing
  <1>3. [Lock!Next]_(Lock!lvars)
    <2>1. Lock!EndWrite(p)
      BY <1>0, <1>1, <1>2 DEF Lock!EndWrite
    <2> QED
      BY <1>1, <2>1 DEF Lock!Next
  <1>4. Exclusion' /\ SemaphoresTell' /\ QueuesNeverSeen'
    <2>1. CASE LeavesRemoved(p)
      BY <1>2, <2>1 DEF LockPart, Exclusion, SemaphoresTell, QueuesNeverSeen, LeavesRemoved
    <2>2. CASE StopWrite(p)
      <3>1. /\ sem'[active_writer] = sem[active_writer] - 1
            /\ sem'[bin_sem] = sem[bin_sem] + 1
            /\ \A s \in Sems \ {active_writer, bin_sem} : sem'[s] = sem[s]
        BY <1>0, <2>2, StopArrays DEF StopWrite
      <3>2. /\ sem[active_writer] = 1 /\ sem[bin_sem] = 0
            /\ sem[numb_of_readers] = Cardinality(Holding(Reading))
        BY <1>1, <2>2 DEF LockPart, SemaphoresTell, StopWrite
      <3> QED
        BY <1>0, <1>1, <1>2, <2>2, <3>1, <3>2
           DEF LockPart, Exclusion, SemaphoresTell, QueuesNeverSeen, StopWrite
    <2> QED
      BY <2>1, <2>2
  <1>5. DeadAreGone' /\ RolesKept'
    BY <1>0, <1>1 DEF LockPart, DeadAreGone, RolesKept, Reading, Writing
  <1>6. LoadedIsCurrent'
    BY <1>0 DEF LockPart, LoadedIsCurrent, Writers, Children
  <1> QED
    BY <1>3, <1>4, <1>5, <1>6 DEF LockStep, LockPart

\* A child inside goes on: only the store is a step of the lock.
LEMMA InsideStep ==
    ASSUME TypeOK, LockPart, NEW p \in Children, Read(p) \/ Load(p) \/ Store(p)
    PROVE  LockStep
  <1>0. /\ pc \in [Children -> Places] /\ reg \in [Writers -> Letters]
        /\ \A q \in Children \ {p} : pc'[q] = pc[q]
        /\ UNCHANGED <<sem, died, removed>>
    BY DEF TypeOK, GroupTypeOK, Read, Load, Store, Moves, Goto, shm
  <1>1. CASE Read(p)
    <2>0. pc[p] = "read" /\ pc'[p] = "stop_read" /\ UNCHANGED <<buf, reg>>
      BY <1>0, <1>1 DEF Read, Moves, Goto, shm
    <2>1. p \in Readers /\ died[p] = "none" /\ Holding(Writing) = {} /\ p \in Holding(Reading)
      BY <2>0, InsideAlone DEF Reading
    <2>2. /\ Holding(Reading)' = Holding(Reading) /\ Holding(Writing)' = {}
          /\ Holding({"load", "store"})' = {} /\ Holding({"stop_write"})' = {}
          /\ Holding({"load", "store"}) = {} /\ Holding({"stop_write"}) = {}
      BY <1>0, <2>0, <2>1 DEF Holding, Reading, Writing
    <2>3. UNCHANGED Lock!lvars
      BY <2>0, <2>2 DEF Lock!lvars
    <2>4. Exclusion' /\ SemaphoresTell' /\ QueuesNeverSeen'
      BY <1>0, <2>1, <2>2 DEF LockPart, Exclusion, SemaphoresTell, QueuesNeverSeen
    <2>5. DeadAreGone' /\ RolesKept' /\ LoadedIsCurrent'
      BY <1>0, <2>0, <2>1
         DEF LockPart, DeadAreGone, RolesKept, LoadedIsCurrent, Reading, Writing, Writers, Children
    <2> QED
      BY <2>3, <2>4, <2>5 DEF LockStep, LockPart
  <1>2. CASE Load(p)
    <2>0. /\ pc[p] = "load" /\ pc'[p] = "store" /\ buf' = buf
          /\ reg' = [reg EXCEPT ![p] = buf]
      BY <1>0, <1>2 DEF Load, Moves, Goto
    <2>1. /\ p \in Writers /\ died[p] = "none"
          /\ Holding(Writing) = {p} /\ Holding(Reading) = {}
      BY <2>0, InsideAlone DEF Writing
    <2>2. /\ Holding(Reading)' = {} /\ Holding(Writing)' = {p}
          /\ Holding({"load", "store"})' = Holding({"load", "store"})
          /\ Holding({"stop_write"})' = Holding({"stop_write"})
      BY <1>0, <2>0, <2>1 DEF Holding, Reading, Writing
    <2>3. UNCHANGED Lock!lvars
      BY <2>0, <2>1, <2>2 DEF Lock!lvars
    <2>4. Exclusion' /\ SemaphoresTell' /\ QueuesNeverSeen'
      BY <1>0, <2>1, <2>2 DEF LockPart, Exclusion, SemaphoresTell, QueuesNeverSeen
    <2>5. DeadAreGone' /\ RolesKept'
      BY <1>0, <2>0, <2>1 DEF LockPart, DeadAreGone, RolesKept, Reading, Writing
    <2>6. LoadedIsCurrent'
      BY <1>0, <2>0 DEF LockPart, LoadedIsCurrent, Writers, Children
    <2> QED
      BY <2>3, <2>4, <2>5, <2>6 DEF LockStep, LockPart
  <1>3. CASE Store(p)
    <2>0. /\ pc[p] = "store" /\ pc'[p] = "stop_write" /\ reg' = [reg EXCEPT ![p] = 0]
          /\ buf' = IF reg[p] = NLetters - 1 THEN 0 ELSE reg[p] + 1
      BY <1>0, <1>3 DEF Store, Moves, Goto
    <2>1. /\ p \in Writers /\ died[p] = "none"
          /\ Holding(Writing) = {p} /\ Holding(Reading) = {}
      BY <2>0, InsideAlone DEF Writing
    <2>2. /\ Holding(Reading)' = {} /\ Holding(Writing)' = {p}
          /\ Holding({"load", "store"}) = {p} /\ Holding({"load", "store"})' = {}
          /\ Holding({"stop_write"}) = {} /\ Holding({"stop_write"})' = {p}
      BY <1>0, <2>0, <2>1 DEF Holding, Reading, Writing
    <2>3. reg[p] = buf
      BY <2>0, <2>1 DEF LockPart, LoadedIsCurrent
    <2>4. [Lock!Next]_(Lock!lvars)
      <3>1. Lock!Write(p)
        BY <2>0, <2>1, <2>2, <2>3 DEF Lock!Write
      <3> QED
        BY <2>1, <3>1 DEF Lock!Next
    <2>5. Exclusion' /\ SemaphoresTell' /\ QueuesNeverSeen'
      BY <1>0, <2>1, <2>2 DEF LockPart, Exclusion, SemaphoresTell, QueuesNeverSeen
    <2>6. DeadAreGone' /\ RolesKept'
      BY <1>0, <2>0, <2>1 DEF LockPart, DeadAreGone, RolesKept, Reading, Writing
    <2>7. LoadedIsCurrent'
      <3> SUFFICES ASSUME NEW q \in Writers, pc'[q] = "store" PROVE FALSE
        BY DEF LoadedIsCurrent
      <3>1. q # p /\ q \in Children
        BY <2>0 DEF Writers, Children
      <3>2. q \in Holding(Writing)
        BY <1>0, <3>1 DEF Holding, Writing
      <3> QED
        BY <2>1, <3>1, <3>2
    <2> QED
      BY <2>4, <2>5, <2>6, <2>7 DEF LockStep, LockPart
  <1> QED
    BY <1>1, <1>2, <1>3

(***************************************************************************)
(* The theorems.                                                           *)
(***************************************************************************)
\* Nobody is inside at the start, and the lock is free.
LEMMA InitLock == Init => LockPart /\ Lock!Init
  <1> SUFFICES ASSUME Init PROVE LockPart /\ Lock!Init
    OBVIOUS
  <1>1. \A places \in SUBSET Inside : Holding(places) = {}
    BY DEF Init, GroupInit, Holding, Inside, Reading, Writing
  <1>2. /\ Holding(Reading) = {} /\ Holding(Writing) = {}
        /\ Holding({"load", "store"}) = {} /\ Holding({"stop_write"}) = {}
    BY <1>1 DEF Inside, Reading, Writing
  <1>3. Lock!Init
    BY <1>2 DEF Init, Lock!Init
  <1>4. Exclusion /\ SemaphoresTell /\ QueuesNeverSeen
    BY <1>2, FS_EmptySet DEF Init, Exclusion, SemaphoresTell, QueuesNeverSeen
  <1>5. DeadAreGone /\ RolesKept /\ LoadedIsCurrent
    BY DEF Init, GroupInit, DeadAreGone, RolesKept, LoadedIsCurrent, Reading, Writing, Writers,
           Children
  <1> QED
    BY <1>3, <1>4, <1>5 DEF LockPart

\* Every step keeps the invariant of the lock and is a step of the lock or none.
LEMMA EveryStep == ASSUME TypeOK, LockPart, [Next]_vars PROVE LockStep
  <1>1. ASSUME NEW p \in Children, Start(p) PROVE LockStep
    BY <1>1, StartReadStep, StartWriteStep DEF Children, Writers, Readers
  <1>2. ASSUME NEW p \in Children, StopRead(p) \/ StopWrite(p) \/ LeavesRemoved(p) PROVE LockStep
    <2>1. pc[p] \in Inside
      BY <1>2 DEF StopRead, StopWrite, LeavesRemoved, Inside, Reading, Writing
    <2>2. /\ StopRead(p) => pc[p] \in Reading
          /\ StopWrite(p) => pc[p] \in Writing
      BY DEF StopRead, StopWrite, Reading, Writing
    <2> QED
      BY <1>2, <2>1, <2>2, StopReadStep, StopWriteStep DEF Inside
  <1> QED
    BY <1>1, <1>2, QuietStep, KilledStep, InsideStep, KindsOfSteps

\* Every variable keeps to the values the program can give it, a writer inside
\* is alone there, the semaphores say who is inside and the queues are never
\* seen, whatever signals come.
THEOREM Invariance == Spec => []IInv
  <1>1. Init => TypeOK /\ LockPart
    BY InitType, InitLock
  <1>2. TypeOK /\ LockPart /\ [Next]_vars => (TypeOK /\ LockPart)'
    <2> SUFFICES ASSUME TypeOK, LockPart, [Next]_vars PROVE TypeOK' /\ LockPart'
      OBVIOUS
    <2>1. TypeOK'
      BY TypeStep DEF LockPart
    <2>2. LockPart'
      BY EveryStep DEF LockStep
    <2> QED
      BY <2>1, <2>2
  <1>3. TypeOK /\ LockPart <=> IInv
    BY DEF IInv, LockPart
  <1> QED
    BY <1>1, <1>2, <1>3, PTL DEF Spec

\* The type invariant, of its own.
THEOREM TypeCorrect == Spec => []TypeOK
  <1>1. IInv => TypeOK
    BY DEF IInv
  <1> QED
    BY <1>1, Invariance, PTL

\* What keeps readers and writers apart, of its own.
THEOREM Safety == Spec => [](Exclusion /\ QueuesNeverSeen /\ SemaphoresTell)
  <1>1. IInv => Exclusion /\ QueuesNeverSeen /\ SemaphoresTell
    BY DEF IInv
  <1> QED
    BY <1>1, Invariance, PTL

\* The program implements the read-write lock: its semops and its load and
\* store of the byte are steps of the lock, or change nothing of it.
THEOREM Refinement == Spec => ImplementsLock
  <1>1. Init => Lock!Init
    BY InitLock
  <1>2. IInv /\ [Next]_vars => [Lock!Next]_(Lock!lvars)
    BY EveryStep DEF IInv, LockPart, LockStep
  <1> QED
    BY <1>1, <1>2, Invariance, PTL DEF Spec, ImplementsLock, Lock!Spec

(***************************************************************************)
(* The parent's count of the ends.                                         *)
(***************************************************************************)
\* Every step of the program is a step of the group.
LEMMA StepsOfGroup ==
    ASSUME TypeOK, [Next]_vars
    PROVE  \/ \E p \in Children : ChildGroupStep(p) \/ Fork(p) \/ Wait(p)
           \/ OthersGroupStep \/ UNCHANGED group
  <1>1. ASSUME NEW p \in Children, ChildStep(p) PROVE ChildGroupStep(p)
    <2>1. Alive(p)
      BY <1>1 DEF ChildStep, Running
    <2>2. ASSUME NEW to, Moves(p, to), to \notin {"unborn", "gone"} PROVE ChildGroupStep(p)
      BY <2>1, <2>2 DEF ChildGroupStep, GoesOn
    <2>3. ASSUME Quits(p) \/ QuitsInterrupted(p) PROVE ChildGroupStep(p)
      BY <2>1, <2>3 DEF ChildGroupStep, ComesToEnd
    <2>4. CASE LoopAgain(p) \/ Wake(p)
      BY <2>2, <2>4 DEF LoopAgain, Wake
    <2>5. CASE ChildHandler(p)
      BY <2>5 DEF ChildGroupStep
    <2>6. CASE LoopEnds(p) \/ Interrupted(p) \/ SemopFails(p)
      BY <2>3, <2>6 DEF LoopEnds, Interrupted, SemopFails
    <2>7. CASE Start(p)
      BY <2>2, <2>7 DEF Start
    <2>8. CASE Read(p) \/ StopRead(p)
      BY <2>2, <2>8 DEF Read, StopRead
    <2>9. CASE Load(p) \/ Store(p) \/ StopWrite(p)
      BY <2>2, <2>9 DEF Load, Store, StopWrite
    <2> QED
      BY <1>1, <2>4, <2>5, <2>6, <2>7, <2>8, <2>9 DEF ChildStep
  <1>2. CASE MainStep
    BY <1>2 DEF MainStep, OthersGroupStep
  <1>3. CASE Environment
    <2>1. ASSUME NEW p \in Children, Killed(p) PROVE ChildGroupStep(p)
      BY <2>1 DEF Killed, Sigkill, ChildGroupStep, ComesToEnd
    <2>2. ASSUME NEW p \in Children, Sigstop(p, Waiting(p)) \/ Sigcont(p)
          PROVE  ChildGroupStep(p)
      BY <2>2 DEF ChildGroupStep, Waiting
    <2> QED
      BY <1>3, <2>1, <2>2 DEF Environment, OthersGroupStep
  <1>4. UNCHANGED vars => UNCHANGED group
    BY DEF vars
  <1> QED
    BY <1>1, <1>2, <1>3, <1>4 DEF Next

\* RemovedLast: however many children there are and however they end, are stopped
\* and continued, at most two for each SIGSTOP live when the parent removes the
\* semaphores and the segment (wr.c 170-203), and none without a SIGSTOP.
THEOREM RemovedLast == Spec => []CleanupLast
  <1>1. Init => CountInv
    BY CountInit DEF Init
  <1>2. TypeOK /\ CountInv /\ [Next]_vars => CountInv'
    BY StepsOfGroup, CountStep DEF TypeOK
  <1>3. TypeOK /\ CountInv => CleanupLast
    BY CountBounds DEF TypeOK
  <1> QED
    BY <1>1, <1>2, <1>3, TypeCorrect, PTL DEF Spec
=============================================================================
