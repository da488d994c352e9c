--------------------------- MODULE ProdConsProofs ---------------------------
(***************************************************************************)
(* Theorems about ProdCons, for every number of producers, consumers,      *)
(* slots and letters, for every choice of Faults and every bound.          *)
(***************************************************************************)
EXTENDS ProdCons, ProcessGroupProofs

USE DEF Sems, BINARY, BEMPTY, BFULL

(***************************************************************************)
(* What each of the four arrays of operations needs, does and records.     *)
(***************************************************************************)
\* semop with the array Pprod.
LEMMA PprodArray ==
    ASSUME NEW v \in [Sems -> Nat], NEW d \in [Sems -> Int]
    PROVE  /\ Ready2(v, Pprod) <=> (v[BEMPTY] > 0 /\ v[BINARY] > 0)
           /\ After2(v, Pprod) \in [Sems -> Int]
           /\ After2(v, Pprod)[BEMPTY] = v[BEMPTY] - 1
           /\ After2(v, Pprod)[BINARY] = v[BINARY] - 1
           /\ After2(v, Pprod)[BFULL] = v[BFULL]
           /\ Adjust2(d, Pprod) \in [Sems -> Int]
           /\ Adjust2(d, Pprod)[BINARY] = d[BINARY] + 1
  <1>1. /\ Pprod[1].num = BEMPTY /\ Pprod[1].op = -1
        /\ Pprod[2].num = BINARY /\ Pprod[2].op = -1
    BY DEF Pprod, Sembuf, P
  <1> QED
    BY <1>1 DEF Ready2, Ready, After2, Apply, Adjust2, Adjust

\* semop with the array Pcons.
LEMMA PconsArray ==
    ASSUME NEW v \in [Sems -> Nat], NEW d \in [Sems -> Int]
    PROVE  /\ Ready2(v, Pcons) <=> (v[BFULL] > 0 /\ v[BINARY] > 0)
           /\ After2(v, Pcons) \in [Sems -> Int]
           /\ After2(v, Pcons)[BFULL] = v[BFULL] - 1
           /\ After2(v, Pcons)[BINARY] = v[BINARY] - 1
           /\ After2(v, Pcons)[BEMPTY] = v[BEMPTY]
           /\ Adjust2(d, Pcons) \in [Sems -> Int]
           /\ Adjust2(d, Pcons)[BINARY] = d[BINARY] + 1
  <1>1. /\ Pcons[1].num = BFULL /\ Pcons[1].op = -1
        /\ Pcons[2].num = BINARY /\ Pcons[2].op = -1
    BY DEF Pcons, Sembuf, P
  <1> QED
    BY <1>1 DEF Ready2, Ready, After2, Apply, Adjust2, Adjust

\* semop with the array Vprod.
LEMMA VprodArray ==
    ASSUME NEW v \in [Sems -> Nat], NEW d \in [Sems -> Int]
    PROVE  /\ Ready2(v, Vprod) <=> TRUE
           /\ After2(v, Vprod) \in [Sems -> Int]
           /\ After2(v, Vprod)[BINARY] = v[BINARY] + 1
           /\ After2(v, Vprod)[BFULL] = v[BFULL] + 1
           /\ After2(v, Vprod)[BEMPTY] = v[BEMPTY]
           /\ Adjust2(d, Vprod) \in [Sems -> Int]
           /\ Adjust2(d, Vprod)[BINARY] = d[BINARY] - 1
  <1>1. /\ Vprod[1].num = BINARY /\ Vprod[1].op = 1
        /\ Vprod[2].num = BFULL /\ Vprod[2].op = 1
    BY DEF Vprod, Sembuf, V
  <1> QED
    BY <1>1 DEF Ready2, Ready, After2, Apply, Adjust2, Adjust

\* semop with the array Vcons.
LEMMA VconsArray ==
    ASSUME NEW v \in [Sems -> Nat], NEW d \in [Sems -> Int]
    PROVE  /\ Ready2(v, Vcons) <=> TRUE
           /\ After2(v, Vcons) \in [Sems -> Int]
           /\ After2(v, Vcons)[BINARY] = v[BINARY] + 1
           /\ After2(v, Vcons)[BEMPTY] = v[BEMPTY] + 1
           /\ After2(v, Vcons)[BFULL] = v[BFULL]
           /\ Adjust2(d, Vcons) \in [Sems -> Int]
           /\ Adjust2(d, Vcons)[BINARY] = d[BINARY] - 1
  <1>1. /\ Vcons[1].num = BINARY /\ Vcons[1].op = 1
        /\ Vcons[2].num = BEMPTY /\ Vcons[2].op = 1
    BY DEF Vcons, Sembuf, V
  <1> QED
    BY <1>1 DEF Ready2, Ready, After2, Apply, Adjust2, Adjust

\* The end of a process leaves naturals, and adds what is not negative.
LEMMA UndoValues ==
    ASSUME NEW v \in [Sems -> Nat], NEW d \in [Sems -> Int]
    PROVE  /\ Undo(v, d) \in [Sems -> Nat]
           /\ d[BINARY] >= 0 => Undo(v, d)[BINARY] = v[BINARY] + d[BINARY]
  BY DEF Undo

(***************************************************************************)
(* Type correctness.                                                       *)
(***************************************************************************)
\* A semop that is carried out keeps the values natural.
LEMMA SemopType ==
    ASSUME TypeOK, NEW p \in Children, NEW a \in {Pprod, Pcons, Vprod, Vcons}, Semop(p, a)
    PROVE  sem' \in [Sems -> Nat] /\ adj' \in [Children -> [Sems -> Int]]
  <1>1. /\ sem \in [Sems -> Nat] /\ adj \in [Children -> [Sems -> Int]]
        /\ adj[p] \in [Sems -> Int]
        /\ Ready2(sem, a)
        /\ sem' = After2(sem, a)
        /\ adj' = [adj EXCEPT ![p] = Adjust2(adj[p], a)]
    BY DEF TypeOK, Semop, CanSemop
  <1>2. After2(sem, a) \in [Sems -> Nat] /\ Adjust2(adj[p], a) \in [Sems -> Int]
    <2>1. CASE a = Pprod
      BY <1>1, <2>1, PprodArray
    <2>2. CASE a = Pcons
      BY <1>1, <2>2, PconsArray
    <2>3. CASE a = Vprod
      BY <1>1, <2>3, VprodArray
    <2>4. CASE a = Vcons
      BY <1>1, <2>4, VconsArray
    <2> QED
      BY <2>1, <2>2, <2>3, <2>4
  <1> QED
    BY <1>1, <1>2

\* So does what the kernel undoes.
LEMMA UndoType ==
    ASSUME TypeOK, NEW p \in Children, SemUndo(p)
    PROVE  /\ sem' \in [Sems -> Nat] /\ adj' \in [Children -> [Sems -> Int]]
           /\ UNCHANGED <<prod_ptr, cons_ptr, alfa, buf>>
  <1>1. Undo(sem, adj[p]) \in [Sems -> Nat]
    BY UndoValues DEF TypeOK
  <1>2. [s \in Sems |-> 0] \in [Sems -> Int]
    OBVIOUS
  <1> QED
    BY <1>1, <1>2 DEF TypeOK, SemUndo, shm

\* The places a child can be at.
LEMMA PlacesOfChildren ==
    {"unborn", "write", "advance", "letter", "Vprod", "read", "take", "Vcons", "loop", "sleep",
     "P", "eintr", "gone"} = Places
  BY DEF Places, Critical, ProducerCS, ConsumerCS

\* Every variable keeps to the values the program can give it.
THEOREM TypeCorrect == Spec => []TypeOK
  <1>1. Init => TypeOK
    <2> SUFFICES ASSUME Init PROVE TypeOK
      OBVIOUS
    <2>1. GroupTypeOK(Places)
      BY GroupInitType, PlacesOfChildren DEF Init
    <2>2. /\ sem \in [Sems -> Nat]
          /\ adj \in [Children -> [Sems -> Int]]
          /\ alfa \in Letters
      BY BufferAssumption DEF Init, Letters
    <2>3. buf \in [0 .. PageSlots - 1 -> Letters \cup {NoLetter}]
      BY DEF Init
    <2> QED
      BY <2>1, <2>2, <2>3 DEF Init, TypeOK
  <1>2. TypeOK /\ [Next]_vars => TypeOK'
    <2> SUFFICES ASSUME TypeOK, [Next]_vars PROVE TypeOK'
      OBVIOUS
    <2>g. GroupTypeOK(Places)
      BY DEF TypeOK
    <2>1. ASSUME NEW p \in Children, ChildStep(p) PROVE TypeOK'
      <3> USE DEF sems, shm
      <3>1. CASE (LoopAgain(p) \/ Wake(p) \/ ChildHandler(p)) /\ UNCHANGED <<sems, shm>>
        <4>1. GroupTypeOK(Places)'
          BY <2>g, <3>1, GroupSteps, PlacesOfChildren DEF LoopAgain, Wake
        <4> QED
          BY <3>1, <4>1 DEF TypeOK
      <3>2. CASE (LoopEnds(p) /\ SemUndo(p)) \/ Exit(p)
        <4>1. GroupTypeOK(Places)'
          BY <2>g, <3>2, GroupSteps, PlacesOfChildren DEF LoopEnds, Exit
        <4> QED
          BY <3>2, <4>1, UndoType DEF TypeOK, Exit
      <3>3. CASE Interrupted(p)
        <4>1. GroupTypeOK(Places)'
          BY <2>g, <3>3, GroupSteps, PlacesOfChildren DEF Interrupted
        <4> QED
          BY <3>3, <4>1, UndoType DEF TypeOK, Interrupted
      <3>4. CASE Enter(p)
        <4>1. sem' \in [Sems -> Nat] /\ adj' \in [Children -> [Sems -> Int]]
          <5>1. ParrayOf(p) \in {Pprod, Pcons}
            BY DEF ParrayOf
          <5> QED
            BY <3>4, <5>1, SemopType DEF Enter
        <4>2. GroupTypeOK(Places)'
          BY <2>g, <3>4, GroupSteps, PlacesOfChildren DEF Enter
        <4> QED
          BY <3>4, <4>1, <4>2 DEF Enter, TypeOK
      <3>5. CASE Write(p)
        <4>1. GroupTypeOK(Places)'
          BY <2>g, <3>5, GroupSteps, PlacesOfChildren DEF Write
        <4> QED
          BY <3>5, <4>1 DEF Write, TypeOK
      <3>6. CASE Advance(p)
        <4>1. GroupTypeOK(Places)'
          BY <2>g, <3>6, GroupSteps, PlacesOfChildren DEF Advance
        <4> QED
          BY <3>6, <4>1 DEF Advance, TypeOK
      <3>7. CASE Letter(p)
        <4>1. GroupTypeOK(Places)'
          BY <2>g, <3>7, GroupSteps, PlacesOfChildren DEF Letter
        <4> QED
          BY <3>7, <4>1, BufferAssumption DEF Letter, TypeOK, Letters
      <3>8. CASE LeaveProducer(p)
        <4>1. sem' \in [Sems -> Nat] /\ adj' \in [Children -> [Sems -> Int]]
          BY <3>8, SemopType DEF LeaveProducer
        <4>2. GroupTypeOK(Places)'
          BY <2>g, <3>8, GroupSteps, PlacesOfChildren DEF LeaveProducer
        <4> QED
          BY <3>8, <4>1, <4>2 DEF LeaveProducer, TypeOK
      <3>9. CASE Read(p)
        <4>1. GroupTypeOK(Places)'
          BY <2>g, <3>9, GroupSteps, PlacesOfChildren DEF Read
        <4> QED
          BY <3>9, <4>1 DEF Read, TypeOK
      <3>10. CASE Take(p)
        <4>1. GroupTypeOK(Places)'
          BY <2>g, <3>10, GroupSteps, PlacesOfChildren DEF Take
        <4> QED
          BY <3>10, <4>1 DEF Take, TypeOK
      <3>11. CASE LeaveConsumer(p)
        <4>1. sem' \in [Sems -> Nat] /\ adj' \in [Children -> [Sems -> Int]]
          BY <3>11, SemopType DEF LeaveConsumer
        <4>2. GroupTypeOK(Places)'
          BY <2>g, <3>11, GroupSteps, PlacesOfChildren DEF LeaveConsumer
        <4> QED
          BY <3>11, <4>1, <4>2 DEF LeaveConsumer, TypeOK
      <3> QED
        BY <2>1, <3>1, <3>2, <3>3, <3>4, <3>5, <3>6, <3>7, <3>8, <3>9, <3>10, <3>11
           DEF ChildStep, SemopFails, WriteFaults, ReadFaults
    <2>2. CASE MainStep /\ UNCHANGED <<sems, shm>>
      BY <2>g, <2>2, ParentSteps, PlacesOfChildren DEF TypeOK, sems, shm
    <2>3. CASE Environment
      <3>1. CASE (ForkFails \/ Sigint) /\ UNCHANGED <<sems, shm>>
        BY <2>g, <3>1, ParentSteps, PlacesOfChildren DEF TypeOK, sems, shm
      <3>2. ASSUME NEW p \in Children, Sigkill(p) /\ SemUndo(p) PROVE TypeOK'
        <4>1. GroupTypeOK(Places)'
          BY <2>g, <3>2, GroupSteps, PlacesOfChildren DEF Sigkill
        <4> QED
          BY <3>2, <4>1, UndoType DEF TypeOK
      <3>3. ASSUME NEW p \in Children, Sigstop(p, Waiting(p)) \/ Sigcont(p),
                   UNCHANGED <<sems, shm>>
            PROVE  TypeOK'
        <4>1. Waiting(p) \in BOOLEAN
          BY DEF Waiting
        <4>2. GroupTypeOK(Places)'
          BY <2>g, <3>3, <4>1, GroupSteps, PlacesOfChildren
        <4> QED
          BY <3>3, <4>2 DEF TypeOK, sems, shm
      <3> QED
        BY <2>3, <3>1, <3>2, <3>3 DEF Environment
    <2>4. CASE UNCHANGED vars
      BY <2>4 DEF vars, group, sems, shm, env, TypeOK, GroupTypeOK
    <2> QED
      BY <2>1, <2>2, <2>3, <2>4 DEF Next
  <1> QED
    BY <1>1, <1>2, PTL DEF Spec

(***************************************************************************)
(* Mutual exclusion.                                                       *)
(***************************************************************************)
\* A process ends: between its semops it gives the semaphore back, elsewhere
\* it has nothing of it to give.
LEMMA ExitLock ==
    ASSUME TypeOK, LockInv, NEW p \in Children, Goto(p, "gone"), SemUndo(p), removed' = removed
    PROVE  LockInv'
  <1>1. InCS' = InCS \ {p}
    BY DEF InCS, Goto, TypeOK, GroupTypeOK, Critical, ProducerCS, ConsumerCS
  <1>2. MutualExclusion'
    BY <1>1 DEF LockInv, MutualExclusion
  <1>3. UndoOwed'
    <2> SUFFICES ASSUME NEW q \in Children
                 PROVE  adj'[q][BINARY] = IF q \in InCS' THEN 1 ELSE 0
      BY DEF UndoOwed
    <2>1. CASE q = p
      BY <1>1, <2>1 DEF SemUndo, TypeOK
    <2>2. CASE q # p
      BY <1>1, <2>2 DEF SemUndo, TypeOK, LockInv, UndoOwed
    <2> QED
      BY <2>1, <2>2
  <1>4. LockRecovered'
    <2> SUFFICES ASSUME ~removed PROVE sem'[BINARY] = IF InCS' = {} THEN 1 ELSE 0
      BY DEF LockRecovered
    <2>1. sem' = Undo(sem, adj[p]) /\ adj[p] \in [Sems -> Int] /\ sem \in [Sems -> Nat]
      BY DEF SemUndo, TypeOK
    <2>2. sem'[BINARY] = sem[BINARY] + adj[p][BINARY]
      <3>1. adj[p][BINARY] >= 0
        BY DEF LockInv, UndoOwed
      <3> QED
        BY <2>1, <3>1, UndoValues
    <2>3. CASE p \in InCS
      <3>1. InCS = {p}
        BY <2>3 DEF LockInv, MutualExclusion
      <3>2. sem[BINARY] = 0 /\ adj[p][BINARY] = 1
        BY <2>3, <3>1 DEF LockInv, LockRecovered, UndoOwed
      <3> QED
        BY <1>1, <2>2, <3>1, <3>2
    <2>4. CASE p \notin InCS
      <3>1. InCS' = InCS /\ adj[p][BINARY] = 0
        BY <1>1, <2>4 DEF LockInv, UndoOwed
      <3> QED
        BY <2>1, <2>2, <3>1 DEF LockInv, LockRecovered
    <2> QED
      BY <2>3, <2>4
  <1> QED
    BY <1>2, <1>3, <1>4 DEF LockInv

\* Pprod or Pcons: the semaphore was free, so that nobody was inside.
LEMMA EnterLock ==
    ASSUME TypeOK, LockInv, NEW p \in Children, Enter(p)
    PROVE  LockInv'
  <1>1. ~removed /\ removed' = removed /\ sem \in [Sems -> Nat] /\ adj[p] \in [Sems -> Int]
    BY DEF Enter, Semop, CanSemop, Moves, TypeOK
  <1>2. /\ sem[BINARY] > 0
        /\ sem'[BINARY] = sem[BINARY] - 1
        /\ adj' = [adj EXCEPT ![p] = adj'[p]]
        /\ adj'[p][BINARY] = adj[p][BINARY] + 1
    <2>1. CASE p \in Producers
      BY <1>1, <2>1, PprodArray DEF Enter, Semop, CanSemop, ParrayOf, TypeOK
    <2>2. CASE p \notin Producers
      BY <1>1, <2>2, PconsArray DEF Enter, Semop, CanSemop, ParrayOf, TypeOK
    <2> QED
      BY <2>1, <2>2
  <1>3. InCS = {} /\ sem[BINARY] = 1
    BY <1>1, <1>2 DEF LockInv, LockRecovered
  <1>4. InCS' = {p}
    BY <1>3 DEF InCS, Enter, Moves, Goto, TypeOK, GroupTypeOK, Critical, ProducerCS, ConsumerCS
  <1>5. UndoOwed'
    BY <1>2, <1>3, <1>4 DEF LockInv, UndoOwed, TypeOK
  <1> QED
    BY <1>1, <1>2, <1>3, <1>4, <1>5 DEF LockInv, LockRecovered, MutualExclusion

\* Vprod or Vcons, by the process inside.
LEMMA LeaveLock ==
    ASSUME TypeOK, LockInv, NEW p \in Children, LeaveProducer(p) \/ LeaveConsumer(p)
    PROVE  LockInv'
  <1>1. ~removed /\ removed' = removed /\ sem \in [Sems -> Nat] /\ adj[p] \in [Sems -> Int]
    BY DEF LeaveProducer, LeaveConsumer, Semop, CanSemop, Moves, TypeOK
  <1>2. /\ sem'[BINARY] = sem[BINARY] + 1
        /\ adj' = [adj EXCEPT ![p] = adj'[p]]
        /\ adj'[p][BINARY] = adj[p][BINARY] - 1
    <2>1. CASE LeaveProducer(p)
      BY <1>1, <2>1, VprodArray DEF LeaveProducer, Semop, TypeOK
    <2>2. CASE LeaveConsumer(p)
      BY <1>1, <2>2, VconsArray DEF LeaveConsumer, Semop, TypeOK
    <2> QED
      BY <2>1, <2>2
  <1>3. p \in InCS
    BY DEF LeaveProducer, LeaveConsumer, InCS, Critical, ProducerCS, ConsumerCS
  <1>4. InCS = {p} /\ sem[BINARY] = 0
    BY <1>1, <1>3 DEF LockInv, MutualExclusion, LockRecovered
  <1>5. InCS' = {}
    BY <1>4 DEF InCS, LeaveProducer, LeaveConsumer, Moves, Goto, TypeOK, GroupTypeOK,
           Critical, ProducerCS, ConsumerCS
  <1>6. UndoOwed'
    BY <1>2, <1>3, <1>4, <1>5 DEF LockInv, UndoOwed, TypeOK
  <1> QED
    BY <1>1, <1>2, <1>4, <1>5, <1>6 DEF LockInv, LockRecovered, MutualExclusion

\* A step that moves nobody in or out and leaves the semaphores alone.
LEMMA KeepLock ==
    ASSUME LockInv, InCS' = InCS, sem' = sem, adj' = adj, removed => removed'
    PROVE  LockInv'
  BY DEF LockInv, MutualExclusion, LockRecovered, UndoOwed

\* A step of the group or of the environment that ends nobody moves nobody in
\* or out.
LEMMA GroupKeeps ==
    ASSUME GroupTypeOK(Places), NEW p \in Children, NEW w \in BOOLEAN, w => pc[p] = "P",
           \/ LoopAgain(p) \/ Wake(p) \/ ChildHandler(p) \/ MainStep \/ ForkFails \/ Sigint
           \/ Sigstop(p, w) \/ Sigcont(p)
    PROVE  /\ InCS' = InCS /\ (removed => removed')
           /\ \A q \in InCS : pc'[q] = pc[q]
           /\ NobodyGone' => NobodyGone
  <1> USE DEF InCS, NobodyGone, GroupTypeOK, Critical, ProducerCS, ConsumerCS
  <1>1. CASE pc' = pc /\ (removed => removed')
    BY <1>1
  <1>2. ASSUME NEW q \in Children, NEW to \in {"loop", "sleep", "P", "eintr"}, Goto(q, to),
               pc[q] \notin Critical \cup {"gone"}, removed' = removed
        PROVE  /\ InCS' = InCS /\ (removed => removed')
               /\ \A r \in InCS : pc'[r] = pc[r]
               /\ NobodyGone' => NobodyGone
    BY <1>2 DEF Goto
  <1>3. CASE LoopAgain(p) \/ Wake(p)
    BY <1>2, <1>3 DEF LoopAgain, Wake, Moves
  <1>4. CASE ChildHandler(p) \/ ForkFails \/ Sigint \/ Sigcont(p)
    BY <1>1, <1>4 DEF ChildHandler, Handler, ForkFails, Sigint, Sigcont
  <1>5. CASE MainStep
    <2>1. ASSUME NEW q \in Children, Fork(q) PROVE pc[q] = "unborn" /\ Goto(q, "loop") /\ removed' = removed
      BY <2>1 DEF Fork, Unborn
    <2>2. ASSUME NEW q \in Children, Wait(q) PROVE pc' = pc /\ removed' = removed
      BY <2>2 DEF Wait
    <2>3. CASE Cleanup \/ MainHandler
      BY <1>1, <2>3 DEF Cleanup, MainHandler, Handler
    <2> QED
      BY <1>1, <1>2, <1>5, <2>1, <2>2, <2>3 DEF MainStep
  <1>6. CASE Sigstop(p, w)
    BY <1>1, <1>2, <1>6 DEF Sigstop
  <1> QED
    BY <1>3, <1>4, <1>5, <1>6

\* The steps of the program and its environment, by what they do to the lock.
LEMMA KindsOfSteps ==
    ASSUME TypeOK, [Next]_vars
    PROVE  \/ /\ InCS' = InCS /\ (removed => removed')
              /\ \A q \in InCS : pc'[q] = pc[q]
              /\ NobodyGone' => NobodyGone
              /\ UNCHANGED <<sems, shm>>
           \/ \E p \in Children :
                 \/ Goto(p, "gone") /\ SemUndo(p) /\ removed' = removed
                 \/ Enter(p)
                 \/ LeaveProducer(p) \/ LeaveConsumer(p)
                 \/ Write(p) \/ Advance(p) \/ Letter(p) \/ Read(p) \/ Take(p)
  <1> DEFINE Keeps == /\ InCS' = InCS /\ (removed => removed')
                      /\ \A q \in InCS : pc'[q] = pc[q]
                      /\ NobodyGone' => NobodyGone
  <1>0. GroupTypeOK(Places)
    BY DEF TypeOK
  <1>1. ASSUME NEW p \in Children, LoopAgain(p) \/ Wake(p) \/ ChildHandler(p) PROVE Keeps
    BY <1>0, <1>1, GroupKeeps
  <1>2. ASSUME MainStep \/ ForkFails \/ Sigint PROVE Keeps
    <2>1. CASE Children = {}
      BY <1>2, <2>1 DEF MainStep, Cleanup, MainHandler, Handler, ForkFails, Sigint, InCS, NobodyGone
    <2>2. ASSUME NEW p \in Children PROVE Keeps
      BY <1>0, <1>2, <2>2, GroupKeeps
    <2> QED
      BY <2>1, <2>2
  <1>3. ASSUME NEW p \in Children, Sigstop(p, Waiting(p)) \/ Sigcont(p) PROVE Keeps
    <2>1. Waiting(p) \in BOOLEAN /\ (Waiting(p) => pc[p] = "P")
      BY DEF Waiting
    <2> QED
      BY <1>0, <1>3, <2>1, GroupKeeps
  <1>4. ASSUME NEW p \in Children, LoopEnds(p) \/ Quits(p) \/ QuitsInterrupted(p)
        PROVE  Goto(p, "gone") /\ removed' = removed
    BY <1>4 DEF LoopEnds, Quits, QuitsInterrupted, Ends
  <1>5. UNCHANGED vars => Keeps /\ UNCHANGED <<sems, shm>>
    BY DEF vars, group, InCS, NobodyGone
  <1> HIDE DEF Keeps
  <1>6. CASE MainStep /\ UNCHANGED <<sems, shm>>
    BY <1>2, <1>6 DEF Keeps
  <1>7. ASSUME NEW p \in Children, ChildStep(p)
        PROVE  \/ Keeps /\ UNCHANGED <<sems, shm>>
               \/ Goto(p, "gone") /\ SemUndo(p) /\ removed' = removed
               \/ Enter(p) \/ LeaveProducer(p) \/ LeaveConsumer(p)
               \/ Write(p) \/ Advance(p) \/ Letter(p) \/ Read(p) \/ Take(p)
    BY <1>1, <1>4, <1>7
       DEF ChildStep, Interrupted, SemopFails, WriteFaults, ReadFaults, Exit
  <1>8. CASE Environment
    <2>1. CASE (ForkFails \/ Sigint) /\ UNCHANGED <<sems, shm>>
      BY <1>2, <2>1 DEF Keeps
    <2>2. ASSUME NEW p \in Children, Sigkill(p) /\ SemUndo(p)
          PROVE  Goto(p, "gone") /\ SemUndo(p) /\ removed' = removed
      BY <1>4, <2>2 DEF Sigkill
    <2>3. ASSUME NEW p \in Children, Sigstop(p, Waiting(p)) \/ Sigcont(p) PROVE Keeps
      BY <1>3, <2>3
    <2> QED
      BY <1>8, <2>1, <2>2, <2>3 DEF Environment, Keeps
  <1>9. CASE UNCHANGED vars
    BY <1>5, <1>9 DEF Keeps
  <1> QED
    BY <1>6, <1>7, <1>8, <1>9 DEF Next, Keeps

\* The lock invariant is inductive.
LEMMA LockStep == ASSUME TypeOK, LockInv, [Next]_vars PROVE LockInv'
  <1>1. ASSUME NEW p \in Children, Goto(p, "gone"), SemUndo(p), removed' = removed PROVE LockInv'
    BY <1>1, ExitLock
  <1>2. ASSUME NEW p \in Children, Enter(p) PROVE LockInv'
    BY <1>2, EnterLock
  <1>3. ASSUME NEW p \in Children, LeaveProducer(p) \/ LeaveConsumer(p) PROVE LockInv'
    BY <1>3, LeaveLock
  <1>4. ASSUME NEW p \in Children, Write(p) \/ Advance(p) \/ Letter(p) \/ Read(p) \/ Take(p)
        PROVE  LockInv'
    <2>1. InCS' = InCS
      BY <1>4 DEF Write, Advance, Letter, Read, Take, Moves, Goto, InCS, TypeOK, GroupTypeOK,
                  Critical, ProducerCS, ConsumerCS
    <2>2. UNCHANGED <<sem, adj, removed>>
      BY <1>4 DEF Write, Advance, Letter, Read, Take, Moves, sems
    <2> QED
      BY <2>1, <2>2, KeepLock
  <1>5. CASE InCS' = InCS /\ (removed => removed') /\ UNCHANGED <<sems, shm>>
    BY <1>5, KeepLock DEF sems
  <1> QED
    BY <1>1, <1>2, <1>3, <1>4, <1>5, KindsOfSteps

\* The semaphore is free at the start.
LEMMA LockInit == Init => LockInv
  BY DEF Init, GroupInit, LockInv, MutualExclusion, LockRecovered, UndoOwed, InCS, Critical, ProducerCS,
         ConsumerCS

\* Whatever signals come, at most one process is between its semops, and the
\* binary semaphore is free exactly when none is.
THEOREM Exclusion == Spec => [](MutualExclusion /\ LockRecovered)
  <1>1. TypeOK /\ LockInv /\ [Next]_vars => LockInv'
    BY LockStep
  <1>2. LockInv => MutualExclusion /\ LockRecovered
    BY DEF LockInv
  <1> QED
    BY <1>1, <1>2, LockInit, TypeCorrect, PTL DEF Spec

(***************************************************************************)
(* The buffer, up to the first end of a process.                           *)
(***************************************************************************)
\* A step that moves nobody in, inside or out.
LEMMA KeepBuffer ==
    ASSUME BufferInv, InCS' = InCS, \A q \in InCS : pc'[q] = pc[q], NobodyGone' => NobodyGone,
           sem' = sem, prod_ptr' = prod_ptr, cons_ptr' = cons_ptr
    PROVE  BufferInv'
  BY DEF BufferInv

\* Pprod takes an empty slot, Pcons a full one; nobody was inside.
LEMMA EnterBuffer ==
    ASSUME TypeOK, LockInv, BufferInv, NEW p \in Children, Enter(p)
    PROVE  BufferInv'
  <1>1. ~removed /\ sem \in [Sems -> Nat] /\ adj[p] \in [Sems -> Int]
        /\ UNCHANGED <<prod_ptr, cons_ptr>>
    BY DEF Enter, Semop, CanSemop, TypeOK, shm
  <1>2. /\ sem[BINARY] > 0
        /\ \/ pc'[p] = "write" /\ sem'[BEMPTY] = sem[BEMPTY] - 1 /\ sem'[BFULL] = sem[BFULL]
           \/ pc'[p] = "read" /\ sem'[BFULL] = sem[BFULL] - 1 /\ sem'[BEMPTY] = sem[BEMPTY]
    <2>1. CASE p \in Producers
      BY <1>1, <2>1, PprodArray DEF Enter, Moves, Goto, Semop, CanSemop, ParrayOf, TypeOK, GroupTypeOK
    <2>2. CASE p \notin Producers
      BY <1>1, <2>2, PconsArray DEF Enter, Moves, Goto, Semop, CanSemop, ParrayOf, TypeOK, GroupTypeOK
    <2> QED
      BY <2>1, <2>2
  <1>3. InCS = {}
    BY <1>1, <1>2 DEF LockInv, LockRecovered
  <1>4. InCS' = {p} /\ (NobodyGone' => NobodyGone)
    BY <1>3 DEF InCS, Enter, Moves, Goto, TypeOK, GroupTypeOK, Critical, ProducerCS, ConsumerCS, NobodyGone
  <1>5. /\ sem[BFULL] \in Int /\ sem[BEMPTY] \in Int /\ N_BUF \in Int
        /\ prod_ptr \in Int /\ cons_ptr \in Int
    BY BufferAssumption DEF TypeOK
  <1> QED
    BY <1>1, <1>2, <1>3, <1>4, <1>5 DEF BufferInv

\* Vprod gives a full slot, Vcons an empty one.
LEMMA LeaveBuffer ==
    ASSUME TypeOK, LockInv, BufferInv, NEW p \in Children,
           LeaveProducer(p) \/ LeaveConsumer(p)
    PROVE  BufferInv'
  <1>1. sem \in [Sems -> Nat] /\ adj[p] \in [Sems -> Int] /\ UNCHANGED <<prod_ptr, cons_ptr>>
    BY DEF LeaveProducer, LeaveConsumer, TypeOK, shm
  <1>2. \/ pc[p] = "Vprod" /\ sem'[BFULL] = sem[BFULL] + 1 /\ sem'[BEMPTY] = sem[BEMPTY]
        \/ pc[p] = "Vcons" /\ sem'[BEMPTY] = sem[BEMPTY] + 1 /\ sem'[BFULL] = sem[BFULL]
    <2>1. CASE LeaveProducer(p)
      BY <1>1, <2>1, VprodArray DEF LeaveProducer, Semop
    <2>2. CASE LeaveConsumer(p)
      BY <1>1, <2>2, VconsArray DEF LeaveConsumer, Semop
    <2> QED
      BY <2>1, <2>2
  <1>3. p \in InCS
    BY DEF LeaveProducer, LeaveConsumer, InCS, Critical, ProducerCS, ConsumerCS
  <1>4. InCS = {p}
    BY <1>3 DEF LockInv, MutualExclusion
  <1>5. InCS' = {} /\ (NobodyGone' => NobodyGone)
    BY <1>4 DEF InCS, LeaveProducer, LeaveConsumer, Moves, Goto, TypeOK, GroupTypeOK,
                Critical, ProducerCS, ConsumerCS, NobodyGone
  <1>6. /\ sem[BFULL] \in Int /\ sem[BEMPTY] \in Int /\ N_BUF \in Int
        /\ prod_ptr \in Int /\ cons_ptr \in Int
    BY BufferAssumption DEF TypeOK
  <1> QED
    BY <1>1, <1>2, <1>3, <1>4, <1>5, <1>6 DEF BufferInv

\* The process inside goes on; it is alone.
LEMMA InsideBuffer ==
    ASSUME TypeOK, LockInv, BufferInv, NEW p \in Children,
           Write(p) \/ Advance(p) \/ Letter(p) \/ Read(p) \/ Take(p)
    PROVE  BufferInv'
  <1>1. p \in InCS
    BY DEF Write, Advance, Letter, Read, Take, InCS, Critical, ProducerCS, ConsumerCS
  <1>2. InCS = {p}
    BY <1>1 DEF LockInv, MutualExclusion
  <1>3. InCS' = {p} /\ (NobodyGone' => NobodyGone) /\ sem' = sem
    BY <1>2 DEF InCS, Write, Advance, Letter, Read, Take, Moves, Goto, TypeOK, GroupTypeOK,
                Critical, ProducerCS, ConsumerCS, NobodyGone, sems, shm
  <1>4. \/ pc[p] = "write" /\ pc'[p] = "advance" /\ UNCHANGED <<prod_ptr, cons_ptr>>
        \/ pc[p] = "advance" /\ pc'[p] = "letter" /\ prod_ptr' = prod_ptr + 1 /\ cons_ptr' = cons_ptr
        \/ pc[p] = "letter" /\ pc'[p] = "Vprod" /\ UNCHANGED <<prod_ptr, cons_ptr>>
        \/ pc[p] = "read" /\ pc'[p] = "take" /\ UNCHANGED <<prod_ptr, cons_ptr>>
        \/ pc[p] = "take" /\ pc'[p] = "Vcons" /\ cons_ptr' = cons_ptr + 1 /\ prod_ptr' = prod_ptr
    BY DEF Write, Advance, Letter, Read, Take, Moves, Goto, TypeOK, GroupTypeOK, sems, shm
  <1>5. /\ sem[BFULL] \in Int /\ sem[BEMPTY] \in Int /\ N_BUF \in Int
        /\ prod_ptr \in Int /\ cons_ptr \in Int
    BY BufferAssumption DEF TypeOK
  <1> QED
    BY <1>1, <1>2, <1>3, <1>4, <1>5 DEF BufferInv

\* The buffer invariant is kept by every step, given the lock.
LEMMA BufferStep == ASSUME TypeOK, LockInv, BufferInv, [Next]_vars PROVE BufferInv'
  <1>1. ASSUME NEW p \in Children, Goto(p, "gone") PROVE BufferInv'
    BY <1>1 DEF Goto, BufferInv, NobodyGone, TypeOK, GroupTypeOK
  <1>2. ASSUME NEW p \in Children, Enter(p) PROVE BufferInv'
    BY <1>2, EnterBuffer
  <1>3. ASSUME NEW p \in Children, LeaveProducer(p) \/ LeaveConsumer(p) PROVE BufferInv'
    BY <1>3, LeaveBuffer
  <1>4. ASSUME NEW p \in Children, Write(p) \/ Advance(p) \/ Letter(p) \/ Read(p) \/ Take(p)
        PROVE  BufferInv'
    BY <1>4, InsideBuffer
  <1>5. CASE /\ InCS' = InCS /\ \A q \in InCS : pc'[q] = pc[q]
             /\ NobodyGone' => NobodyGone
             /\ UNCHANGED <<sems, shm>>
    BY <1>5, KeepBuffer DEF sems, shm
  <1> QED
    BY <1>1, <1>2, <1>3, <1>4, <1>5, KindsOfSteps

\* Nothing is stored at the start.
LEMMA BufferInit == Init => BufferInv
  BY BufferAssumption DEF Init, GroupInit, BufferInv, InCS, Critical, ProducerCS, ConsumerCS

\* As long as no process has ended, a consumer reads a byte that was stored and
\* not taken, and at most N_BUF bytes are stored or being stored.
THEOREM BoundedBuffer == Spec => [](ReadsOnlyProduced /\ BufferBound)
  <1>1. TypeOK /\ LockInv /\ BufferInv /\ [Next]_vars => LockInv' /\ BufferInv'
    BY LockStep, BufferStep
  <1>2. TypeOK /\ LockInv /\ BufferInv => ReadsOnlyProduced /\ BufferBound
    <2> SUFFICES ASSUME TypeOK, LockInv, BufferInv, NobodyGone
                 PROVE  ReadsOnlyProduced /\ BufferBound
      BY DEF ReadsOnlyProduced, BufferBound
    <2>1. /\ sem[BFULL] \in Nat /\ sem[BEMPTY] \in Nat /\ N_BUF \in Nat
          /\ prod_ptr \in Nat /\ cons_ptr \in Nat
      BY BufferAssumption DEF TypeOK
    <2>2. \A p \in Children : pc[p] \in {"write", "read"} => p \in InCS
      BY DEF InCS, Critical, ProducerCS, ConsumerCS
    <2>3. ReadsOnlyProduced
      BY <2>1, <2>2 DEF BufferInv, ReadsOnlyProduced
    <2>4. BufferBound
      <3>1. CASE \E p \in Children : pc[p] = "write"
        BY <2>1, <2>2, <3>1 DEF BufferInv, BufferBound
      <3>2. CASE ~\E p \in Children : pc[p] = "write"
        <4>1. CASE InCS = {}
          BY <2>1, <3>2, <4>1 DEF BufferInv, BufferBound
        <4>2. ASSUME NEW p \in InCS PROVE BufferBound
          BY <2>1, <3>2, <4>2 DEF BufferInv, BufferBound, InCS, Critical, ProducerCS, ConsumerCS
        <4> QED
          BY <4>1, <4>2
      <3> QED
        BY <3>1, <3>2
    <2> QED
      BY <2>3, <2>4
  <1> QED
    BY <1>1, <1>2, LockInit, BufferInit, TypeCorrect, PTL DEF Spec

(***************************************************************************)
(* The parent's count of the ends.                                         *)
(***************************************************************************)
\* Every step of the program is a step of the group.
LEMMA StepsOfGroup ==
    ASSUME TypeOK, [Next]_vars
    PROVE  \/ \E p \in Children : ChildGroupStep(p) \/ Fork(p) \/ Wait(p)
           \/ OthersGroupStep \/ UNCHANGED group
  <1>1. ASSUME NEW p \in Children, ChildStep(p) PROVE ChildGroupStep(p)
    <2>1. Alive(p)
      BY <1>1 DEF ChildStep, Running
    <2>2. ASSUME NEW to, Moves(p, to), to \notin {"unborn", "gone"} PROVE ChildGroupStep(p)
      BY <2>1, <2>2 DEF ChildGroupStep, GoesOn
    <2>3. ASSUME Quits(p) \/ QuitsInterrupted(p) PROVE ChildGroupStep(p)
      BY <2>1, <2>3 DEF ChildGroupStep, ComesToEnd
    <2>4. CASE LoopAgain(p) \/ Wake(p)
      BY <2>2, <2>4 DEF LoopAgain, Wake
    <2>5. CASE ChildHandler(p)
      BY <2>5 DEF ChildGroupStep
    <2>6. CASE LoopEnds(p) \/ Interrupted(p) \/ SemopFails(p) \/ WriteFaults(p) \/ ReadFaults(p)
      BY <2>3, <2>6 DEF LoopEnds, Interrupted, SemopFails, WriteFaults, ReadFaults, Exit
    <2>7. CASE Enter(p)
      BY <2>2, <2>7 DEF Enter
    <2>8. CASE Write(p) \/ Advance(p) \/ Letter(p) \/ LeaveProducer(p)
      BY <2>2, <2>8 DEF Write, Advance, Letter, LeaveProducer
    <2>9. CASE Read(p) \/ Take(p) \/ LeaveConsumer(p)
      BY <2>2, <2>9 DEF Read, Take, LeaveConsumer
    <2> QED
      BY <1>1, <2>4, <2>5, <2>6, <2>7, <2>8, <2>9 DEF ChildStep
  <1>2. CASE MainStep
    BY <1>2 DEF MainStep, OthersGroupStep
  <1>3. CASE Environment
    <2>1. ASSUME NEW p \in Children, Sigkill(p) PROVE ChildGroupStep(p)
      BY <2>1 DEF Sigkill, ChildGroupStep, ComesToEnd
    <2>2. ASSUME NEW p \in Children, Sigstop(p, Waiting(p)) \/ Sigcont(p)
          PROVE  ChildGroupStep(p)
      BY <2>2 DEF ChildGroupStep, Waiting
    <2> QED
      BY <1>3, <2>1, <2>2 DEF Environment, OthersGroupStep
  <1>4. UNCHANGED vars => UNCHANGED group
    BY DEF vars
  <1> QED
    BY <1>1, <1>2, <1>3, <1>4 DEF Next

\* RemovedLast: however many children there are and however they end, are stopped
\* and continued, at most two for each SIGSTOP live when the parent removes the
\* semaphores and the segment (pc.c 134-160), and none without a SIGSTOP.
THEOREM RemovedLast == Spec => []CleanupLast
  <1>1. Init => CountInv
    BY CountInit DEF Init
  <1>2. TypeOK /\ CountInv /\ [Next]_vars => CountInv'
    BY StepsOfGroup, CountStep DEF TypeOK
  <1>3. TypeOK /\ CountInv => CleanupLast
    BY CountBounds DEF TypeOK
  <1> QED
    BY <1>1, <1>2, <1>3, TypeCorrect, PTL DEF Spec

(***************************************************************************)
(* The page and the alphabet.                                              *)
(***************************************************************************)
\* A number with remainder r.
LEMMA Remainder ==
    ASSUME NEW N \in Nat \ {0}, NEW q \in Int, NEW r \in 0 .. N - 1
    PROVE  (N * q + r) % N = r
  OBVIOUS

\* Counting round by one.
LEMMA ModSuccessor ==
    ASSUME NEW N \in Nat \ {0}, NEW n \in Nat
    PROVE  /\ (n + 1) % N = IF n % N = N - 1 THEN 0 ELSE (n % N) + 1
           /\ n % N \in 0 .. N - 1
  <1> DEFINE q == n \div N
             r == n % N
  <1>1. q \in Int /\ r \in 0 .. N - 1 /\ n = N * q + r
    OBVIOUS
  <1> HIDE DEF q, r
  <1>2. CASE r = N - 1
    <2>1. n + 1 = N * (q + 1) + 0
      BY <1>1, <1>2
    <2>2. (N * (q + 1) + 0) % N = 0
      BY <1>1, Remainder
    <2> QED
      BY <1>1, <1>2, <2>1, <2>2 DEF r
  <1>3. CASE r # N - 1
    <2>1. n + 1 = N * q + (r + 1) /\ r + 1 \in 0 .. N - 1
      BY <1>1, <1>3
    <2>2. (N * q + (r + 1)) % N = r + 1
      BY <1>1, <2>1, Remainder
    <2> QED
      BY <1>1, <1>3, <2>1, <2>2 DEF r
  <1> QED
    BY <1>2, <1>3

\* A step that leaves the page alone and puts nobody at advance or letter.
LEMMA KeepPage ==
    ASSUME PageInv, AlphabetInv, UNCHANGED <<prod_ptr, alfa, buf>>, NobodyGone' => NobodyGone,
           \A q \in Children : pc'[q] \in {"advance", "letter"} => pc'[q] = pc[q],
           NobodyGone' => \A q \in Children : pc[q] = "letter" => pc'[q] = "letter"
    PROVE  PageInv' /\ AlphabetInv'
  <1>1. PageInv'
    BY DEF PageInv, NoHoles
  <1>2. AlphabetInv'
    <2> SUFFICES ASSUME NobodyGone'
                 PROVE  /\ (\A p \in Children : pc'[p] # "letter") => alfa = prod_ptr % NLetters
                        /\ \A p \in Children :
                              /\ pc'[p] = "advance" => buf[prod_ptr] = alfa
                              /\ pc'[p] = "letter" => prod_ptr > 0 /\ alfa = (prod_ptr - 1) % NLetters
                        /\ \A i \in 0 .. prod_ptr - 1 : buf[i] = i % NLetters
      BY DEF AlphabetInv
    <2> QED
      BY DEF AlphabetInv
  <1> QED
    BY <1>1, <1>2

\* A child that ends leaves what it stored, in a slot it had filled or not.
LEMMA ExitPage ==
    ASSUME TypeOK, PageInv, NEW p \in Children, Goto(p, "gone"), UNCHANGED shm
    PROVE  PageInv' /\ AlphabetInv'
  <1>1. \A q \in Children : pc'[q] = IF q = p THEN "gone" ELSE pc[q]
    BY DEF Goto, TypeOK, GroupTypeOK
  <1>2. ~NobodyGone'
    BY <1>1 DEF NobodyGone
  <1> QED
    BY <1>1, <1>2 DEF PageInv, NoHoles, AlphabetInv, shm

\* The producer inside goes on; it is alone.
LEMMA ProducerPage ==
    ASSUME TypeOK, LockInv, PageInv, AlphabetInv, NEW p \in Children,
           Write(p) \/ Advance(p) \/ Letter(p)
    PROVE  PageInv' /\ AlphabetInv'
  <1> USE BufferAssumption
  <1>1. p \in InCS
    BY DEF Write, Advance, Letter, InCS, Critical, ProducerCS, ConsumerCS
  <1>2. \A q \in Children \ {p} : pc[q] \notin {"advance", "letter"}
    BY <1>1 DEF LockInv, MutualExclusion, InCS, Critical, ProducerCS, ConsumerCS
  <1>3. /\ \A q \in Children \ {p} : pc'[q] = pc[q]
        /\ NobodyGone' => NobodyGone
    BY DEF Write, Advance, Letter, Moves, Goto, TypeOK, GroupTypeOK, NobodyGone
  <1>4. /\ prod_ptr \in Nat /\ PageSlots \in Nat /\ NLetters \in Nat \ {0} /\ alfa \in Letters
        /\ buf \in [0 .. PageSlots - 1 -> Letters \cup {NoLetter}]
    BY DEF TypeOK
  <1>5. CASE Write(p)
    <2>1. /\ pc[p] = "write" /\ pc'[p] = "advance" /\ prod_ptr < PageSlots
          /\ UNCHANGED <<prod_ptr, alfa>>
          /\ \A i \in 0 .. PageSlots - 1 : buf'[i] = IF i = prod_ptr THEN alfa ELSE buf[i]
      BY <1>4, <1>5 DEF Write, Moves, Goto, TypeOK, GroupTypeOK
    <2>2. alfa # NoLetter
      BY <1>4 DEF Letters, NoLetter
    <2>3. PageInv'
      BY <1>2, <1>3, <1>4, <2>1, <2>2 DEF PageInv, NoHoles
    <2>4. AlphabetInv'
      <3> SUFFICES ASSUME NobodyGone'
                   PROVE  /\ alfa = prod_ptr % NLetters
                          /\ \A i \in 0 .. prod_ptr - 1 : buf'[i] = i % NLetters
        BY <1>2, <1>3, <1>4, <2>1 DEF AlphabetInv
      <3>1. /\ alfa = prod_ptr % NLetters
            /\ \A i \in 0 .. prod_ptr - 1 : buf[i] = i % NLetters
        BY <1>2, <1>3, <2>1 DEF AlphabetInv
      <3>2. \A i \in 0 .. prod_ptr - 1 : buf'[i] = buf[i]
        BY <1>4, <2>1
      <3> QED
        BY <3>1, <3>2
    <2> QED
      BY <2>3, <2>4
  <1>6. CASE Advance(p)
    <2>1. /\ pc[p] = "advance" /\ pc'[p] = "letter" /\ prod_ptr' = prod_ptr + 1
          /\ UNCHANGED <<alfa, buf>>
      BY <1>6 DEF Advance, Moves, Goto, TypeOK, GroupTypeOK
    <2>2. PageInv'
      BY <1>2, <1>3, <1>4, <2>1 DEF PageInv, NoHoles
    <2>3. AlphabetInv'
      <3> SUFFICES ASSUME NobodyGone'
                   PROVE  /\ alfa = (prod_ptr' - 1) % NLetters
                          /\ \A i \in 0 .. prod_ptr' - 1 : buf[i] = i % NLetters
        BY <1>2, <1>3, <1>4, <2>1 DEF AlphabetInv
      <3>1. /\ alfa = prod_ptr % NLetters /\ buf[prod_ptr] = alfa
            /\ \A i \in 0 .. prod_ptr - 1 : buf[i] = i % NLetters
        BY <1>2, <1>3, <2>1 DEF AlphabetInv
      <3>2. prod_ptr' - 1 = prod_ptr
        BY <1>4, <2>1
      <3>3. ASSUME NEW i \in 0 .. prod_ptr PROVE i = prod_ptr \/ i \in 0 .. prod_ptr - 1
        BY <1>4
      <3> QED
        BY <3>1, <3>2, <3>3
    <2> QED
      BY <2>2, <2>3
  <1>7. CASE Letter(p)
    <2>1. /\ pc[p] = "letter" /\ pc'[p] = "Vprod" /\ UNCHANGED <<prod_ptr, buf>>
          /\ alfa' = IF alfa = NLetters - 1 THEN 0 ELSE alfa + 1
      BY <1>7 DEF Letter, Moves, Goto, TypeOK, GroupTypeOK
    <2>2. PageInv'
      BY <1>2, <1>3, <1>4, <2>1 DEF PageInv, NoHoles
    <2>3. AlphabetInv'
      <3> SUFFICES ASSUME NobodyGone'
                   PROVE  /\ alfa' = prod_ptr % NLetters
                          /\ \A i \in 0 .. prod_ptr - 1 : buf[i] = i % NLetters
        BY <1>2, <1>3, <1>4, <2>1 DEF AlphabetInv
      <3>1. /\ prod_ptr - 1 \in Nat /\ alfa = (prod_ptr - 1) % NLetters
            /\ \A i \in 0 .. prod_ptr - 1 : buf[i] = i % NLetters
        BY <1>3, <1>4, <2>1 DEF AlphabetInv
      <3>2. alfa' = (prod_ptr - 1 + 1) % NLetters
        BY <1>4, <2>1, <3>1, ModSuccessor
      <3>3. prod_ptr - 1 + 1 = prod_ptr
        BY <1>4
      <3> QED
        BY <3>1, <3>2, <3>3
    <2> QED
      BY <2>2, <2>3
  <1> QED
    BY <1>5, <1>6, <1>7

\* Every step keeps the page and the alphabet, given the lock.
LEMMA PageStep ==
    ASSUME TypeOK, LockInv, PageInv, AlphabetInv, [Next]_vars
    PROVE  PageInv' /\ AlphabetInv'
  <1>1. ASSUME NEW p \in Children, Goto(p, "gone"), SemUndo(p) PROVE PageInv' /\ AlphabetInv'
    BY <1>1, ExitPage DEF SemUndo
  <1>2. ASSUME NEW p \in Children,
               Enter(p) \/ LeaveProducer(p) \/ LeaveConsumer(p) \/ Read(p) \/ Take(p)
        PROVE  PageInv' /\ AlphabetInv'
    <2>1. /\ \A q \in Children \ {p} : pc'[q] = pc[q]
          /\ pc[p] \notin {"advance", "letter", "gone"} /\ pc'[p] \notin {"advance", "letter"}
          /\ UNCHANGED <<prod_ptr, alfa, buf>>
      BY <1>2 DEF Enter, LeaveProducer, LeaveConsumer, Read, Take, Moves, Goto, TypeOK, GroupTypeOK,
                  shm
    <2>2. NobodyGone' => NobodyGone
      BY <2>1 DEF NobodyGone
    <2> QED
      BY <2>1, <2>2, KeepPage
  <1>3. ASSUME NEW p \in Children, Write(p) \/ Advance(p) \/ Letter(p)
        PROVE  PageInv' /\ AlphabetInv'
    BY <1>3, ProducerPage
  <1>4. CASE /\ InCS' = InCS /\ \A q \in InCS : pc'[q] = pc[q]
             /\ NobodyGone' => NobodyGone
             /\ UNCHANGED <<sems, shm>>
    <2>1. \A q \in Children :
             /\ pc[q] \in {"advance", "letter"} => q \in InCS
             /\ pc'[q] \in {"advance", "letter"} => q \in InCS'
      BY DEF InCS, Critical, ProducerCS, ConsumerCS
    <2> QED
      BY <1>4, <2>1, KeepPage DEF shm
  <1> QED
    BY <1>1, <1>2, <1>3, <1>4, KindsOfSteps

\* No byte before *prod_ptr was left out, whoever was killed where; as long as
\* no process has ended the stored bytes are the alphabet, again and again.
THEOREM Stored == Spec => [](NoHoles /\ LettersInOrder)
  <1>1. Init => PageInv /\ AlphabetInv
    BY BufferAssumption DEF Init, GroupInit, PageInv, NoHoles, AlphabetInv
  <1>2. TypeOK /\ LockInv /\ PageInv /\ AlphabetInv /\ [Next]_vars
        => LockInv' /\ PageInv' /\ AlphabetInv'
    BY LockStep, PageStep
  <1>3. PageInv /\ AlphabetInv => NoHoles /\ LettersInOrder
    BY DEF PageInv, AlphabetInv, LettersInOrder
  <1> QED
    BY <1>1, <1>2, <1>3, LockInit, TypeCorrect, PTL DEF Spec
=============================================================================
