---------------------------- MODULE DaemonProofs ----------------------------
(***************************************************************************)
(* Theorems about Daemon for any number of copies and signals, whatever    *)
(* goes wrong: the comment above already_running holds of daemon.c.        *)
(***************************************************************************)
EXTENDS Daemon, TLAPS

\* Every step keeps the types, of either program.
LEMMA TypeStep ==
    ASSUME TypeOK, Next
    PROVE  TypeOK'
  <1>1. PICK p \in Daemons : Step(p) \/ Environment(p)
    BY DEF Next
  <1>2. UNCHANGED program
    BY <1>1 DEF Step, Environment
  <1> USE <1>2 DEF Goto, Leave, NewFile, Contents, Take, files, Locking, Places, Gone, TypeOK
  <1>3. CASE Start(p)
    BY <1>3 DEF Start
  <1>4. CASE OpenLock(p)
    BY <1>4 DEF OpenLock
  <1>5. CASE Lock(p)
    BY <1>5 DEF Lock
  <1>6. CASE Refused(p)
    BY <1>6 DEF Refused
  <1>7. CASE Truncate(p)
    BY <1>7 DEF Truncate
  <1>8. CASE WritePid(p)
    BY <1>8 DEF WritePid
  <1>9. CASE CloseLock(p)
    BY <1>9 DEF CloseLock
  <1>10. CASE OpenConf(p)
    BY <1>10 DEF OpenConf
  <1>11. CASE TruncateConf(p)
    BY <1>11 DEF TruncateConf
  <1>12. CASE WriteConf(p)
    BY <1>12 DEF WriteConf
  <1>13. CASE Default(p)
    BY <1>13 DEF Default
  <1>14. CASE Mask(p)
    BY <1>14 DEF Mask
  <1>15. CASE CreateThread(p)
    BY <1>15 DEF CreateThread
  <1>16. CASE ThreadFails(p)
    BY <1>16 DEF ThreadFails
  <1>17. CASE TakeHup(p)
    BY <1>17 DEF TakeHup
  <1>18. CASE Reread(p)
    <2>1. CASE CONFFILE = 0
      BY <1>18, <2>1 DEF Reread
    <2>2. CASE CONFFILE # 0
      BY <1>18, <2>2 DEF Reread
    <2> QED
      BY <2>1, <2>2
  <1>19. CASE TakeTerm(p)
    BY <1>19 DEF TakeTerm
  <1>20. CASE RemoveLock(p)
    BY <1>20 DEF RemoveLock
  <1>21. CASE RemoveConf(p)
    BY <1>21 DEF RemoveConf
  <1>22. CASE Exit(p)
    BY <1>22 DEF Exit
  <1>23. CASE FileFails(p)
    BY <1>23 DEF FileFails
  <1>24. CASE Kill(p)
    BY <1>24 DEF Kill
  <1>25. CASE FailsUnseen(p)
    BY <1>25 DEF FailsUnseen
  <1>26. CASE \E s \in {"SIGHUP", "SIGTERM"} : Signal(p, s)
    <2>1. PICK s \in {"SIGHUP", "SIGTERM"} : Signal(p, s)
      BY <1>26
    <2>2. sent' \in 0 .. MaxSignals
      BY <2>1, DaemonAssumption DEF Signal
    <2>3. UNCHANGED files
      BY <2>1 DEF Signal
    <2>4. CASE at[p] \in Unmasked
      <3>1. Leave(p)
        BY <2>1, <2>4 DEF Signal
      <3> QED
        BY <2>2, <2>3, <3>1
    <2>5. CASE at[p] \notin Unmasked
      <3>1. pending' = [pending EXCEPT ![p] = pending[p] \cup {s}] /\ UNCHANGED <<at, fd, conffd, lock>>
        BY <2>1, <2>5 DEF Signal
      <3>2. pending[p] \cup {s} \in SUBSET {"SIGHUP", "SIGTERM"}
        OBVIOUS
      <3>3. pending' \in [Daemons -> SUBSET {"SIGHUP", "SIGTERM"}]
        BY <3>1, <3>2
      <3> QED
        BY <2>2, <2>3, <3>1, <3>3
    <2> QED
      BY <2>4, <2>5
  <1> QED
    BY <1>1, <1>3, <1>4, <1>5, <1>6, <1>7, <1>8, <1>9, <1>10, <1>11, <1>12, <1>13, <1>14,
       <1>15, <1>16, <1>17, <1>18, <1>19, <1>20, <1>21, <1>22, <1>23, <1>24,
       <1>25, <1>26 DEF Step, Environment

\* What a copy has locked is LOCKFILE itself, and only one copy has.
LEMMA LockStep ==
    ASSUME program = "daemon", TypeOK, LockHeld, OneLocks, Next
    PROVE  LockHeld' /\ OneLocks'
  <1>1. PICK p \in Daemons : Step(p) \/ Environment(p)
    BY DEF Next
  <1>2. UNCHANGED program
    BY <1>1 DEF Step, Environment
  <1> USE <1>2 DEF Goto, Leave, NewFile, Contents, Take, files, Locking, TypeOK, LockHeld, OneLocks
  <1>3. CASE Start(p)
    BY <1>3 DEF Start
  <1>4. CASE OpenLock(p)
    BY <1>4 DEF OpenLock
  <1>5. CASE Lock(p)
    <2>1. \A q \in Daemons \ {p} : at[q] \notin Locking
      BY <1>5 DEF Lock, LockedByOther
    <2>2. LockHeld'
      BY <1>5 DEF Lock
    <2>3. OneLocks'
      BY <1>5, <2>1 DEF Lock
    <2> QED
      BY <2>2, <2>3
  <1>6. CASE Refused(p)
    BY <1>6 DEF Refused
  <1>7. CASE Truncate(p)
    BY <1>7 DEF Truncate
  <1>8. CASE WritePid(p)
    BY <1>8 DEF WritePid
  <1>9. CASE CloseLock(p)
    BY <1>9 DEF CloseLock
  <1>10. CASE OpenConf(p)
    BY <1>10 DEF OpenConf
  <1>11. CASE TruncateConf(p)
    BY <1>11 DEF TruncateConf
  <1>12. CASE WriteConf(p)
    BY <1>12 DEF WriteConf
  <1>13. CASE Default(p)
    BY <1>13 DEF Default
  <1>14. CASE Mask(p)
    BY <1>14 DEF Mask
  <1>15. CASE CreateThread(p)
    BY <1>15 DEF CreateThread
  <1>16. CASE ThreadFails(p)
    BY <1>16 DEF ThreadFails
  <1>17. CASE TakeHup(p)
    BY <1>17 DEF TakeHup
  <1>18. CASE Reread(p)
    <2>1. CASE CONFFILE = 0
      <3>1. Leave(p) /\ UNCHANGED files
        BY <1>18, <2>1 DEF Reread
      <3> QED
        BY <3>1
    <2>2. CASE CONFFILE # 0
      BY <1>18, <2>2 DEF Reread
    <2> QED
      BY <2>1, <2>2
  <1>19. CASE TakeTerm(p)
    BY <1>19 DEF TakeTerm
  <1>20. CASE RemoveLock(p)
    BY <1>20 DEF RemoveLock
  <1>21. CASE RemoveConf(p)
    BY <1>21 DEF RemoveConf
  <1>22. CASE Exit(p)
    BY <1>22 DEF Exit
  <1>23. CASE FileFails(p)
    BY <1>23 DEF FileFails
  <1>24. CASE Kill(p)
    BY <1>24 DEF Kill
  <1>25. CASE FailsUnseen(p)
    <2>1. \E to : Goto(p, at[p], to) /\ (at[p] \in Locking /\ to \in Locking)
      BY <1>25 DEF FailsUnseen
    <2>2. UNCHANGED <<LOCKFILE, fd, lock>>
      BY <1>25 DEF FailsUnseen
    <2> QED
      BY <2>1, <2>2
  <1>26. CASE \E s \in {"SIGHUP", "SIGTERM"} : Signal(p, s)
    <2>1. PICK s \in {"SIGHUP", "SIGTERM"} : Signal(p, s)
      BY <1>26
    <2>2. CASE at[p] \in Unmasked
      <3>1. Leave(p) /\ UNCHANGED files
        BY <2>1, <2>2 DEF Signal
      <3> QED
        BY <3>1
    <2>3. CASE at[p] \notin Unmasked
      BY <2>1, <2>3 DEF Signal
    <2> QED
      BY <2>2, <2>3
  <1> QED
    BY <1>1, <1>3, <1>4, <1>5, <1>6, <1>7, <1>8, <1>9, <1>10, <1>11, <1>12, <1>13, <1>14,
       <1>15, <1>16, <1>17, <1>18, <1>19, <1>20, <1>21, <1>22, <1>23, <1>24,
       <1>25, <1>26 DEF Step, Environment

\* The two files hold what the copy that has the lock has written.
LEMMA ContentStep ==
    ASSUME program = "daemon", TypeOK, LockHeld, OneLocks, Contented, ConfOwned, Next
    PROVE  Contented' /\ ConfOwned'
  <1>1. PICK p \in Daemons : Step(p) \/ Environment(p)
    BY DEF Next
  <1>2. UNCHANGED program
    BY <1>1 DEF Step, Environment
  <1> USE <1>2 DEF Goto, Leave, NewFile, Contents, Take, files, Locking, TypeOK, LockHeld, OneLocks, Contented, Untold, ConfOwned
  <1>3. CASE Start(p)
    BY <1>3 DEF Start
  <1>4. CASE OpenLock(p)
    BY <1>4 DEF OpenLock
  <1>5. CASE Lock(p)
    BY <1>5 DEF Lock
  <1>6. CASE Refused(p)
    BY <1>6 DEF Refused
  <1>7. CASE Truncate(p)
    BY <1>7 DEF Truncate
  <1>8. CASE WritePid(p)
    BY <1>8 DEF WritePid
  <1>9. CASE CloseLock(p)
    BY <1>9 DEF CloseLock
  <1>10. CASE OpenConf(p)
    BY <1>10 DEF OpenConf
  <1>11. CASE TruncateConf(p)
    BY <1>11 DEF TruncateConf
  <1>12. CASE WriteConf(p)
    BY <1>12 DEF WriteConf
  <1>13. CASE Default(p)
    BY <1>13 DEF Default
  <1>14. CASE Mask(p)
    BY <1>14 DEF Mask
  <1>15. CASE CreateThread(p)
    BY <1>15 DEF CreateThread
  <1>16. CASE ThreadFails(p)
    BY <1>16 DEF ThreadFails
  <1>17. CASE TakeHup(p)
    BY <1>17 DEF TakeHup
  <1>18. CASE Reread(p)
    <2>1. CASE CONFFILE = 0
      BY <1>18, <2>1 DEF Reread
    <2>2. CASE CONFFILE # 0
      BY <1>18, <2>2 DEF Reread
    <2> QED
      BY <2>1, <2>2
  <1>19. CASE TakeTerm(p)
    BY <1>19 DEF TakeTerm
  <1>20. CASE RemoveLock(p)
    BY <1>20 DEF RemoveLock
  <1>21. CASE RemoveConf(p)
    BY <1>21 DEF RemoveConf
  <1>22. CASE Exit(p)
    BY <1>22 DEF Exit
  <1>23. CASE FileFails(p)
    BY <1>23 DEF FileFails
  <1>24. CASE Kill(p)
    BY <1>24 DEF Kill
  <1>25. CASE FailsUnseen(p)
    BY <1>25 DEF FailsUnseen
  <1>26. CASE \E s \in {"SIGHUP", "SIGTERM"} : Signal(p, s)
    <2>1. PICK s \in {"SIGHUP", "SIGTERM"} : Signal(p, s)
      BY <1>26
    <2>2. CASE at[p] \in Unmasked
      BY <2>1, <2>2 DEF Signal
    <2>3. CASE at[p] \notin Unmasked
      BY <2>1, <2>3 DEF Signal
    <2> QED
      BY <2>2, <2>3
  <1> QED
    BY <1>1, <1>3, <1>4, <1>5, <1>6, <1>7, <1>8, <1>9, <1>10, <1>11, <1>12, <1>13, <1>14,
       <1>15, <1>16, <1>17, <1>18, <1>19, <1>20, <1>21, <1>22, <1>23, <1>24,
       <1>25, <1>26 DEF Step, Environment

\* The inductive invariant: in daemon.c a copy past the lock has locked
\* LOCKFILE, it alone, and the two files hold what it has written.
IInv == TypeOK /\ (program = "daemon" => LockHeld /\ OneLocks /\ Contented) /\ ConfOwned

\* The invariant holds before any copy starts.
LEMMA Initially == Init => IInv
  BY DaemonAssumption
     DEF Init, IInv, TypeOK, LockHeld, OneLocks, Contented, Untold, ConfOwned, Places, Locking

\* A step that changes nothing.
LEMMA Stutter == UNCHANGED vars /\ IInv => IInv'
  BY DEF vars, files, IInv, TypeOK, LockHeld, OneLocks, Contented, Untold, ConfOwned

\* No copy changes its program.
LEMMA SameProgram == Next => UNCHANGED program
  BY DEF Next, Step, Environment

\* The files' inodes, the descriptors and the places of either program.
THEOREM TypeCorrect == Spec => []TypeOK
  <1>1. Init => TypeOK
    BY DaemonAssumption DEF Init, TypeOK, Places
  <1>2. TypeOK /\ [Next]_vars => TypeOK'
    BY TypeStep DEF vars, files, TypeOK
  <1> QED
    BY <1>1, <1>2, PTL DEF Spec

\* The invariant from which the next two theorems follow: the steps of
\* daemon.c keep it; of daemon_test.c it only claims the types.
THEOREM Invariant == Spec => []IInv
  <1>1. ASSUME IInv, Next
        PROVE  IInv'
    <2>1. TypeOK' /\ UNCHANGED program
      BY <1>1, TypeStep, SameProgram DEF IInv
    <2>2. CASE program = "daemon"
      <3>1. LockHeld' /\ OneLocks'
        BY <1>1, <2>2, LockStep DEF IInv
      <3>2. Contented' /\ ConfOwned'
        BY <1>1, <2>2, ContentStep DEF IInv
      <3> QED
        BY <2>1, <3>1, <3>2 DEF IInv
    <2>3. CASE program # "daemon"
      BY <2>1, <2>3 DEF IInv, ConfOwned
    <2> QED
      BY <2>2, <2>3
  <1> QED
    BY Initially, <1>1, Stutter, PTL DEF Spec

\* The comment above already_running (daemon.c 92): one copy runs at most.
THEOREM OneCopy == Spec => []OneDaemon
  <1>1. IInv => OneDaemon
    BY DEF IInv, OneDaemon, SingleInstance, LockHeld, OneLocks, Passed, Locking
  <1> QED
    BY Invariant, <1>1, PTL

\* What the daemon that runs has written into its two files stays there
\* (daemon.c 118-134) while others start, are refused, or end; and when the write
\* of its pid has failed unseen, LOCKFILE does not tell another one that runs.
THEOREM FilesOwned == Spec => [](ConfOwned /\ PidOwned)
  <1>1. IInv => ConfOwned /\ PidOwned
    BY DEF IInv, TypeOK, ConfOwned, PidOwned, LockHeld, OneLocks, Contented, Untold, Passed, Locking, Places
  <1> QED
    BY Invariant, <1>1, PTL
=============================================================================
