------------------------------ MODULE SysVSem ------------------------------
(***************************************************************************)
(* System V semaphore sets as the laboratory programs use them: semop(2)   *)
(* applies an array of operations all at once or not at all, and SEM_UNDO  *)
(* makes the kernel keep, per process, the adjustment it applies to the    *)
(* set when the process ends.  The kernel is not part of the repository;   *)
(* only what os_lab_4 and os_lab_rpc call is modelled.                     *)
(*                                                                         *)
(* A set is a function from semaphore numbers to naturals.  The programs'  *)
(* arrays have two or five entries, so that their meaning is written out   *)
(* instead of computed by recursion.                                       *)
(***************************************************************************)
EXTENDS Integers, Sequences

\* struct sembuf without sem_flg: every array of a program has the same flag.
Sembuf(num, op) == [num |-> num, op |-> op]

\* One entry can be carried out on the values v: an operation 0 waits for
\* zero, a negative one for a value that stays natural.
Ready(v, o) == IF o.op = 0 THEN v[o.num] = 0 ELSE v[o.num] + o.op >= 0

\* The values after one entry.
Apply(v, o) == [v EXCEPT ![o.num] = @ + o.op]

\* semop(semid, a, 2): each entry is tested on the values the entries before
\* it leave, and nothing is changed unless all of them can be carried out.
After2(v, a) == Apply(Apply(v, a[1]), a[2])
Ready2(v, a) == Ready(v, a[1]) /\ Ready(Apply(v, a[1]), a[2])

\* semop(semid, a, 5).
After4(v, a) == Apply(Apply(After2(v, a), a[3]), a[4])
After5(v, a) == Apply(After4(v, a), a[5])
Ready5(v, a) ==
    /\ Ready2(v, a)
    /\ Ready(After2(v, a), a[3])
    /\ Ready(Apply(After2(v, a), a[3]), a[4])
    /\ Ready(After4(v, a), a[5])

\* SEM_UNDO: an operation is subtracted from the process's adjustment.
Adjust(d, o) == [d EXCEPT ![o.num] = @ - o.op]
Adjust2(d, a) == Adjust(Adjust(d, a[1]), a[2])

\* The end of a process adds its adjustment to the set, cut off at zero.
Undo(v, d) == [s \in DOMAIN v |-> IF v[s] + d[s] < 0 THEN 0 ELSE v[s] + d[s]]
=============================================================================
