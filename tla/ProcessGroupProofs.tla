------------------------- MODULE ProcessGroupProofs -------------------------
(***************************************************************************)
(* The actions of ProcessGroup keep its variables in their types and the   *)
(* parent's count of the ends true, whatever further places the children   *)
(* of a program have.                                                      *)
(***************************************************************************)
EXTENDS ProcessGroup, FiniteSetTheorems, TLAPS

\* Steps of a child, and signals to it.
LEMMA GroupSteps ==
    ASSUME NEW Places, {"unborn", "loop", "sleep", "P", "eintr", "gone"} \subseteq Places,
           GroupTypeOK(Places), NEW p \in Children
    PROVE  /\ \A to \in Places : Moves(p, to) => GroupTypeOK(Places)'
           /\ Quits(p) => GroupTypeOK(Places)'
           /\ QuitsInterrupted(p) => GroupTypeOK(Places)'
           /\ ChildHandler(p) => GroupTypeOK(Places)'
           /\ \A w \in BOOLEAN : Sigstop(p, w) => GroupTypeOK(Places)'
           /\ Sigcont(p) => GroupTypeOK(Places)'
  <1> USE GroupAssumption DEF GroupTypeOK, Goto, env
  <1>1. ASSUME NEW to \in Places, Moves(p, to) PROVE GroupTypeOK(Places)'
    BY <1>1 DEF Moves
  <1>2. CASE Quits(p)
    BY <1>2 DEF Quits, Ends
  <1>3. CASE QuitsInterrupted(p)
    BY <1>3 DEF QuitsInterrupted, Ends
  <1>4. CASE ChildHandler(p)
    BY <1>4 DEF ChildHandler, Handler
  <1>5. ASSUME NEW w \in BOOLEAN, Sigstop(p, w) PROVE GroupTypeOK(Places)'
    <2>1. stops' \in 0 .. MaxStops
      BY <1>5 DEF Sigstop
    <2>2. pc' \in [Children -> Places]
      BY <1>5 DEF Sigstop
    <2> QED
      BY <1>5, <2>1, <2>2 DEF Sigstop
  <1>6. CASE Sigcont(p)
    BY <1>6 DEF Sigcont
  <1> QED
    BY <1>1, <1>2, <1>3, <1>4, <1>5, <1>6

\* Steps of the parent, and what befalls the whole group.
LEMMA ParentSteps ==
    ASSUME NEW Places, {"unborn", "loop", "sleep", "P", "eintr", "gone"} \subseteq Places,
           GroupTypeOK(Places), MainStep \/ ForkFails \/ Sigint
    PROVE  GroupTypeOK(Places)'
  <1> USE GroupAssumption DEF GroupTypeOK, Goto, env
  <1>1. CASE MainStep
    <2>1. ASSUME NEW q \in Children, Fork(q) PROVE GroupTypeOK(Places)'
      <3>1. f_sigint[Main] \in {0, 1}
        OBVIOUS
      <3> QED
        BY <2>1, <3>1 DEF Fork
    <2>2. ASSUME NEW q \in Children, Wait(q) PROVE GroupTypeOK(Places)'
      BY <2>2 DEF Wait
    <2>3. CASE Cleanup
      BY <2>3 DEF Cleanup
    <2>4. CASE MainHandler
      BY <2>4 DEF MainHandler, Handler
    <2> QED
      BY <1>1, <2>1, <2>2, <2>3, <2>4 DEF MainStep
  <1>2. CASE ForkFails
    BY <1>2 DEF ForkFails
  <1>3. CASE Sigint
    BY <1>3 DEF Sigint
  <1> QED
    BY <1>1, <1>2, <1>3

\* The types of the group hold at the start.
LEMMA GroupInitType ==
    ASSUME NEW Places, {"unborn", "loop", "sleep", "P", "eintr", "gone"} \subseteq Places, GroupInit
    PROVE  GroupTypeOK(Places)
  <1>1. /\ pc \in [Children -> Places]
        /\ f_sigint \in [Children \cup {Main} -> {0, 1}]
        /\ report \in [Children -> {"none", "exited", "stopped", "continued"}]
    BY DEF GroupInit
  <1>2. sigints \in 0 .. MaxSigint /\ stops \in 0 .. MaxStops
    BY GroupAssumption DEF GroupInit
  <1> QED
    BY <1>1, <1>2 DEF GroupInit, GroupTypeOK

(***************************************************************************)
(* The parent's count of the ends.                                         *)
(***************************************************************************)
\* What a step of a program is to the group: a child that lives goes on or
\* ends, a signal, a step of the parent, or nothing.
GoesOn(p) == Alive(p) /\ \E to : Moves(p, to) /\ to \notin {"unborn", "gone"}
ComesToEnd(p) == Alive(p) /\ (Quits(p) \/ QuitsInterrupted(p))
ChildGroupStep(p) ==
    \/ GoesOn(p) \/ ComesToEnd(p) \/ ChildHandler(p)
    \/ Sigcont(p) \/ \E w \in BOOLEAN : Sigstop(p, w)
OthersGroupStep ==
    Cleanup \/ MainHandler \/ ForkFails \/ Sigint

\* Cardinalities of sets of children are numbers; of two sets that differ in one
\* child, one has one more; a part has no more than the whole.
LEMMA CardinalityOf ==
    ASSUME NEW S, S \subseteq Children
    PROVE  /\ IsFiniteSet(S) /\ Cardinality(S) \in Nat
           /\ \A T \in SUBSET S : Cardinality(T) <= Cardinality(S)
           /\ \A p \in Children \ S : Cardinality(S \cup {p}) = Cardinality(S) + 1
           /\ \A p \in S : Cardinality(S \ {p}) = Cardinality(S) - 1
  <1>1. IsFiniteSet(S) /\ Cardinality(S) \in Nat
    BY GroupAssumption, FS_Subset, FS_CardinalityType
  <1> QED
    BY <1>1, FS_Subset, FS_AddElement, FS_RemoveElement

\* A child's step keeps the reports true and the count bounded, and is itself
\* not counted: a SIGSTOP makes room for the two reports that it can cause.
LEMMA ChildCount ==
    ASSUME NEW Places, GroupTypeOK(Places), ReportsTrue, NEW p \in Children, ChildGroupStep(p)
    PROVE  /\ ReportsTrue' /\ Reaped' = Reaped
           /\ UNCHANGED <<mpc, waited, removed>>
           /\ MiscountBounded => MiscountBounded'
  <1> DEFINE Shown == ReportsTrue' /\ Reaped' = Reaped /\ UNCHANGED <<mpc, waited, removed>>
             Fewer == /\ stops' = stops
                      /\ ToTellStopped' \subseteq ToTellStopped
                      /\ ToTellContinued' \subseteq ToTellContinued
             More == /\ stops' = stops + 1
                     /\ ToTellStopped' \subseteq ToTellStopped \cup {p}
                     /\ ToTellContinued' \subseteq ToTellContinued \cup {p}
  <1>1. Shown /\ (Fewer \/ More)
    <2> USE DEF GroupTypeOK, Goto, env, Alive, Running, ReportsTrue, Reaped, ToTellStopped, ToTellContinued
    <2>1. CASE GoesOn(p)
      <3>1. PICK to : Moves(p, to) /\ to \notin {"unborn", "gone"}
        BY <2>1 DEF GoesOn
      <3>2. /\ Alive(p) /\ UNCHANGED <<mpc, stopped, report, waited, removed, stops>>
            /\ \A q \in Children : pc'[q] = IF q = p THEN to ELSE pc[q]
        BY <2>1, <3>1 DEF Moves, GoesOn
      <3> QED
        BY <3>1, <3>2
    <2>2. CASE ComesToEnd(p)
      <3>1. /\ Alive(p) /\ stopped' = stopped \ {p}
            /\ UNCHANGED <<mpc, waited, removed, stops>>
            /\ \A q \in Children : pc'[q] = IF q = p THEN "gone" ELSE pc[q]
            /\ \A q \in Children : report'[q] = IF q = p THEN "exited" ELSE report[q]
        BY <2>2 DEF ComesToEnd, Quits, QuitsInterrupted, Ends
      <3> QED
        BY <3>1
    <2>3. CASE ChildHandler(p)
      BY <2>3 DEF ChildHandler, Handler
    <2>4. CASE Sigcont(p)
      <3>1. /\ p \in stopped /\ stopped' = stopped \ {p} /\ UNCHANGED <<pc, mpc, waited, removed, stops>>
            /\ \A q \in Children : report'[q] = IF q = p THEN "continued" ELSE report[q]
        BY <2>4 DEF Sigcont
      <3> QED
        BY <3>1
    <2>5. ASSUME NEW w \in BOOLEAN, Sigstop(p, w) PROVE Shown /\ More
      <3>1. /\ Alive(p) /\ stopped' = stopped \cup {p} /\ UNCHANGED <<mpc, waited, removed>>
            /\ stops' = stops + 1
            /\ \A q \in Children : q # p \/ pc'[q] # "eintr" => pc'[q] = pc[q]
            /\ \A q \in Children : report'[q] = IF q = p THEN "stopped" ELSE report[q]
        BY <2>5 DEF Sigstop
      <3> QED
        BY <3>1
    <2> QED
      BY <2>1, <2>2, <2>3, <2>4, <2>5 DEF ChildGroupStep
  <1> HIDE DEF Fewer, More
  <1>2. ASSUME MiscountBounded PROVE MiscountBounded'
    <2>1. /\ ToTellStopped \subseteq Children /\ ToTellContinued \subseteq Children
          /\ Reaped \subseteq Children
      BY DEF ToTellStopped, ToTellContinued, Reaped
    <2>2. waited \in Nat /\ stops \in Nat /\ waited' = waited /\ Reaped' = Reaped
      BY <1>1, GroupAssumption DEF GroupTypeOK
    <2>3. PICK s \in {0, 1} :
             /\ stops' = stops + s
             /\ Cardinality(ToTellStopped') <= Cardinality(ToTellStopped) + s
             /\ Cardinality(ToTellContinued') <= Cardinality(ToTellContinued) + s
             /\ Cardinality(ToTellStopped') \in Nat /\ Cardinality(ToTellContinued') \in Nat
      <3>1. ASSUME NEW S, S \subseteq Children, NEW T, T \subseteq S \cup {p}
            PROVE  Cardinality(T) \in Nat /\ Cardinality(T) <= Cardinality(S) + 1
        <4>1. Cardinality(S \cup {p}) <= Cardinality(S) + 1
          <5>1. CASE p \in S
            <6>1. S \cup {p} = S
              BY <5>1
            <6> QED
              BY <3>1, <6>1, CardinalityOf
          <5>2. CASE p \notin S
            BY <3>1, <5>2, CardinalityOf
          <5> QED
            BY <5>1, <5>2
        <4>2. S \cup {p} \subseteq Children
          BY <3>1
        <4>3. /\ Cardinality(T) <= Cardinality(S \cup {p}) /\ Cardinality(S \cup {p}) \in Nat
              /\ Cardinality(T) \in Nat /\ Cardinality(S) \in Nat
          BY <3>1, <4>2, CardinalityOf
        <4> QED
          BY <4>1, <4>3
      <3>2. CASE Fewer
        <4>1. ASSUME NEW S, S \subseteq Children, NEW T, T \subseteq S
              PROVE  Cardinality(T) \in Nat /\ Cardinality(T) <= Cardinality(S)
          <5>1. T \subseteq Children /\ T \in SUBSET S
            BY <4>1
          <5> QED
            BY <4>1, <5>1, CardinalityOf
        <4>2. ToTellStopped' \subseteq ToTellStopped /\ ToTellContinued' \subseteq ToTellContinued
              /\ stops' = stops
          BY <3>2 DEF Fewer
        <4>3. /\ Cardinality(ToTellStopped') \in Nat /\ Cardinality(ToTellContinued') \in Nat
              /\ Cardinality(ToTellStopped') <= Cardinality(ToTellStopped)
              /\ Cardinality(ToTellContinued') <= Cardinality(ToTellContinued)
          BY <2>1, <4>1, <4>2
        <4>4. Cardinality(ToTellStopped) \in Nat /\ Cardinality(ToTellContinued) \in Nat
          BY <2>1, CardinalityOf
        <4> WITNESS 0 \in {0, 1}
        <4> QED
          BY <2>2, <4>2, <4>3, <4>4
      <3>3. CASE More
        <4>1. /\ ToTellStopped' \subseteq ToTellStopped \cup {p}
              /\ ToTellContinued' \subseteq ToTellContinued \cup {p} /\ stops' = stops + 1
          BY <3>3 DEF More
        <4>2. /\ Cardinality(ToTellStopped') \in Nat /\ Cardinality(ToTellContinued') \in Nat
              /\ Cardinality(ToTellStopped') <= Cardinality(ToTellStopped) + 1
              /\ Cardinality(ToTellContinued') <= Cardinality(ToTellContinued) + 1
          BY <2>1, <3>1, <4>1
        <4> WITNESS 1 \in {0, 1}
        <4> QED
          BY <4>1, <4>2
      <3> QED
        BY <1>1, <3>2, <3>3
    <2>4. /\ Cardinality(ToTellStopped) \in Nat /\ Cardinality(ToTellContinued) \in Nat
          /\ Cardinality(Reaped) \in Nat /\ Cardinality(Reaped') = Cardinality(Reaped)
      BY <2>1, <2>2, CardinalityOf
    <2>5. waited + Cardinality(ToTellStopped) + Cardinality(ToTellContinued)
             <= Cardinality(Reaped) + 2 * stops
      BY <1>2 DEF MiscountBounded
    <2>6. waited' + Cardinality(ToTellStopped') + Cardinality(ToTellContinued')
             <= Cardinality(Reaped') + 2 * stops'
      BY <2>2, <2>3, <2>4, <2>5
    <2> QED
      BY <2>6 DEF MiscountBounded
  <1> QED
    BY <1>1, <1>2

\* So do the steps of the parent and of the group that wait for nobody.
LEMMA OthersCount ==
    ASSUME NEW Places, GroupTypeOK(Places), ReportsTrue, CleanupAfterCount,
           OthersGroupStep \/ (\E p \in Children : Fork(p)) \/ UNCHANGED group
    PROVE  /\ ReportsTrue' /\ Reaped' = Reaped /\ CleanupAfterCount'
           /\ waited' = waited
           /\ MiscountBounded => MiscountBounded'
  <1>1. /\ ReportsTrue' /\ Reaped' = Reaped /\ CleanupAfterCount'
        /\ UNCHANGED <<waited, stops, stopped, report>>
    <2> USE DEF GroupTypeOK, Goto, env, Alive, ReportsTrue, Reaped, CleanupAfterCount
    <2>1. CASE OthersGroupStep
      BY <2>1 DEF OthersGroupStep, Cleanup, MainHandler, Handler, ForkFails, Sigint
    <2>2. ASSUME NEW p \in Children, Fork(p)
          PROVE  /\ ReportsTrue' /\ Reaped' = Reaped /\ CleanupAfterCount'
                 /\ UNCHANGED <<waited, stops, stopped, report>>
      <3>1. /\ pc[p] = "unborn" /\ mpc = "fork" /\ mpc' \in {"fork", "wait"}
            /\ UNCHANGED <<stopped, report, waited, removed, stops>>
            /\ \A q \in Children : pc'[q] = IF q = p THEN "loop" ELSE pc[q]
        BY <2>2 DEF Fork, Unborn
      <3> QED
        BY <3>1
    <2>3. CASE UNCHANGED group
      BY <2>3 DEF group
    <2> QED
      BY <2>1, <2>2, <2>3
  <1>2. ToTellStopped' = ToTellStopped /\ ToTellContinued' = ToTellContinued
    BY <1>1 DEF ToTellStopped, ToTellContinued
  <1> QED
    BY <1>1, <1>2 DEF MiscountBounded

\* A return of waitpid that tells of an end is one end more in both counts, and
\* one that tells of a stop or a continuation is one less that is to be told;
\* the parent goes on when it has counted as many as it forked.
LEMMA WaitCount ==
    ASSUME NEW Places, GroupTypeOK(Places), ReportsTrue, CleanupAfterCount,
           NEW p \in Children, Wait(p)
    PROVE  /\ ReportsTrue' /\ CleanupAfterCount'
           /\ EndsCounted /\ report[p] = "exited" => EndsCounted'
           /\ MiscountBounded => MiscountBounded'
  <1>1. /\ mpc = "wait" /\ report[p] # "none" /\ waited' = waited + 1
        /\ mpc' = IF waited + 1 = Cardinality(Children) THEN "cleanup" ELSE "wait"
        /\ UNCHANGED <<pc, stopped, removed, stops>>
        /\ \A q \in Children : report'[q] = IF q = p THEN "none" ELSE report[q]
    BY DEF Wait, GroupTypeOK, env
  <1>2. ReportsTrue'
    BY <1>1 DEF ReportsTrue, Alive
  <1>3. CleanupAfterCount'
    BY <1>1 DEF CleanupAfterCount
  <1>4. waited \in Nat /\ stops \in Nat /\ report[p] \in {"exited", "stopped", "continued"}
    BY <1>1, GroupAssumption DEF GroupTypeOK
  <1>5. /\ Reaped \subseteq Children /\ ToTellStopped \subseteq Children
        /\ ToTellContinued \subseteq Children
    BY DEF Reaped, ToTellStopped, ToTellContinued
  <1>6. /\ Cardinality(Reaped) \in Nat /\ Cardinality(ToTellStopped) \in Nat
        /\ Cardinality(ToTellContinued) \in Nat
    BY <1>5, CardinalityOf
  <1> DEFINE Counts(e, s, c) ==
                 /\ Cardinality(Reaped') = Cardinality(Reaped) + e
                 /\ Cardinality(ToTellStopped') = Cardinality(ToTellStopped) - s
                 /\ Cardinality(ToTellContinued') = Cardinality(ToTellContinued) - c
  <1>7. CASE report[p] = "exited"
    <2>1. /\ p \notin Reaped /\ Reaped' = Reaped \cup {p}
          /\ ToTellStopped' = ToTellStopped /\ ToTellContinued' = ToTellContinued
      BY <1>1, <1>7 DEF ReportsTrue, Reaped, ToTellStopped, ToTellContinued
    <2>2. Cardinality(Reaped') = Cardinality(Reaped) + 1
      BY <1>5, <2>1, CardinalityOf
    <2>3. EndsCounted => EndsCounted'
      BY <1>1, <2>2 DEF EndsCounted
    <2>4. MiscountBounded => MiscountBounded'
      BY <1>1, <1>4, <1>6, <2>1, <2>2 DEF MiscountBounded
    <2> QED
      BY <1>2, <1>3, <2>3, <2>4
  <1>8. CASE report[p] = "stopped"
    <2>1. /\ Reaped' = Reaped /\ ToTellContinued' = ToTellContinued
          /\ p \in ToTellStopped /\ ToTellStopped' = ToTellStopped \ {p}
      BY <1>1, <1>8 DEF ReportsTrue, Reaped, ToTellStopped, ToTellContinued
    <2>2. Cardinality(ToTellStopped') = Cardinality(ToTellStopped) - 1
      BY <1>5, <2>1, CardinalityOf
    <2>3. MiscountBounded => MiscountBounded'
      BY <1>1, <1>4, <1>6, <2>1, <2>2 DEF MiscountBounded
    <2> QED
      BY <1>2, <1>3, <1>8, <2>3
  <1>9. CASE report[p] = "continued"
    <2>1. /\ Reaped' = Reaped /\ ToTellStopped' = ToTellStopped
          /\ p \in ToTellContinued /\ ToTellContinued' = ToTellContinued \ {p}
      BY <1>1, <1>9 DEF ReportsTrue, Reaped, ToTellStopped, ToTellContinued
    <2>2. Cardinality(ToTellContinued') = Cardinality(ToTellContinued) - 1
      BY <1>5, <2>1, CardinalityOf
    <2>3. MiscountBounded => MiscountBounded'
      BY <1>1, <1>4, <1>6, <2>1, <2>2 DEF MiscountBounded
    <2> QED
      BY <1>2, <1>3, <1>9, <2>3
  <1> QED
    BY <1>4, <1>7, <1>8, <1>9

\* The count is kept by every step of a program whose parent waits for any
\* child, counting every return (pc.c, wr.c).
LEMMA CountStep ==
    ASSUME NEW Places, GroupTypeOK(Places), CountInv,
           \/ \E p \in Children : ChildGroupStep(p) \/ Fork(p) \/ Wait(p)
           \/ OthersGroupStep \/ UNCHANGED group
    PROVE  CountInv'
  <1>1. ASSUME NEW p \in Children, ChildGroupStep(p) PROVE CountInv'
    BY <1>1, ChildCount DEF CountInv, CleanupAfterCount
  <1>2. CASE OthersGroupStep \/ (\E p \in Children : Fork(p)) \/ UNCHANGED group
    BY <1>2, OthersCount DEF CountInv
  <1>3. ASSUME NEW p \in Children, Wait(p) PROVE CountInv'
    BY <1>3, WaitCount DEF CountInv
  <1> QED
    BY <1>1, <1>2, <1>3

\* Nothing is counted at the start.
LEMMA CountInit == GroupInit => CountInv /\ EndsCounted
  <1> SUFFICES ASSUME GroupInit PROVE CountInv /\ EndsCounted
    OBVIOUS
  <1>1. Reaped = {} /\ ToTellStopped = {} /\ ToTellContinued = {}
    BY DEF GroupInit, Reaped, ToTellStopped, ToTellContinued
  <1>2. waited = 0 /\ stops = 0 /\ EndsCounted
    BY <1>1, FS_EmptySet DEF GroupInit, EndsCounted
  <1>3. MiscountBounded
    BY <1>1, <1>2, FS_EmptySet DEF MiscountBounded
  <1>4. ReportsTrue /\ CleanupAfterCount
    BY DEF GroupInit, ReportsTrue, CleanupAfterCount
  <1> QED
    BY <1>2, <1>3, <1>4 DEF CountInv

\* When as many ends are counted as there are children, all have ended.
LEMMA CountTells ==
    ASSUME EndsCounted, CleanupAfterCount, removed
    PROVE  \A p \in Children : pc[p] = "gone"
  <1>1. Reaped \subseteq Children /\ Cardinality(Reaped) = Cardinality(Children)
    BY DEF Reaped, EndsCounted, CleanupAfterCount
  <1>2. Reaped = Children
    BY <1>1, GroupAssumption, FS_Subset
  <1> QED
    BY <1>2 DEF Reaped

\* When a bounded count is reached, no more children live than it is out by.
LEMMA CountBounds ==
    ASSUME NEW Places, GroupTypeOK(Places), CountInv PROVE CleanupLast
  <1> SUFFICES ASSUME removed
               PROVE  Cardinality({p \in Children : pc[p] # "gone"}) <= 2 * stops
    BY DEF CleanupLast
  <1> DEFINE Left == {p \in Children : pc[p] # "gone"}
  <1>1. Reaped \subseteq Children /\ Left \subseteq Children \ Reaped
    BY DEF Reaped
  <1>2. /\ Cardinality(Children \ Reaped) = Cardinality(Children) - Cardinality(Reaped)
        /\ Cardinality(Reaped) \in Nat /\ Cardinality(Children) \in Nat
    <2>1. Children \cap Reaped = Reaped /\ Children \subseteq Children
      BY <1>1
    <2>2. Cardinality(Children \ Reaped) = Cardinality(Children) - Cardinality(Children \cap Reaped)
      BY GroupAssumption, FS_Difference
    <2>3. Cardinality(Reaped) \in Nat /\ Cardinality(Children) \in Nat
      BY <1>1, <2>1, CardinalityOf
    <2> QED
      BY <2>1, <2>2, <2>3
  <1>3. Cardinality(Left) <= Cardinality(Children \ Reaped) /\ Cardinality(Left) \in Nat
    BY <1>1, CardinalityOf
  <1>4. Cardinality(ToTellStopped) \in Nat /\ Cardinality(ToTellContinued) \in Nat
    BY CardinalityOf DEF ToTellStopped, ToTellContinued
  <1>5. /\ waited = Cardinality(Children) /\ stops \in Nat
        /\ waited + Cardinality(ToTellStopped) + Cardinality(ToTellContinued)
              <= Cardinality(Reaped) + 2 * stops
    BY GroupAssumption DEF CountInv, CleanupAfterCount, MiscountBounded, GroupTypeOK
  <1> HIDE DEF Left
  <1>6. Cardinality(Left) <= 2 * stops
    BY <1>2, <1>3, <1>4, <1>5
  <1> QED
    BY <1>6 DEF Left
=============================================================================
