---------------------------- MODULE BakeryProofs ----------------------------
(***************************************************************************)
(* Proofs about Bakery, for any number of slots and clients.  Typing and   *)
(* the ranges of the loops first, then the mutex of a slot with what it    *)
(* protects, then the order in which clients are served.                   *)
(***************************************************************************)
EXTENDS Bakery, TLAPS

(***************************************************************************)
(* What the steps do.                                                      *)
(***************************************************************************)
Tests(c) == TestNonzero(c) \/ TestLess(c) \/ TestEqual(c) \/ TestPid(c)

\* The steps of a client and of its threads, one by one.
LEMMA Steps ==
  ASSUME NEW c \in Clients, Step(c)
  PROVE  \/ CallGet(c) \/ CallServe(c) \/ Timeout(c) \/ Kill(c)
         \/ GetFirst(c) \/ GetCompare(c) \/ GetReload(c) \/ GetNumber(c) \/ GetPid(c) \/ GetReply(c)
         \/ Tests(c) \/ Inside(c) \/ Clear(c) \/ ClearPid(c) \/ ServeReply(c)
  BY DEF Step, GetStep, ServeStep, Tests

\* The tests of the loop move one thread, and let it in at the last slot.
LEMMA TestsMove ==
  ASSUME NEW c \in Clients, TypeOK, Phases, Tests(c)
  PROVE  /\ UNCHANGED <<numbers, pids, client, get, i, res, ahead>>
         /\ serve[c] \in Testing /\ at[c] < COUNT_CLIENTS
         /\ serve' \in [Clients -> ServePlaces]
         /\ at' \in [Clients -> 0 .. COUNT_CLIENTS]
         /\ serve'[c] \in Testing \cup {"inside"}
         /\ serve'[c] \in Testing => at'[c] < COUNT_CLIENTS
         /\ \/ at'[c] = at[c] /\ serve'[c] \in Testing
            \/ at'[c] = at[c] + 1 /\ serve'[c] \in {"nonzero", "inside"}
         /\ LockedInServe(c)' => LockedInServe(c) \/ Free(SlotOf[c])
         /\ \A d \in Clients \ {c} : serve'[d] = serve[d] /\ at'[d] = at[d]
<1> USE ClientsAssumption
<1>1. serve[c] \in Testing /\ at[c] < COUNT_CLIENTS /\ at[c] \in 0 .. COUNT_CLIENTS
  BY DEF TypeOK, Phases, Tests, TestNonzero, TestLess, TestEqual, TestPid, Testing
<1>2. UNCHANGED <<numbers, pids, client, get, i, res, ahead>>
  BY DEF Tests, TestNonzero, TestLess, TestEqual, TestPid, server, getvars
<1>3. \/ Again(c)
      \/ NextSlot(c)
      \/ Test(c, "less") /\ Free(SlotOf[c])
      \/ serve[c] \in {"less", "equal"} /\ (Test(c, "equal") \/ Test(c, "pid"))
  BY DEF Tests, TestNonzero, TestLess, TestEqual, TestPid
<1>4. CASE Again(c)
  BY <1>1, <1>2, <1>4 DEF Again, TypeOK, Testing, ServePlaces, LockedInServe
<1>5. CASE NextSlot(c)
  <2>1. /\ at' = [at EXCEPT ![c] = at[c] + 1]
        /\ \/ at[c] + 1 = COUNT_CLIENTS /\ serve' = [serve EXCEPT ![c] = "inside"]
           \/ at[c] + 1 # COUNT_CLIENTS /\ serve' = [serve EXCEPT ![c] = "nonzero"]
    BY <1>5 DEF NextSlot
  <2>2. at[c] + 1 \in 0 .. COUNT_CLIENTS /\ (at[c] + 1 # COUNT_CLIENTS => at[c] + 1 < COUNT_CLIENTS)
    BY <1>1
  <2>3. CASE serve' = [serve EXCEPT ![c] = "inside"]
    BY <1>2, <1>1, <2>1, <2>2, <2>3 DEF TypeOK, Testing, ServePlaces, LockedInServe
  <2>4. CASE at[c] + 1 # COUNT_CLIENTS /\ serve' = [serve EXCEPT ![c] = "nonzero"]
    BY <1>2, <1>1, <2>1, <2>2, <2>4 DEF TypeOK, Testing, ServePlaces, LockedInServe
  <2>5. QED
    BY <2>1, <2>3, <2>4
<1>6. CASE Test(c, "less") /\ Free(SlotOf[c])
  BY <1>1, <1>2, <1>6 DEF Test, TypeOK, Testing, ServePlaces
<1>7. CASE serve[c] \in {"less", "equal"} /\ (Test(c, "equal") \/ Test(c, "pid"))
  BY <1>1, <1>2, <1>7 DEF Test, TypeOK, Testing, ServePlaces, LockedInServe
<1>8. QED
  BY <1>3, <1>4, <1>5, <1>6, <1>7

(***************************************************************************)
(* Types.                                                                  *)
(***************************************************************************)
\* The types and phases hold at the start.
LEMMA InitTyped == Init => TypeOK /\ Phases
<1> SUFFICES ASSUME Init PROVE TypeOK /\ Phases
  OBVIOUS
<1>1. TypeOK
  BY ClientsAssumption DEF Init, TypeOK, GetPlaces, ServePlaces, Slots
<1>2. Phases
  BY ClientsAssumption DEF Init, Phases, Testing
<1>3. QED
  BY <1>1, <1>2

\* A step keeps the types.
LEMMA NextTyped ==
  ASSUME TypeOK, Phases, [Next]_vars
  PROVE  TypeOK'
<1> USE ClientsAssumption DEF TypeOK, GetPlaces, ServePlaces
<1>1. CASE UNCHANGED vars
  BY <1>1 DEF vars, server, getvars, servevars
<1>2. ASSUME NEW c \in Clients, Step(c)
      PROVE  TypeOK'
  <2>1. CASE CallGet(c)
    BY <2>1 DEF CallGet, Client, server, getvars, servevars
  <2>2. CASE CallServe(c)
    BY <2>2 DEF CallServe, Client, server, getvars, servevars
  <2>3. CASE Timeout(c)
    BY <2>3 DEF Timeout, Client, server, getvars, servevars
  <2>4. CASE Kill(c)
    BY <2>4 DEF Kill, server, getvars, servevars
  <2>5. CASE GetFirst(c)
    <3>1. 0 \in Slots /\ 0 \in 0 .. COUNT_CLIENTS
      BY DEF Slots
    <3>2. numbers[0] \in Nat
      BY <3>1
    <3>3. Standing \in SUBSET Clients
      BY DEF Standing
    <3>4. QED
      BY <2>5, <3>1, <3>2, <3>3 DEF GetFirst, server, servevars
  <2>6. CASE GetCompare(c)
    <3>1. i[c] + 1 \in 0 .. COUNT_CLIENTS
      BY <2>6 DEF GetCompare
    <3>2. CASE get' = [get EXCEPT ![c] = "reload"] /\ i' = i
      BY <2>6, <3>2 DEF GetCompare, server, servevars
    <3>3. CASE get' = get /\ i' = [i EXCEPT ![c] = i[c] + 1]
      BY <2>6, <3>1, <3>3 DEF GetCompare, server, servevars
    <3>4. QED
      BY <2>6, <3>2, <3>3 DEF GetCompare
  <2>7. CASE GetReload(c)
    <3>1. i[c] \in Slots /\ i[c] + 1 \in 0 .. COUNT_CLIENTS
      BY <2>7 DEF GetReload, Phases, Slots
    <3>2. numbers[i[c]] \in Nat
      BY <3>1
    <3>3. QED
      BY <2>7, <3>1, <3>2 DEF GetReload, server, servevars
  <2>8. CASE GetNumber(c)
    BY <2>8 DEF GetNumber, server, getvars, servevars
  <2>9. CASE GetPid(c)
    BY <2>9 DEF GetPid, server, getvars, servevars
  <2>10. CASE GetReply(c)
    BY <2>10 DEF GetReply, Client, server, getvars, servevars
  <2>11. CASE Tests(c)
    BY <2>11, TestsMove
  <2>12. CASE Inside(c)
    BY <2>12 DEF Inside, Test, server, getvars, servevars
  <2>13. CASE Clear(c)
    BY <2>13 DEF Clear, Test, Forget, server, getvars, servevars
  <2>14. CASE ClearPid(c)
    BY <2>14 DEF ClearPid, Test, server, getvars, servevars
  <2>15. CASE ServeReply(c)
    BY <2>15 DEF ServeReply, Test, Client, server, getvars, servevars
  <2>16. QED
    BY <1>2, <2>1, <2>2, <2>3, <2>4, <2>5, <2>6, <2>7, <2>8, <2>9, <2>10, <2>11, <2>12, <2>13, <2>14, <2>15, Steps
<1>3. QED
  BY <1>1, <1>2 DEF Next

\* A step keeps the phases of a client.
LEMMA NextPhases ==
  ASSUME TypeOK, Phases, [Next]_vars
  PROVE  Phases'
<1> USE ClientsAssumption DEF TypeOK, Phases, Testing
<1>1. CASE UNCHANGED vars
  BY <1>1 DEF vars, server, getvars, servevars
<1>2. ASSUME NEW c \in Clients, Step(c)
      PROVE  Phases'
  <2>1. CASE CallGet(c)
    BY <2>1 DEF CallGet, Client, server, getvars, servevars
  <2>2. CASE CallServe(c)
    <3>1. at[c] = 0 /\ 0 < COUNT_CLIENTS
      BY <2>2 DEF CallServe, Client, Slots
    <3>2. QED
      BY <2>2, <3>1 DEF CallServe, Client, server, getvars
  <2>3. CASE Timeout(c)
    BY <2>3 DEF Timeout, Client, server, getvars, servevars
  <2>4. CASE Kill(c)
    BY <2>4 DEF Kill, server, getvars, servevars
  <2>5. CASE GetFirst(c)
    BY <2>5 DEF GetFirst, server, getvars, servevars
  <2>6. CASE GetCompare(c)
    BY <2>6 DEF GetCompare, server, getvars, servevars
  <2>7. CASE GetReload(c)
    BY <2>7 DEF GetReload, server, getvars, servevars
  <2>8. CASE GetNumber(c)
    BY <2>8 DEF GetNumber, server, getvars, servevars
  <2>9. CASE GetPid(c)
    BY <2>9 DEF GetPid, server, getvars, servevars
  <2>10. CASE GetReply(c)
    BY <2>10 DEF GetReply, Client, server, getvars, servevars
  <2>11. CASE Tests(c)
    BY <2>11, TestsMove
  <2>12. CASE Inside(c)
    BY <2>12 DEF Inside, Test, server, getvars, servevars
  <2>13. CASE Clear(c)
    BY <2>13 DEF Clear, Test, Forget, server, getvars, servevars
  <2>14. CASE ClearPid(c)
    BY <2>14 DEF ClearPid, Test, server, getvars, servevars
  <2>15. CASE ServeReply(c)
    BY <2>15 DEF ServeReply, Test, Client, server, getvars, servevars
  <2>16. QED
    BY <1>2, <2>1, <2>2, <2>3, <2>4, <2>5, <2>6, <2>7, <2>8, <2>9, <2>10, <2>11, <2>12, <2>13, <2>14, <2>15, Steps
<1>3. QED
  BY <1>1, <1>2 DEF Next

\* The types of Bakery's state (bakery_server.c 9-10): numbers are naturals,
\* pids those of clients, the loops stay within the arrays.
THEOREM TypeCorrect == Spec => []TypeOK
<1>1. TypeOK /\ Phases /\ [Next]_vars => (TypeOK /\ Phases)'
  BY NextTyped, NextPhases
<1>2. QED
  BY <1>1, InitTyped, PTL DEF Spec

(***************************************************************************)
(* The mutex of a slot and what it protects.                               *)
(***************************************************************************)
\* A step keeps the mutex of a slot with one thread.
LEMMA NextMutex ==
  ASSUME TypeOK, Phases, Mutex, [Next]_vars
  PROVE  Mutex'
<1> USE ClientsAssumption DEF TypeOK, Mutex, LockedInGet, LockedInServe
<1>1. CASE UNCHANGED vars
  BY <1>1 DEF vars, server, getvars, servevars
<1>2. ASSUME NEW c \in Clients, Step(c)
      PROVE  Mutex'
  <2>1. CASE CallGet(c)
    BY <2>1 DEF CallGet, Client, server, getvars, servevars
  <2>2. CASE CallServe(c)
    BY <2>2 DEF CallServe, Client, server, getvars, servevars
  <2>3. CASE Timeout(c)
    BY <2>3 DEF Timeout, Client, server, getvars, servevars
  <2>4. CASE Kill(c)
    BY <2>4 DEF Kill, server, getvars, servevars
  <2>5. CASE GetFirst(c)
    BY <2>5 DEF GetFirst, Free, Locked, server, getvars, servevars
  <2>6. CASE GetCompare(c)
    BY <2>6 DEF GetCompare, server, getvars, servevars
  <2>7. CASE GetReload(c)
    BY <2>7 DEF GetReload, server, getvars, servevars
  <2>8. CASE GetNumber(c)
    BY <2>8 DEF GetNumber, server, getvars, servevars
  <2>9. CASE GetPid(c)
    BY <2>9 DEF GetPid, server, getvars, servevars
  <2>10. CASE GetReply(c)
    BY <2>10 DEF GetReply, Client, server, getvars, servevars
  <2>11. CASE Tests(c)
    <3>1. LockedInServe(c)' => LockedInServe(c) \/ Free(SlotOf[c])
      BY <2>11, TestsMove
    <3>2. /\ get' = get
          /\ \A d \in Clients \ {c} : serve'[d] = serve[d]
      BY <2>11, TestsMove
    <3>3. QED
      BY <3>1, <3>2 DEF Free, Locked
  <2>12. CASE Inside(c)
    BY <2>12 DEF Inside, Test, server, getvars, servevars
  <2>13. CASE Clear(c)
    BY <2>13 DEF Clear, Test, Forget, Free, Locked, server, getvars, servevars
  <2>14. CASE ClearPid(c)
    BY <2>14 DEF ClearPid, Test, server, getvars, servevars
  <2>15. CASE ServeReply(c)
    BY <2>15 DEF ServeReply, Test, Client, server, getvars, servevars
  <2>16. QED
    BY <1>2, <2>1, <2>2, <2>3, <2>4, <2>5, <2>6, <2>7, <2>8, <2>9, <2>10, <2>11, <2>12, <2>13, <2>14, <2>15, Steps
<1>3. QED
  BY <1>1, <1>2 DEF Next

\* A step keeps number and pid of a slot together.
LEMMA NextPairs ==
  ASSUME TypeOK, Phases, Mutex, Pairs, [Next]_vars
  PROVE  Pairs'
<1> USE ClientsAssumption DEF TypeOK, Mutex, LockedInGet, LockedInServe, Pairs, Halfway
<1>1. CASE UNCHANGED vars
  BY <1>1 DEF vars, server, getvars, servevars
<1>2. ASSUME NEW c \in Clients, Step(c)
      PROVE  Pairs'
  <2>1. CASE CallGet(c)
    <3>1. UNCHANGED <<numbers, pids>>
      BY <2>1 DEF CallGet, server
    <3>2. \A d \in Clients : (get[d] = "pid")' = (get[d] = "pid") /\ UNCHANGED (serve[d] = "clearpid")
      BY <2>1, Phases DEF CallGet, Client, server, getvars, servevars, Phases
    <3>3. QED
      BY <3>1, <3>2
  <2>2. CASE CallServe(c)
    <3>1. UNCHANGED <<numbers, pids>>
      BY <2>2 DEF CallServe, server
    <3>2. \A d \in Clients : (get[d] = "pid")' = (get[d] = "pid") /\ UNCHANGED (serve[d] = "clearpid")
      BY <2>2, Phases DEF CallServe, Client, server, getvars, servevars, Phases
    <3>3. QED
      BY <3>1, <3>2
  <2>3. CASE Timeout(c)
    BY <2>3 DEF Timeout, Client, server, getvars, servevars
  <2>4. CASE Kill(c)
    BY <2>4 DEF Kill, server, getvars, servevars
  <2>5. CASE GetFirst(c)
    BY <2>5 DEF GetFirst, Free, Locked, server, getvars, servevars
  <2>6. CASE GetCompare(c)
    BY <2>6 DEF GetCompare, server, getvars, servevars
  <2>7. CASE GetReload(c)
    BY <2>7 DEF GetReload, server, getvars, servevars
  <2>8. CASE GetNumber(c)
    <3>1. SlotOf[c] \in Slots
      OBVIOUS
    <3>2. QED
      BY <2>8, <3>1 DEF GetNumber, Client, server, getvars, servevars, Test, Forget, Free, Locked
  <2>9. CASE GetPid(c)
    <3>1. SlotOf[c] \in Slots
      OBVIOUS
    <3>2. QED
      BY <2>9, <3>1 DEF GetPid, Client, server, getvars, servevars, Test, Forget, Free, Locked
  <2>10. CASE GetReply(c)
    BY <2>10 DEF GetReply, Client, server, getvars, servevars
  <2>11. CASE Tests(c)
    <3>1. UNCHANGED <<numbers, pids, get>>
      BY <2>11, TestsMove
    <3>2. \A d \in Clients : UNCHANGED (serve[d] = "clearpid")
      BY <2>11, TestsMove DEF Testing
    <3>3. QED
      BY <3>1, <3>2
  <2>12. CASE Inside(c)
    BY <2>12 DEF Inside, Test, server, getvars, servevars
  <2>13. CASE Clear(c)
    <3>1. SlotOf[c] \in Slots
      OBVIOUS
    <3>2. QED
      BY <2>13, <3>1 DEF Clear, Client, server, getvars, servevars, Test, Forget, Free, Locked
  <2>14. CASE ClearPid(c)
    <3>1. SlotOf[c] \in Slots
      OBVIOUS
    <3>2. QED
      BY <2>14, <3>1 DEF ClearPid, Client, server, getvars, servevars, Test, Forget, Free, Locked
  <2>15. CASE ServeReply(c)
    BY <2>15 DEF ServeReply, Test, Client, server, getvars, servevars
  <2>16. QED
    BY <1>2, <2>1, <2>2, <2>3, <2>4, <2>5, <2>6, <2>7, <2>8, <2>9, <2>10, <2>11, <2>12, <2>13, <2>14, <2>15, Steps
<1>3. QED
  BY <1>1, <1>2 DEF Next

\* mut[ind] makes the two stores of a thread one for every other thread of the
\* slot (bakery_server.c 28-39, 96-99), whatever clients are killed or give up.
THEOREM PairsTogether == Spec => []PairsWhole
<1> DEFINE I == TypeOK /\ Phases /\ Mutex /\ Pairs
<1>1. Init => I
  BY InitTyped, ClientsAssumption DEF Init, Mutex, LockedInGet, LockedInServe, Pairs, Halfway, Slots
<1>2. I /\ [Next]_vars => I'
  BY NextTyped, NextPhases, NextMutex, NextPairs
<1>3. I => PairsWhole
  BY DEF Pairs, PairsWhole, Halfway, Free, Locked
<1>4. QED
  BY <1>1, <1>2, <1>3, PTL DEF Spec

(***************************************************************************)
(* The order of service.                                                   *)
(***************************************************************************)
OneClientPerSlot == \A c, d \in Clients : SlotOf[c] = SlotOf[d] => c = d

\* Most steps change neither who stands, nor a number, nor who is ahead of whom;
\* three of the others only move a thread within get_number_1_svc or serve_1_svc.
Bystands ==
    /\ UNCHANGED <<ahead, Standing, numbers>>
    /\ UNCHANGED <<i, res, at>>
    /\ \A d \in Clients : get'[d] \in {"compare", "reload"} => get'[d] = get[d]
    /\ \A d \in Clients :
          /\ serve'[d] \in Testing => serve'[d] = serve[d]
          /\ Served(d)' => Served(d)

\* Every step is one of those treated one by one below, or stands by.
LEMMA Kinds ==
  ASSUME NEW c \in Clients, Step(c), TypeOK, Phases
  PROVE  \/ CallServe(c) \/ GetFirst(c) \/ GetCompare(c) \/ GetReload(c) \/ GetNumber(c)
         \/ Tests(c) \/ Clear(c)
         \/ Bystands
<1> USE DEF TypeOK, Phases, Standing, Stored, Bystands, Served, Testing
<1>1. CASE CallGet(c)
  BY <1>1 DEF CallGet, Client, server, getvars, servevars
<1>2. CASE Timeout(c)
  BY <1>2 DEF Timeout, Client, server, getvars, servevars
<1>3. CASE Kill(c)
  BY <1>3 DEF Kill, server, getvars, servevars
<1>4. CASE GetPid(c)
  BY <1>4 DEF GetPid, server, getvars, servevars
<1>5. CASE GetReply(c)
  BY <1>5 DEF GetReply, Client, server, getvars, servevars
<1>6. CASE Inside(c)
  BY <1>6 DEF Inside, Test, server, getvars, servevars
<1>7. CASE ClearPid(c)
  BY <1>7 DEF ClearPid, Test, server, getvars, servevars
<1>8. CASE ServeReply(c)
  BY <1>8 DEF ServeReply, Test, Client, server, getvars, servevars
<1>9. QED
  BY <1>1, <1>2, <1>3, <1>4, <1>5, <1>6, <1>7, <1>8, Steps

\* Nobody's number comes or goes, and nobody is put ahead or forgotten, while a
\* thread tests, compares or starts to serve.
LEMMA Unmoved ==
  ASSUME NEW c \in Clients, TypeOK, Phases,
         CallServe(c) \/ GetCompare(c) \/ GetReload(c) \/ Tests(c)
  PROVE  UNCHANGED <<ahead, Standing, numbers>>
<1> USE DEF TypeOK, Phases, Standing, Stored
<1>1. CASE CallServe(c)
  BY <1>1 DEF CallServe, Client, server, getvars
<1>2. CASE GetCompare(c)
  BY <1>2 DEF GetCompare, server, servevars
<1>3. CASE GetReload(c)
  BY <1>3 DEF GetReload, server, servevars
<1>4. CASE Tests(c)
  BY <1>4, TestsMove DEF Testing
<1>5. QED
  BY <1>1, <1>2, <1>3, <1>4

\* What GetFirst, GetNumber and Clear do to those who stand.
LEMMA StandingMoves ==
  ASSUME NEW c \in Clients, TypeOK, Phases, InOrder
  PROVE  /\ Standing \subseteq Clients /\ \A d \in Clients : SlotOf[d] \in Slots
         /\ GetFirst(c) => Standing' = Standing /\ c \notin Standing
         /\ GetNumber(c) => Standing' = Standing \cup {c} /\ c \notin Standing
         /\ Clear(c) => Standing' = Standing \ {c} /\ serve'[c] = "clearpid"
<1> USE DEF TypeOK, Standing, Stored
<1>1. GetFirst(c) => Standing' = Standing /\ c \notin Standing
  BY DEF GetFirst, server, servevars
<1>2. GetNumber(c) => Standing' = Standing \cup {c} /\ c \notin Standing
  BY DEF GetNumber, servevars, InOrder
<1>3. Clear(c) => Standing' = Standing \ {c} /\ serve'[c] = "clearpid"
  BY DEF Clear, Test, getvars
<1>4. Standing \subseteq Clients /\ \A d \in Clients : SlotOf[d] \in Slots
  BY ClientsAssumption
<1>5. QED
  BY <1>1, <1>2, <1>3, <1>4

\* Without calls given up, a step keeps the order of the calls.
LEMMA NextInOrder ==
  ASSUME "timeout" \notin Faults, OneClientPerSlot, TypeOK, Phases, InOrder, [Next]_vars
  PROVE  InOrder'
<1> USE ClientsAssumption DEF OneClientPerSlot, TypeOK, Phases, InOrder, Standing, Stored
<1>1. CASE UNCHANGED vars
  BY <1>1 DEF vars, server, getvars, servevars
<1>2. ASSUME NEW c \in Clients, Step(c)
      PROVE  InOrder'
  <2>1. CASE CallGet(c)
    BY <2>1 DEF CallGet, Client, server, getvars, servevars
  <2>2. CASE CallServe(c)
    BY <2>2 DEF CallServe, Client, server, getvars, servevars
  <2>3. CASE Timeout(c)
    BY <2>3 DEF Timeout, Client, server, getvars, servevars
  <2>4. CASE Kill(c)
    BY <2>4 DEF Kill, server, getvars, servevars
  <2>5. CASE GetFirst(c)
    BY <2>5 DEF GetFirst, server, getvars, servevars
  <2>6. CASE GetCompare(c)
    BY <2>6 DEF GetCompare, server, getvars, servevars
  <2>7. CASE GetReload(c)
    BY <2>7 DEF GetReload, server, getvars, servevars
  <2>8. CASE GetNumber(c)
    BY <2>8 DEF GetNumber, server, getvars, servevars
  <2>9. CASE GetPid(c)
    BY <2>9 DEF GetPid, server, getvars, servevars
  <2>10. CASE GetReply(c)
    BY <2>10 DEF GetReply, Client, server, getvars, servevars
  <2>11. CASE Tests(c)
    <3>1. /\ UNCHANGED <<numbers, client, get>>
          /\ Standing' = Standing
      BY <2>11, TestsMove, Unmoved
    <3>2. \A d \in Clients : serve'[d] # "none" => serve[d] # "none"
      BY <2>11, TestsMove DEF Testing
    <3>3. QED
      BY <3>1, <3>2
  <2>12. CASE Inside(c)
    BY <2>12 DEF Inside, Test, server, getvars, servevars
  <2>13. CASE Clear(c)
    BY <2>13 DEF Clear, Test, Forget, server, getvars, servevars
  <2>14. CASE ClearPid(c)
    BY <2>14 DEF ClearPid, Test, server, getvars, servevars
  <2>15. CASE ServeReply(c)
    BY <2>15 DEF ServeReply, Test, Client, server, getvars, servevars
  <2>16. QED
    BY <1>2, <2>1, <2>2, <2>3, <2>4, <2>5, <2>6, <2>7, <2>8, <2>9, <2>10, <2>11, <2>12, <2>13, <2>14, <2>15, Steps
<1>3. QED
  BY <1>1, <1>2 DEF Next

\* A step keeps the numbers of those ahead stored.
LEMMA NextAheadStored ==
  ASSUME TypeOK, Phases, AheadStored, [Next]_vars
  PROVE  AheadStored'
<1> USE ClientsAssumption DEF TypeOK, Phases, AheadStored, Stored
<1>1. CASE UNCHANGED vars
  BY <1>1 DEF vars, server, getvars, servevars
<1>2. ASSUME NEW c \in Clients, Step(c)
      PROVE  AheadStored'
  <2>1. CASE CallGet(c)
    BY <2>1 DEF CallGet, Client, server, getvars, servevars
  <2>2. CASE CallServe(c)
    BY <2>2 DEF CallServe, Client, server, getvars, servevars
  <2>3. CASE Timeout(c)
    BY <2>3 DEF Timeout, Client, server, getvars, servevars
  <2>4. CASE Kill(c)
    BY <2>4 DEF Kill, server, getvars, servevars
  <2>5. CASE GetFirst(c)
    <3>1. ahead' = [ahead EXCEPT ![c] = Standing] /\ get' = [get EXCEPT ![c] = "compare"]
      BY <2>5 DEF GetFirst
    <3>2. \A d \in ahead'[c] : d \in Clients \ {c} /\ get[d] \in {"pid", "reply", "done"}
      BY <2>5, <3>1 DEF GetFirst, Standing
    <3>3. get[c] = "first"
      BY <2>5 DEF GetFirst
    <3>4. QED
      BY <3>1, <3>2, <3>3
  <2>6. CASE GetCompare(c)
    BY <2>6 DEF GetCompare, server, getvars, servevars
  <2>7. CASE GetReload(c)
    BY <2>7 DEF GetReload, server, getvars, servevars
  <2>8. CASE GetNumber(c)
    BY <2>8 DEF GetNumber, server, getvars, servevars
  <2>9. CASE GetPid(c)
    BY <2>9 DEF GetPid, server, getvars, servevars
  <2>10. CASE GetReply(c)
    BY <2>10 DEF GetReply, Client, server, getvars, servevars
  <2>11. CASE Tests(c)
    BY <2>11, TestsMove
  <2>12. CASE Inside(c)
    BY <2>12 DEF Inside, Test, server, getvars, servevars
  <2>13. CASE Clear(c)
    <3>1. get' = get /\ \A e \in Clients : ahead'[e] = {} \/ ahead'[e] = ahead[e]
      BY <2>13 DEF Clear, Forget, getvars
    <3>2. QED
      BY <3>1
  <2>14. CASE ClearPid(c)
    BY <2>14 DEF ClearPid, Test, server, getvars, servevars
  <2>15. CASE ServeReply(c)
    BY <2>15 DEF ServeReply, Test, Client, server, getvars, servevars
  <2>16. QED
    BY <1>2, <2>1, <2>2, <2>3, <2>4, <2>5, <2>6, <2>7, <2>8, <2>9, <2>10, <2>11, <2>12, <2>13, <2>14, <2>15, Steps
<1>3. QED
  BY <1>1, <1>2 DEF Next

\* A step keeps what a client knows while it takes the maximum.
LEMMA NextScanned ==
  ASSUME "timeout" \notin Faults, OneClientPerSlot, TypeOK, Phases, InOrder, AheadStored, Scanned, [Next]_vars
  PROVE  Scanned'
<1> USE ClientsAssumption
<1>1. CASE UNCHANGED vars
  BY <1>1 DEF vars, server, getvars, servevars, Standing, Stored, Scanned
<1>2. ASSUME NEW c \in Clients, Step(c)
      PROVE  Scanned'
  <2>1. SlotOf[c] \in Slots
    OBVIOUS
  <2>2. CASE Bystands
    BY <2>2 DEF Scanned, Bystands
  <2>3. CASE CallServe(c)
    BY <2>3, Unmoved DEF CallServe, Scanned, getvars
  <2>4. CASE Tests(c)
    BY <2>4, Unmoved, TestsMove DEF Scanned
  <2>5. CASE GetFirst(c)
    <3>1. /\ Standing' = Standing /\ numbers' = numbers
          /\ ahead' = [ahead EXCEPT ![c] = Standing]
          /\ get' = [get EXCEPT ![c] = "compare"]
          /\ i' = [i EXCEPT ![c] = 0]
          /\ res' = [res EXCEPT ![c] = numbers[0]]
      BY <2>5, StandingMoves DEF GetFirst, server
    <3>2. \A d \in ahead'[c] : d \in Standing' /\ ~(SlotOf[d] < i'[c])
      <4>1. ahead'[c] = Standing /\ i'[c] = 0
        BY <3>1 DEF TypeOK
      <4>2. \A d \in Standing : SlotOf[d] \in 0 .. COUNT_CLIENTS - 1
        BY StandingMoves DEF Slots
      <4>3. \A d \in Standing : ~(SlotOf[d] < 0)
        BY <4>2
      <4>4. QED
        BY <3>1, <4>1, <4>3
    <3>3. get'[c] = "compare"
      BY <3>1 DEF TypeOK
    <3>4. \A e \in Clients \ {c} :
              ahead'[e] = ahead[e] /\ get'[e] = get[e] /\ i'[e] = i[e] /\ res'[e] = res[e]
      BY <3>1 DEF TypeOK
    <3>5. QED
      BY <3>1, <3>2, <3>3, <3>4 DEF Scanned
  <2>6. CASE GetCompare(c)
    <3>1. UNCHANGED <<ahead, Standing, numbers>> /\ res' = res
      BY <2>6, Unmoved DEF GetCompare
    <3>2. i[c] \in Slots /\ numbers[i[c]] \in Nat /\ res[c] \in Nat
      BY <2>6 DEF GetCompare, TypeOK, Slots
    <3>3. CASE numbers[i[c]] > res[c] /\ get' = [get EXCEPT ![c] = "reload"] /\ i' = i
      <4>1. get[c] = "compare"
        BY <2>6 DEF GetCompare
      <4>2. QED
        BY <3>1, <3>3, <4>1 DEF Scanned, TypeOK
    <3>4. CASE ~(numbers[i[c]] > res[c]) /\ get' = get /\ i' = [i EXCEPT ![c] = i[c] + 1]
      <4>1. get[c] = "compare" /\ i'[c] = i[c] + 1 /\ \A e \in Clients \ {c} : i'[e] = i[e]
        BY <2>6, <3>4 DEF GetCompare, TypeOK
      <4>2. \A d \in ahead[c] : SlotOf[d] \in Slots /\ (SlotOf[d] < i'[c] => SlotOf[d] < i[c] \/ SlotOf[d] = i[c])
        BY <3>2, <4>1, StandingMoves DEF TypeOK, Slots
      <4>3. ASSUME NEW d \in ahead[c], SlotOf[d] < i'[c]
            PROVE  res[c] >= numbers[SlotOf[d]]
        <5>1. CASE SlotOf[d] < i[c]
          BY <4>1, <5>1 DEF Scanned
        <5>2. CASE SlotOf[d] = i[c]
          BY <3>2, <3>4, <5>2
        <5>3. QED
          BY <4>2, <4>3, <5>1, <5>2
      <4>4. QED
        BY <3>1, <3>4, <4>1, <4>3 DEF Scanned
    <3>5. QED
      BY <2>6, <3>3, <3>4 DEF GetCompare
  <2>7. CASE GetReload(c)
    <3>1. UNCHANGED <<ahead, Standing, numbers>>
      BY <2>7, Unmoved
    <3>2. /\ get[c] = "reload" /\ get'[c] = "compare"
          /\ i'[c] = i[c] + 1 /\ res'[c] = numbers[i[c]]
          /\ \A e \in Clients \ {c} : get'[e] = get[e] /\ i'[e] = i[e] /\ res'[e] = res[e]
      BY <2>7 DEF GetReload, TypeOK
    <3>3. i[c] \in Slots /\ numbers[i[c]] \in Nat /\ res[c] \in Nat
      BY <3>2 DEF TypeOK, Phases, Slots
    <3>4. \A d \in ahead[c] : SlotOf[d] \in Slots
      BY StandingMoves DEF TypeOK
    <3>5. ASSUME NEW d \in ahead[c], SlotOf[d] < i'[c]
          PROVE  res'[c] >= numbers[SlotOf[d]]
      <4>1. numbers[SlotOf[d]] \in Nat
        BY <3>4 DEF TypeOK
      <4>2. SlotOf[d] < i[c] \/ SlotOf[d] = i[c]
        BY <3>2, <3>3, <3>4, <3>5 DEF Slots
      <4>3. numbers[i[c]] > res[c] /\ (SlotOf[d] < i[c] => res[c] >= numbers[SlotOf[d]])
        BY <3>2 DEF Scanned
      <4>4. QED
        BY <3>2, <3>3, <4>1, <4>2, <4>3
    <3>6. QED
      BY <3>1, <3>2, <3>5 DEF Scanned
  <2>8. CASE GetNumber(c)
    <3>1. /\ ahead' = ahead /\ i' = i /\ res' = res
          /\ Standing' = Standing \cup {c} /\ c \notin Standing
          /\ get'[c] = "pid" /\ \A e \in Clients \ {c} : get'[e] = get[e]
      BY <2>8, StandingMoves DEF GetNumber, TypeOK
    <3>2. /\ numbers[SlotOf[c]] = 0
          /\ \A s \in Slots \ {SlotOf[c]} : numbers'[s] = numbers[s]
      BY <2>8, <2>1, <3>1 DEF GetNumber, InOrder, TypeOK
    <3>3. \A e \in Clients : \A d \in ahead[e] :
              get[e] \in {"compare", "reload"} => d # c /\ d \in Clients /\ SlotOf[d] \in Slots \ {SlotOf[c]}
      BY <3>1, StandingMoves DEF Scanned, OneClientPerSlot, TypeOK
    <3>4. \A e \in Clients : get[e] = "reload" => i[e] \in Slots /\ res[e] \in Nat
      BY DEF Phases, TypeOK, Slots
    <3>5. ASSUME NEW e \in Clients, NEW d \in ahead[e], get[e] = "reload"
          PROVE  numbers'[i[e]] > res[e]
      <4>1. numbers[i[e]] > res[e]
        BY <3>5 DEF Scanned
      <4>2. i[e] # SlotOf[c]
        BY <3>2, <3>4, <3>5, <4>1
      <4> QED
        BY <3>2, <3>4, <3>5, <4>1, <4>2
    <3>6. QED
      BY <3>1, <3>2, <3>3, <3>5 DEF Scanned
  <2>9. CASE Clear(c)
    BY <2>9, StandingMoves DEF Clear, Forget, Test, getvars, TypeOK, Scanned, AheadStored
  <2>10. QED
    BY <1>2, <2>2, <2>3, <2>4, <2>5, <2>6, <2>7, <2>8, <2>9, Kinds
<1>3. QED
  BY <1>1, <1>2 DEF Next

\* A step keeps a client's number greater than those ahead of it.
LEMMA NextGreater ==
  ASSUME "timeout" \notin Faults, OneClientPerSlot, TypeOK, Phases, InOrder, AheadStored, Scanned, Greater, [Next]_vars
  PROVE  Greater'
<1> USE ClientsAssumption
<1>1. CASE UNCHANGED vars
  BY <1>1 DEF vars, server, getvars, servevars, Standing, Stored, Greater
<1>2. ASSUME NEW c \in Clients, Step(c)
      PROVE  Greater'
  <2>1. SlotOf[c] \in Slots
    OBVIOUS
  <2>2. CASE Bystands
    BY <2>2 DEF Greater, Bystands
  <2>3. CASE CallServe(c) \/ GetCompare(c) \/ GetReload(c) \/ Tests(c)
    BY <2>3, Unmoved DEF Greater
  <2>4. CASE GetFirst(c)
    BY <2>4, StandingMoves DEF GetFirst, TypeOK, Greater, server
  <2>5. CASE GetNumber(c)
    <3>1. /\ ahead' = ahead
          /\ Standing' = Standing \cup {c} /\ c \notin Standing
          /\ get[c] = "compare" /\ i[c] = COUNT_CLIENTS
      BY <2>5, StandingMoves DEF GetNumber
    <3>2. /\ numbers'[SlotOf[c]] = res[c] + 1 /\ res[c] \in Nat
          /\ \A s \in Slots \ {SlotOf[c]} : numbers'[s] = numbers[s] /\ numbers[s] \in Nat
      BY <2>5, <2>1 DEF GetNumber, TypeOK
    <3>3. \A d \in Clients \ {c} : SlotOf[d] \in Slots \ {SlotOf[c]} /\ SlotOf[d] < COUNT_CLIENTS
      BY StandingMoves DEF OneClientPerSlot, Slots
    <3>4. \A d \in ahead[c] : d \in Clients \ {c} /\ numbers'[SlotOf[c]] > numbers'[SlotOf[d]]
      BY <3>1, <3>2, <3>3, StandingMoves DEF Scanned, TypeOK
    <3>5. ASSUME NEW e \in Clients \ {c}, NEW d \in ahead[e], e \in Standing, d \in Standing'
          PROVE  numbers'[SlotOf[e]] > numbers'[SlotOf[d]]
      <4>1. d \in Clients \ {c} /\ d \in Standing
        BY <3>1, <3>5 DEF AheadStored, Stored, TypeOK
      <4>2. numbers[SlotOf[e]] > numbers[SlotOf[d]]
        BY <3>5, <4>1 DEF Greater
      <4>3. QED
        BY <3>2, <3>3, <4>1, <4>2
    <3>6. QED
      BY <3>1, <3>4, <3>5 DEF Greater
  <2>6. CASE Clear(c)
    <3>1. /\ Standing' = Standing \ {c}
          /\ \A e \in Clients : ahead'[e] = {} \/ ahead'[e] = ahead[e]
      BY <2>6, StandingMoves DEF Clear, Forget
    <3>2. \A s \in Slots \ {SlotOf[c]} : numbers'[s] = numbers[s]
      BY <2>6, <2>1 DEF Clear, TypeOK
    <3>3. \A d \in Standing' : SlotOf[d] \in Slots \ {SlotOf[c]}
      BY <3>1, StandingMoves DEF OneClientPerSlot
    <3>4. QED
      BY <3>1, <3>2, <3>3 DEF Greater
  <2>7. QED
    BY <1>2, <2>2, <2>3, <2>4, <2>5, <2>6, Kinds
<1>3. QED
  BY <1>1, <1>2 DEF Next

\* A step keeps the loop of serve behind those ahead of the client.
LEMMA NextPassed ==
  ASSUME "timeout" \notin Faults, OneClientPerSlot, TypeOK, Phases, InOrder, AheadStored, Greater, Passed, [Next]_vars
  PROVE  Passed'
<1> USE ClientsAssumption
<1>1. CASE UNCHANGED vars
  BY <1>1 DEF vars, server, getvars, servevars, Standing, Stored, Passed, Served, Testing
<1>2. ASSUME NEW c \in Clients, Step(c)
      PROVE  Passed'
  <2>1. SlotOf[c] \in Slots
    OBVIOUS
  <2>2. CASE Bystands
    BY <2>2 DEF Passed, Served, Testing, Bystands
  <2>3. CASE CallServe(c)
    <3>1. UNCHANGED <<ahead, Standing, numbers, at>>
      BY <2>3, Unmoved DEF CallServe
    <3>2. /\ serve'[c] = "nonzero" /\ at[c] = 0
          /\ \A e \in Clients \ {c} : serve'[e] = serve[e]
      BY <2>3 DEF CallServe, Client, TypeOK, Phases
    <3>3. \A d \in ahead[c] : ~(SlotOf[d] < at[c])
      BY <3>2, StandingMoves DEF TypeOK, Slots
    <3>4. QED
      BY <3>1, <3>2, <3>3 DEF Passed, Served
  <2>4. CASE GetCompare(c) \/ GetReload(c)
    BY <2>4, Unmoved DEF GetCompare, GetReload, servevars, Passed, Served
  <2>5. CASE GetFirst(c)
    BY <2>5, StandingMoves DEF GetFirst, TypeOK, InOrder, Passed, Served, Testing, servevars
  <2>6. CASE GetNumber(c)
    <3>1. /\ ahead' = ahead /\ serve' = serve /\ at' = at
          /\ Standing' = Standing \cup {c} /\ ~Stored(c)
      BY <2>6, StandingMoves DEF GetNumber, servevars, Stored
    <3>2. \A e \in Clients : c \notin ahead[e]
      BY <3>1 DEF AheadStored
    <3>3. QED
      BY <3>1, <3>2 DEF Passed, Served
  <2>7. CASE Clear(c)
    <3>1. /\ Standing' = Standing \ {c} /\ at' = at
          /\ serve'[c] = "clearpid" /\ \A e \in Clients \ {c} : serve'[e] = serve[e]
          /\ \A e \in Clients : ahead'[e] = {} \/ ahead'[e] = ahead[e]
      BY <2>7, StandingMoves DEF Clear, Forget, Test, TypeOK
    <3>2. QED
      BY <3>1 DEF Passed, Served, Testing
  <2>8. CASE Tests(c)
    <3>1. UNCHANGED <<ahead, Standing, numbers>>
      BY <2>8, Unmoved
    <3>2. /\ serve[c] \in Testing /\ at[c] \in Slots
          /\ \A e \in Clients \ {c} : serve'[e] = serve[e] /\ at'[e] = at[e]
      <4>1. /\ serve[c] \in Testing /\ at[c] < COUNT_CLIENTS
            /\ \A e \in Clients \ {c} : serve'[e] = serve[e] /\ at'[e] = at[e]
        BY <2>8, TestsMove
      <4>2. at[c] \in 0 .. COUNT_CLIENTS
        BY DEF TypeOK
      <4>3. QED
        BY <4>1, <4>2 DEF Slots
    <3>3. c \in Standing /\ get[c] = "done"
      BY <3>2, InOrder DEF InOrder, Standing, Stored, Testing
    <3>4. \A d \in ahead[c] : d \in Clients /\ SlotOf[d] \in Slots
      BY StandingMoves DEF TypeOK
    <3>5. \A d \in ahead[c] : d \in Standing =>
              numbers[SlotOf[d]] # 0 /\ numbers[SlotOf[d]] < numbers[SlotOf[c]]
      BY <2>1, <3>3, <3>4 DEF Greater, InOrder, TypeOK
    <3>6. /\ serve'[c] \in {"nonzero", "inside"} \/ at'[c] = at[c]
          /\ serve'[c] \in {"equal", "pid"} =>
                \A d \in ahead[c] : SlotOf[d] = at[c] => d \notin Standing
      <4>1. CASE TestNonzero(c)
        BY <4>1, <2>8, TestsMove DEF TestNonzero, NextSlot, Test, TypeOK
      <4>2. CASE TestLess(c)
        BY <4>2, <3>5 DEF TestLess, Again, Test, TypeOK
      <4>3. CASE TestEqual(c)
        BY <4>3, <2>8, TestsMove DEF TestEqual, Test, NextSlot, Passed, TypeOK
      <4>4. CASE TestPid(c)
        BY <4>4, <2>8, TestsMove DEF TestPid, Again, NextSlot, TypeOK
      <4>5. QED
        BY <2>8, <4>1, <4>2, <4>3, <4>4 DEF Tests
    <3>7. \/ at'[c] = at[c] /\ serve'[c] \in Testing
          \/ /\ at'[c] = at[c] + 1
             /\ \/ serve'[c] = "nonzero"
                \/ serve'[c] = "inside" /\ at'[c] = COUNT_CLIENTS
             /\ \A d \in ahead[c] : SlotOf[d] = at[c] => d \notin Standing
      <4>1. NextSlot(c) => /\ at'[c] = at[c] + 1
                           /\ serve'[c] = "nonzero" \/ serve'[c] = "inside"
                           /\ serve'[c] = "inside" => at'[c] = COUNT_CLIENTS
        BY DEF NextSlot, TypeOK
      <4>2. NextSlot(c) \/ (at' = at /\ serve'[c] \in Testing)
        BY <2>8 DEF Tests, TestNonzero, TestLess, TestEqual, TestPid, Again, Test, TypeOK, Testing
      <4>3. ASSUME NextSlot(c), at'[c] # at[c], NEW d \in ahead[c], SlotOf[d] = at[c]
            PROVE  d \notin Standing
        <5>1. \/ numbers[at[c]] = 0
              \/ serve[c] \in {"equal", "pid"}
          BY <2>8, <3>2, <4>3 DEF Tests, TestNonzero, TestLess, TestEqual, TestPid, Test, Again
        <5>2. QED
          BY <4>3, <5>1, <3>4, <3>5 DEF Passed
      <4>4. at[c] + 1 # at[c]
        BY <3>2 DEF Slots
      <4>5. QED
        BY <4>1, <4>2, <4>3, <4>4
    <3>8. \A d \in ahead[c] : SlotOf[d] < at[c] => d \notin Standing
      BY <3>2 DEF Passed
    <3>9. \A d \in ahead[c] : SlotOf[d] < at'[c] => d \notin Standing
      BY <3>2, <3>4, <3>7, <3>8 DEF Slots
    <3>10. at'[c] = COUNT_CLIENTS => \A d \in ahead[c] : d \notin Standing
      BY <3>4, <3>9 DEF Slots
    <3>11. \A d \in ahead'[c] :
              /\ serve'[c] \in Testing => (SlotOf[d] < at'[c] => d \notin Standing')
              /\ serve'[c] \in {"equal", "pid"} => (SlotOf[d] = at'[c] => d \notin Standing')
              /\ Served(c)' => d \notin Standing'
      BY <3>1, <3>6, <3>7, <3>9, <3>10 DEF Served, Testing
    <3>12. QED
      BY <3>1, <3>2, <3>11 DEF Passed, Served
  <2>9. QED
    BY <1>2, <2>2, <2>3, <2>4, <2>5, <2>6, <2>7, <2>8, Kinds
<1>3. QED
  BY <1>1, <1>2 DEF Next

\* A client is overtaken only by one that took the maximum while a number went
\* away (bakery_server.c 13-22, 48-57), for any number of clients, if each has a
\* slot of its own and no call is given up; clients may be killed.
THEOREM Overtaking ==
  ASSUME OneClientPerSlot, "timeout" \notin Faults
  PROVE  Spec => []OvertakenOnlyByRace
<1> DEFINE I == TypeOK /\ Phases /\ InOrder /\ AheadStored /\ Scanned /\ Greater /\ Passed
<1>1. Init => I
  BY InitTyped, ClientsAssumption
     DEF Init, InOrder, AheadStored, Scanned, Greater, Passed, Standing, Stored, Served, Testing, Slots
<1>2. I /\ [Next]_vars => I'
  BY NextTyped, NextPhases, NextInOrder, NextAheadStored, NextScanned, NextGreater, NextPassed
<1>3. I => OvertakenOnlyByRace
  BY DEF Passed, OvertakenOnlyByRace
<1>4. QED
  BY <1>1, <1>2, <1>3, PTL DEF Spec
=============================================================================
