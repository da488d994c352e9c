------------------------------- MODULE Bakery -------------------------------
(***************************************************************************)
(* os_lab_rpc/bakery: Lamport's bakery served over RPC.  Each client       *)
(* process makes two calls, get_number and serve; the server runs each     *)
(* call in a thread of its own.  mut[ind] excludes only the threads of one *)
(* slot from each other, and no array `choosing' keeps a client out while  *)
(* another takes its number.                                               *)
(*                                                                         *)
(* The makefile builds without optimisation: each access to numbers and    *)
(* pids in the source is a load or a store of its own, and a step here,    *)
(* with the locking before and the unlocking after it.  Left out: what is  *)
(* computed and printed between the loop and the clearing (a step without  *)
(* effect), and how the dispatcher hands a request to its thread.          *)
(***************************************************************************)
EXTENDS Integers

CONSTANTS
    COUNT_CLIENTS,  \* slots of the server's arrays
    Clients,        \* client processes, by their pid
    SlotOf,         \* the index main gives to each of them
    Faults,         \* what may go wrong
    Faulty          \* with which of the clients

Slots == 0 .. COUNT_CLIENTS - 1

ASSUME ClientsAssumption ==
    /\ COUNT_CLIENTS \in Nat
    /\ Clients \subseteq Nat \ {0}
    /\ SlotOf \in [Clients -> Slots]
    /\ Faults \subseteq {"kill", "timeout"}
    /\ Faulty \subseteq Clients

VARIABLES
    numbers, pids,  \* the server's arrays, 0 where there is no client
    client,         \* where each client process is
    get,            \* where its thread in get_number_1_svc is
    i, res,         \* the variables of max_number in that thread
    serve,          \* where its thread in serve_1_svc is
    at,             \* the loop's variable i in that thread
    ahead           \* clients c has to wait for (history, see GetFirst)

server == <<numbers, pids>>
getvars == <<get, i, res>>
servevars == <<serve, at>>
vars == <<server, client, getvars, servevars, ahead>>

Init ==
    /\ numbers = [s \in Slots |-> 0]
    /\ pids = [s \in Slots |-> 0]
    /\ client = [c \in Clients |-> "fork"]
    /\ get = [c \in Clients |-> "none"]
    /\ i = [c \in Clients |-> 0]
    /\ res = [c \in Clients |-> 0]
    /\ serve = [c \in Clients |-> "none"]
    /\ at = [c \in Clients |-> 0]
    /\ ahead = [c \in Clients |-> {}]

(***************************************************************************)
(* pthread_mutex_lock(&mut[ind]): no other thread of the slot is between   *)
(* its locking and its unlocking.                                          *)
(***************************************************************************)
Locked(c) ==
    \/ get[c] \in {"compare", "reload", "pid"}
    \/ serve[c] \in {"less", "equal", "pid", "clearpid"}
Free(s) == \A c \in Clients : SlotOf[c] = s => ~Locked(c)

(***************************************************************************)
(* The client process: bakery_prog_1 of bakery_client.c.                   *)
(***************************************************************************)
Client(c, from, to) == client[c] = from /\ client' = [client EXCEPT ![c] = to]

\* The program is run again with the same indices only when its clients have
\* ended.
CallGet(c) ==
    /\ \A d \in Clients \ {c} : SlotOf[d] = SlotOf[c] => client[d] \in {"fork", "gone"}
    /\ Client(c, "fork", "get")
    /\ get' = [get EXCEPT ![c] = "first"]
    /\ UNCHANGED <<server, i, res, servevars, ahead>>

CallServe(c) ==
    /\ Client(c, "pause", "serve")
    /\ serve' = [serve EXCEPT ![c] = "nonzero"]
    /\ UNCHANGED <<server, getvars, at, ahead>>

\* A call is given up, which the client prints; it goes on all the same.
Timeout(c) ==
    /\ "timeout" \in Faults /\ c \in Faulty
    /\ Client(c, "get", "pause") \/ Client(c, "serve", "gone")
    /\ UNCHANGED <<server, getvars, servevars, ahead>>

\* The process is killed; its threads in the server are not.
Kill(c) ==
    /\ "kill" \in Faults /\ c \in Faulty
    /\ client[c] \in {"get", "pause", "serve"}
    /\ client' = [client EXCEPT ![c] = "gone"]
    /\ UNCHANGED <<server, getvars, servevars, ahead>>

(***************************************************************************)
(* The thread in get_number_1_svc.                                         *)
(***************************************************************************)
Stored(c) == get[c] \in {"pid", "reply", "done"}
\* Those whose number is in their slot.
Standing == {c \in Clients : Stored(c) /\ serve[c] \notin {"clearpid", "reply", "done"}}

\* res = numbers[0]
GetFirst(c) ==
    /\ get[c] = "first" /\ Free(SlotOf[c])
    /\ res' = [res EXCEPT ![c] = numbers[0]]
    /\ i' = [i EXCEPT ![c] = 0]
    /\ get' = [get EXCEPT ![c] = "compare"]
    /\ ahead' = [ahead EXCEPT ![c] = Standing]
    /\ UNCHANGED <<server, client, servevars>>

\* if (numbers[i] > res)
GetCompare(c) ==
    /\ get[c] = "compare" /\ i[c] < COUNT_CLIENTS
    /\ IF numbers[i[c]] > res[c]
         THEN get' = [get EXCEPT ![c] = "reload"] /\ i' = i
         ELSE get' = get /\ i' = [i EXCEPT ![c] = @ + 1]
    /\ UNCHANGED <<server, client, res, servevars, ahead>>

\* Mutant: the larger number is found and not taken.
GetReloadKeeping(c) ==
    /\ get[c] = "reload"
    /\ i' = [i EXCEPT ![c] = @ + 1]
    /\ get' = [get EXCEPT ![c] = "compare"]
    /\ UNCHANGED <<server, client, res, servevars, ahead>>
\* res = numbers[i], which is read again
GetReload(c) ==
    /\ get[c] = "reload"
    /\ res' = [res EXCEPT ![c] = numbers[i[c]]]
    /\ i' = [i EXCEPT ![c] = @ + 1]
    /\ get' = [get EXCEPT ![c] = "compare"]
    /\ UNCHANGED <<server, client, servevars, ahead>>

\* numbers[argp->ind] = result->num
GetNumber(c) ==
    /\ get[c] = "compare" /\ i[c] = COUNT_CLIENTS
    /\ numbers' = [numbers EXCEPT ![SlotOf[c]] = res[c] + 1]
    /\ get' = [get EXCEPT ![c] = "pid"]
    /\ UNCHANGED <<pids, client, i, res, servevars, ahead>>

\* pids[argp->ind] = argp->pid
GetPid(c) ==
    /\ get[c] = "pid"
    /\ pids' = [pids EXCEPT ![SlotOf[c]] = c]
    /\ get' = [get EXCEPT ![c] = "reply"]
    /\ UNCHANGED <<numbers, client, i, res, servevars, ahead>>

GetReply(c) ==
    /\ get[c] = "reply"
    /\ get' = [get EXCEPT ![c] = "done"]
    /\ IF client[c] = "get" THEN Client(c, "get", "pause") ELSE UNCHANGED client
    /\ UNCHANGED <<server, i, res, servevars, ahead>>

(***************************************************************************)
(* The thread in serve_1_svc.                                              *)
(***************************************************************************)
\* out = 1: the same slot is tested again; out = 0: the next one is.
Again(c) == serve' = [serve EXCEPT ![c] = "nonzero"] /\ UNCHANGED at
NextSlot(c) ==
    /\ at' = [at EXCEPT ![c] = @ + 1]
    /\ IF at[c] + 1 = COUNT_CLIENTS
         THEN serve' = [serve EXCEPT ![c] = "inside"]
         ELSE serve' = [serve EXCEPT ![c] = "nonzero"]
Test(c, to) == serve' = [serve EXCEPT ![c] = to] /\ UNCHANGED at

\* numbers[i] != 0
TestNonzero(c) ==
    /\ serve[c] = "nonzero" /\ Free(SlotOf[c])
    /\ IF numbers[at[c]] # 0 THEN Test(c, "less") ELSE NextSlot(c)
    /\ UNCHANGED <<server, client, getvars, ahead>>

\* numbers[i] < numbers[argp->ind]
TestLess(c) ==
    /\ serve[c] = "less"
    /\ IF numbers[at[c]] < numbers[SlotOf[c]] THEN Again(c) ELSE Test(c, "equal")
    /\ UNCHANGED <<server, client, getvars, ahead>>

\* numbers[i] == numbers[argp->ind]
TestEqual(c) ==
    /\ serve[c] = "equal"
    /\ IF numbers[at[c]] = numbers[SlotOf[c]] THEN Test(c, "pid") ELSE NextSlot(c)
    /\ UNCHANGED <<server, client, getvars, ahead>>

\* Mutant: a client waits for itself.
TestPidOrEqual(c) ==
    /\ serve[c] = "pid"
    /\ IF pids[at[c]] <= pids[SlotOf[c]] THEN Again(c) ELSE NextSlot(c)
    /\ UNCHANGED <<server, client, getvars, ahead>>
\* pids[i] < pids[argp->ind]
TestPid(c) ==
    /\ serve[c] = "pid"
    /\ IF pids[at[c]] < pids[SlotOf[c]] THEN Again(c) ELSE NextSlot(c)
    /\ UNCHANGED <<server, client, getvars, ahead>>

Inside(c) == serve[c] = "inside" /\ Test(c, "clear") /\ UNCHANGED <<server, client, getvars, ahead>>

\* Those that are taking the maximum while a number goes away need not wait
\* for those they found: res may be the number that went.
Forget == ahead' = [c \in Clients |-> IF get[c] \in {"compare", "reload"} THEN {} ELSE ahead[c]]

\* Mutant: the slot is cleared without its mutex.
ClearUnlocked(c) ==
    /\ serve[c] = "clear"
    /\ numbers' = [numbers EXCEPT ![SlotOf[c]] = 0]
    /\ Test(c, "clearpid")
    /\ Forget
    /\ UNCHANGED <<pids, client, getvars>>
\* Mutant: the slot is marked free with a number that no test knows.
ClearToMinusOne(c) ==
    /\ serve[c] = "clear" /\ Free(SlotOf[c])
    /\ numbers' = [numbers EXCEPT ![SlotOf[c]] = -1]
    /\ Test(c, "clearpid")
    /\ Forget
    /\ UNCHANGED <<pids, client, getvars>>
\* numbers[argp->ind] = 0
Clear(c) ==
    /\ serve[c] = "clear" /\ Free(SlotOf[c])
    /\ numbers' = [numbers EXCEPT ![SlotOf[c]] = 0]
    /\ Test(c, "clearpid")
    /\ Forget
    /\ UNCHANGED <<pids, client, getvars>>

\* pids[argp->ind] = 0
ClearPid(c) ==
    /\ serve[c] = "clearpid"
    /\ pids' = [pids EXCEPT ![SlotOf[c]] = 0]
    /\ Test(c, "reply")
    /\ UNCHANGED <<numbers, client, getvars, ahead>>

ServeReply(c) ==
    /\ serve[c] = "reply"
    /\ Test(c, "done")
    /\ IF client[c] = "serve" THEN Client(c, "serve", "gone") ELSE UNCHANGED client
    /\ UNCHANGED <<server, getvars, ahead>>

(***************************************************************************)
(* The system.                                                             *)
(***************************************************************************)
GetStep(c) ==
    GetFirst(c) \/ GetCompare(c) \/ GetReload(c) \/ GetNumber(c) \/ GetPid(c) \/ GetReply(c)
ServeStep(c) ==
    \/ TestNonzero(c) \/ TestLess(c) \/ TestEqual(c) \/ TestPid(c)
    \/ Inside(c) \/ Clear(c) \/ ClearPid(c) \/ ServeReply(c)
Step(c) == CallGet(c) \/ CallServe(c) \/ Timeout(c) \/ Kill(c) \/ GetStep(c) \/ ServeStep(c)

Next == \E c \in Clients : Step(c)

Spec == Init /\ [][Next]_vars

(***************************************************************************)
(* The clients make their calls and the server's threads run; that a       *)
(* client is killed or gives up is never owed.                             *)
(***************************************************************************)
FairSpec ==
    /\ Spec
    /\ \A c \in Clients :
          /\ WF_vars(CallGet(c) \/ CallServe(c))
          /\ WF_vars(GetStep(c))
          /\ WF_vars(ServeStep(c))

(***************************************************************************)
(* Properties.                                                             *)
(***************************************************************************)
GetPlaces == {"none", "first", "compare", "reload", "pid", "reply", "done"}
ServePlaces == {"none", "nonzero", "less", "equal", "pid", "inside", "clear", "clearpid",
                "reply", "done"}

TypeOK ==
    /\ numbers \in [Slots -> Nat]
    /\ pids \in [Slots -> Clients \cup {0}]
    /\ client \in [Clients -> {"fork", "get", "pause", "serve", "gone"}]
    /\ get \in [Clients -> GetPlaces]
    /\ i \in [Clients -> 0 .. COUNT_CLIENTS]
    /\ res \in [Clients -> Nat]
    /\ serve \in [Clients -> ServePlaces]
    /\ at \in [Clients -> 0 .. COUNT_CLIENTS]
    /\ ahead \in [Clients -> SUBSET Clients]

\* Past the loop and with its number still in its slot.
Served(c) == serve[c] \in {"inside", "clear"}

\* A client is not served before one whose number was in its slot when it
\* began to take the maximum (bakery_server.c 30, 48-57), unless a number went
\* away while it took it: a client that was killed between its calls is thus
\* waited for for ever.  No slot is used twice and no call is given up.
OvertakenOnlyByRace ==
    \A c \in Clients : Served(c) => \A d \in ahead[c] : d \notin Standing

\* Whoever finds mut[ind] free finds number and pid of the slot both there or
\* both zero (bakery_server.c 28-39, 96-99), late threads of a client that gave
\* up and those of the next client of the slot included.
PairsWhole == \A s \in Slots : Free(s) => (numbers[s] = 0 <=> pids[s] = 0)

\* The comment at bakery_server.c 47, in English: "we wait if there are numbers
\* in the array smaller than argp->num", which is numbers[argp->ind].
WaitsForSmallerNumbers ==
    \A c \in Clients : serve[c] = "inside" =>
        \A s \in Slots : numbers[s] = 0 \/ numbers[s] >= numbers[SlotOf[c]]

\* A number of clients that have ended, with no thread left to clear it.
LeftBehind(s) ==
    /\ numbers[s] # 0
    /\ \A c \in Clients : SlotOf[c] = s => client[c] = "gone" /\ serve[c] \in {"none", "done"}

\* Every client is served in the end, or ends otherwise; it waits for ever only
\* when a number is left behind, by a client killed between its calls or by a
\* late thread of one that gave up (bakery_server.c 30, 51-57, bakery_client.c 42),
\* and the slot's next client clears even that.
EverybodyServed ==
    \A c \in Clients : client[c] = "get" ~> client[c] = "gone" \/ \E s \in Slots : LeftBehind(s)

(***************************************************************************)
(* The inductive invariants of the proofs.  First, how a client and its    *)
(* threads follow each other, and the ranges of the loops.                 *)
(***************************************************************************)
Testing == {"nonzero", "less", "equal", "pid"}

Phases ==
    \A c \in Clients :
        /\ client[c] \in {"fork", "get", "pause"} => serve[c] = "none"
        /\ client[c] = "fork" => get[c] = "none"
        /\ serve[c] = "none" => at[c] = 0
        /\ serve[c] \in Testing => at[c] < COUNT_CLIENTS
        /\ get[c] = "reload" => i[c] < COUNT_CLIENTS

\* mut[ind] is held by one thread of the slot at most.
LockedInGet(c) == get[c] \in {"compare", "reload", "pid"}
LockedInServe(c) == serve[c] \in {"less", "equal", "pid", "clearpid"}
Mutex ==
    \A c, d \in Clients : SlotOf[c] = SlotOf[d] =>
        /\ LockedInGet(c) => ~LockedInServe(d)
        /\ LockedInGet(c) /\ LockedInGet(d) => c = d
        /\ LockedInServe(c) /\ LockedInServe(d) => c = d

\* Number and pid differ only between the two stores of a thread.
Halfway(s) == \E c \in Clients : SlotOf[c] = s /\ (get[c] = "pid" \/ serve[c] = "clearpid")
Pairs ==
    /\ \A s \in Slots : Halfway(s) \/ (numbers[s] = 0 <=> pids[s] = 0)
    /\ \A c \in Clients :
          /\ get[c] = "pid" => numbers[SlotOf[c]] # 0
          /\ serve[c] = "clearpid" => numbers[SlotOf[c]] = 0

\* No call being given up, a client is served when it has its number, and with
\* a slot of its own that number is there as long as it stands.
InOrder ==
    \A c \in Clients :
        /\ client[c] = "pause" => get[c] = "done"
        /\ serve[c] # "none" => get[c] = "done"
        /\ IF c \in Standing THEN numbers[SlotOf[c]] > 0 ELSE numbers[SlotOf[c]] = 0

\* What c knows of those ahead of it.  While it takes the maximum: they stand,
\* and res is at least their numbers in the slots it has seen.
Scanned ==
    \A c \in Clients : \A d \in ahead[c] :
        /\ get[c] \in {"compare", "reload"} =>
              d \in Standing /\ (SlotOf[d] < i[c] => res[c] >= numbers[SlotOf[d]])
        /\ get[c] = "reload" => numbers[i[c]] > res[c]

\* Then: its own number is greater.
Greater ==
    \A c \in Clients : \A d \in ahead[c] :
        c \in Standing /\ d \in Standing => numbers[SlotOf[c]] > numbers[SlotOf[d]]

\* Past their slots in serve: they have gone.
Passed ==
    \A c \in Clients : \A d \in ahead[c] :
        /\ serve[c] \in Testing => (SlotOf[d] < at[c] => d \notin Standing)
        /\ serve[c] \in {"equal", "pid"} => (SlotOf[d] = at[c] => d \notin Standing)
        /\ Served(c) => d \notin Standing

\* Those ahead have stored their number; nobody is ahead before the call.
AheadStored ==
    \A c \in Clients :
        /\ get[c] \in {"none", "first"} => ahead[c] = {}
        /\ \A d \in ahead[c] : Stored(d)
=============================================================================
