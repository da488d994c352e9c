----------------------------- MODULE RpcServers -----------------------------
(***************************************************************************)
(* The servers of os_lab_rpc over UDP, one at a time: Sun RPC and the      *)
(* services composed.                                                      *)
(***************************************************************************)
EXTENDS PcRpc, DictRpc, BakeryRpc

vars == <<rpcvars, pcvars, dictvars, bakeryvars>>

Init == SunRpcInit /\ PcInit /\ DictInit /\ BakeryInit

Next ==
    \/ SunRpcNext /\ UNCHANGED <<pcvars, dictvars, bakeryvars>>
    \/ \E t \in DOMAIN thr :
          \/ PcStep(t) /\ UNCHANGED <<dictvars, bakeryvars>>
          \/ DictStep(t) /\ UNCHANGED <<pcvars, bakeryvars>>
          \/ BakeryStep(t) /\ UNCHANGED <<pcvars, dictvars>>

Spec == Init /\ [][Next]_vars

(***************************************************************************)
(* Properties.                                                             *)
(***************************************************************************)
TypeOK == SunRpcTypeOK /\ PcTypeOK /\ DictTypeOK /\ BakeryTypeOK

\* A call whose thread runs alone, between no other datagrams, is answered to
\* its own client and did what was asked with the argument that was sent
\* (pc/pc_svc.c 30-69, pc_last/pc_svc.c 52-78), or failed, in spite of datagrams
\* that come late and again, and of the answers of threads that ran before.
SoloCallsRight ==
    \A c \in Clients : answer[c] # NoAnswer =>
        \/ answer[c].did = "error"
        \/ answer[c].did \in asked[c].wants /\ answer[c].arg = asked[c].arg

\* The letters are taken in the order in which they were put, whichever request
\* a thread takes its procedure from, resent or not, as long as no service runs
\* between the other's semaphores (pc2/pc_svc.c 73, rpc_pc/pc_svc.c 79).
LettersInOrder == ~mixed => IsPrefix(takes, puts)

\* While no calls overlap, the array with its counter (dict_srp.c 16-43) is a
\* bag of words; a server without threads (dict_server.c 20-47) is one always.
\* A datagram that comes twice is two calls.
Dict == INSTANCE Dictionary WITH
            words <- IF overlapped \/ Within # {} THEN before ELSE Bag
ImplementsDictionary == Dict!Spec

\* No two calls of get_number give the same number, repeated ones included
\* (obakery/bakery_server.c 34, obakery/old/bakery_server.c 30).
NumbersDistinct == IsInjective(given)

\* A number just given is greater than that of the customer served last, so that
\* whoever goes on with it at once is not too late, whichever calls came again,
\* in whatever order, or with whatever index (obakery/bakery_server.c 34, 48, 81).
NewcomersInTime == [][given' # given => Last(given') > number_last]_given

(***************************************************************************)
(* The inductive invariant of the proofs.                                  *)
(***************************************************************************)
PcServers == {"pc", "pc2", "copy", "rpc_pc", "pc_last"}
DictServers == {"dict_threads", "dict_one"}

Steps ==
    {"switch", "getargs", "reply"} \cup
    CASE program \in PcServers ->
            {"if", "service", "start", "put", "advance_prod", "take", "advance_cons", "stop"}
      [] program \in DictServers ->
            {"initw", "strcpy", "load_inc", "store_inc", "scan", "load_dec", "store_dec", "move", "lookupw"}
      [] OTHER -> {"get_number", "get_number_of_ind", "serve", "compute", "calculator_proc"}

\* Whether the step s can come after r in what is left to do.
Follows(s, r) ==
    \/ /\ r = "getargs"
       /\ s \in {"if", "service", "strcpy", "scan", "lookupw", "get_number", "get_number_of_ind", "serve",
                "compute", "calculator_proc"}
    \/ r = "if" /\ s = "start"
    \/ r = "start" /\ s \in {"put", "take"}
    \/ r = "put" /\ s = "advance_prod"
    \/ r = "take" /\ s = "advance_cons"
    \/ r \in {"advance_prod", "advance_cons"} /\ s = "stop"
    \/ r = "strcpy" /\ s = "load_inc"
    \/ r = "load_inc" /\ s = "store_inc"
    \/ r = "scan" /\ s = "load_dec"
    \/ r = "load_dec" /\ s = "store_dec"
    \/ r = "store_dec" /\ s = "move"
    \/ /\ r \in {"service", "stop", "initw", "store_inc", "move", "lookupw", "get_number",
                 "get_number_of_ind", "serve", "compute", "calculator_proc"}
       /\ s = "reply"

IsPlan(todo) ==
    /\ todo \in Seq(Steps) /\ Len(todo) <= 8
    /\ todo # <<>> => todo[Len(todo)] \in {"switch", "reply"}
    /\ \A n \in 1 .. Len(todo) - 1 : Follows(todo[n + 1], todo[n])

\* Where a thread is.
Place(x) == IF x.todo = <<>> THEN "end" ELSE Head(x.todo)
Threads(places) == {t \in DOMAIN thr : Place(thr[t]) \in places}

\* The argument is as main registers it, or decoded.
ThreadOK(x) ==
    /\ IsPlan(x.todo)
    /\ program \in PcServers /\ Place(x) \notin {"switch", "end"} => x.ops \in {1, 2}
    /\ Place(x) \in {"switch", "initw"} => x.arg = NoArg
    /\ Place(x) \in {"strcpy", "load_inc", "store_inc", "scan", "load_dec", "store_dec", "move", "lookupw"} =>
          x.arg \in Words
Outcomes ==
    {"nothing", "put", "take", "initw", "insertw", "deletew", "lookupw", "get_number", "get_number_of_ind",
     "serve", "late", "compute", "calculator_proc"}
ThreadRecords ==
    [todo : Seq(Steps), arg : prog.args \cup {NoArg}, ops : 0 .. 4, reg : Int, i : Nat,
     did : Outcomes, alone : BOOLEAN]
ThreadsInv == thr \in Seq(ThreadRecords) /\ \A t \in DOMAIN thr : ThreadOK(thr[t])

\* What a client takes the answer for.
Wanted(proc, arg) ==
    CASE program \in {"pc", "pc2", "copy", "rpc_pc"} -> IF proc = 1 THEN {"put"} ELSE {"take"}
      [] program = "pc_last" -> IF arg = 0 THEN {"put"} ELSE {"take"}
      [] program \in DictServers ->
            IF proc = 1 THEN {"initw"} ELSE IF proc = 2 THEN {"insertw"}
            ELSE IF proc = 3 THEN {"deletew"} ELSE {"lookupw"}
      [] program = "obakery" -> IF proc = 1 THEN {"get_number"} ELSE {"serve", "late"}
      [] program = "obakery_old" -> IF proc = 1 THEN {"get_number_of_ind"} ELSE {"compute"}
      [] OTHER -> {"calculator_proc"}
Arguments(proc) == IF program \in DictServers /\ proc = 1 THEN {NoArg} ELSE prog.args

\* A datagram is one of a client's calls, and of the last if it has its number.
Datagrams == [from : Clients, call : 1 .. MaxCalls, proc : DOMAIN dispatch.serve, arg : prog.args \cup {NoArg}]
CallsInv ==
    /\ client \in [Clients -> [role : DOMAIN prog.client.runs \cup {Ended}, at : {"idle", "waits"},
                               call : 0 .. MaxCalls]]
    /\ net \subseteq Datagrams
    /\ \A d \in net :
          /\ d.call <= client[d.from].call /\ d.arg \in Arguments(d.proc)
          /\ d.call = client[d.from].call => d.proc = asked[d.from].proc /\ d.arg = asked[d.from].arg
    /\ DOMAIN asked = Clients
    /\ \A c \in Clients : client[c].at = "waits" => client[c].role # Ended
    /\ \A c \in Clients : client[c].call > 0 => asked[c].wants = Wanted(asked[c].proc, asked[c].arg)
    /\ thr # <<>> => cur \in net

\* A thread that runs alone is the only one, and does what was asked.
OwnSteps(proc, arg) ==
    {"switch", "getargs", "reply"} \cup
    CASE program \in {"pc", "pc2", "copy", "rpc_pc"} ->
            {"if", "start", "stop"} \cup IF proc = 1 THEN {"put", "advance_prod"} ELSE {"take", "advance_cons"}
      [] program = "pc_last" ->
            {"service", "start", "stop"} \cup IF arg = 0 THEN {"put", "advance_prod"} ELSE {"take", "advance_cons"}
      [] program \in DictServers ->
            IF proc = 1 THEN {"initw"} ELSE IF proc = 2 THEN {"strcpy", "load_inc", "store_inc"}
            ELSE IF proc = 3 THEN {"scan", "load_dec", "store_dec", "move"} ELSE {"lookupw"}
      [] program = "obakery" -> IF proc = 1 THEN {"get_number"} ELSE {"serve"}
      [] program = "obakery_old" -> IF proc = 1 THEN {"get_number_of_ind"} ELSE {"compute"}
      [] OTHER -> {"calculator_proc"}
AloneOK(x) ==
    /\ Place(x) = "switch" /\ ~dispatch.getargs => fresh
    /\ Place(x) = "getargs" => fresh
    /\ Place(x) \notin {"switch", "getargs", "end"} \/ dispatch.getargs => x.arg = cur.arg
    /\ \A n \in DOMAIN x.todo : x.todo[n] \in OwnSteps(cur.proc, cur.arg)
    /\ Place(x) \in {"advance_prod", "advance_cons", "stop", "reply"} => x.did \in Wanted(cur.proc, cur.arg)
AloneInv == \A t \in DOMAIN thr : thr[t].alone => Len(thr) = 1 /\ AloneOK(thr[t])

\* BINARY lets one service in at a time, whichever semaphores it takes besides.
Serving == {"put", "advance_prod", "take", "advance_cons", "stop"}
ServingInv ==
    program \in PcServers =>
        /\ \A t, u \in Threads(Serving) : t = u
        /\ sem[0] = IF Threads(Serving) = {} THEN 1 ELSE 0
        /\ Threads({"advance_prod"}) # {} => prod_ptr < SIZE
        /\ Threads({"advance_cons"}) # {} => cons_ptr < SIZE

\* As long as every service ran between its own semaphores, these count the
\* cells, and what was put and not taken is in the buffer in order.
Full == IF program = "pc_last" THEN 1 ELSE 2
EmptyCells == 3 - Full
Cell(wraps, k) == IF wraps THEN k % SIZE ELSE k
CellOf(k) == Cell(prog.wraps, k)
Stored == Len(puts) - Len(takes)
\* A thread with the semaphores of the service ops is there.
AtWith(place, ops) == \E t \in Threads({place}) : thr[t].ops = ops
LettersOK ==
    /\ Threads({"put"}) # {} => AtWith("put", 1)
    /\ Threads({"advance_prod"}) # {} => AtWith("advance_prod", 1)
    /\ Threads({"take"}) # {} => AtWith("take", 2)
    /\ Threads({"advance_cons"}) # {} => AtWith("advance_cons", 2) /\ Len(takes) > 0
    /\ sem[Full] = IF AtWith("advance_prod", 1) \/ AtWith("stop", 1) \/ AtWith("take", 2)
                   THEN Stored - 1 ELSE Stored
    /\ sem[EmptyCells] = IF AtWith("put", 1) \/ AtWith("advance_cons", 2) \/ AtWith("stop", 2)
                         THEN SIZE - Stored - 1 ELSE SIZE - Stored
    /\ prod_ptr = CellOf(IF AtWith("advance_prod", 1) THEN Len(puts) - 1 ELSE Len(puts))
    /\ cons_ptr = CellOf(IF AtWith("advance_cons", 2) THEN Len(takes) - 1 ELSE Len(takes))
    /\ Stored >= 0
    /\ \A n \in 1 .. Len(takes) : takes[n] = puts[n]
    /\ \A n \in Len(takes) + 1 .. Len(puts) : buffer[CellOf(n - 1)] = puts[n]
LettersInv == program \in PcServers /\ ~mixed => LettersOK

\* While no calls overlap, a call between its first step and its last has left
\* the dictionary as it was, but for a word not counted, or not moved yet.
BagOf(n) == [w \in Words |-> Cardinality({x \in Places : x < n /\ dict[x] = w})]
RunOK(x) ==
    LET place == Place(x)
    IN  /\ before = BagOf(IF place = "move" THEN nwords + 1 ELSE nwords)
        /\ place \in {"load_inc", "store_inc", "move"} => nwords \in Places
        /\ place \in {"load_inc", "store_inc"} => dict[nwords] = x.arg
        /\ place \in {"store_inc", "store_dec"} => x.reg = nwords
        /\ place \in {"load_dec", "store_dec"} => x.i < nwords
        /\ place \in {"load_dec", "store_dec", "move"} => x.i \in Places /\ dict[x.i] = x.arg
        /\ place = "move" => x.i <= nwords
DictInv ==
    program \in DictServers /\ ~overlapped =>
        /\ \A t, u \in Within : t = u
        /\ nwords \in 0 .. DICTSIZ
        /\ \A t \in Within : RunOK(thr[t])

\* The numbers given are 1, 2, ..., and the last is the maximum.
NumbersInv ==
    /\ \A n \in DOMAIN given : given[n] = n
    /\ \A s \in Slots : numbers[s] <= Len(given)
    /\ given # <<>> => \E s \in Slots : numbers[s] = Len(given)
    /\ number_last <= Len(given)
=============================================================================
