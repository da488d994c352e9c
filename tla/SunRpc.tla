------------------------------- MODULE SunRpc -------------------------------
(***************************************************************************)
(* Sun RPC over UDP as os_lab_rpc uses it.  clnt_call sends a datagram,    *)
(* again every few seconds, and gives up at last; it takes an answer only  *)
(* with the xid of its current call.  svc_run receives one datagram at a   *)
(* time and calls the dispatcher, which answers it, or starts a thread and *)
(* returns.  What the thread was given points to the dispatcher's stack    *)
(* and to the one transport, whose buffer and return address belong to the *)
(* datagram received last.                                                 *)
(*                                                                         *)
(* On the transport, decoding and answering are atomic here.  A dead stack *)
(* frame holds what it held, or no procedure's number.  A thread that      *)
(* decodes a buffer already decoded or overwritten gets any value; that it *)
(* may get a null pointer, and end the server, is left out.                *)
(***************************************************************************)
EXTENDS RpcPrograms, SequencesExt

CONSTANTS
    Clients,
    Servers,      \* the programs of an instance
    MaxSent,      \* bounds: different calls to each server,
    MaxRequests,  \* and the datagrams it receives
    MaxThreads    \* bound: threads at a time

ASSUME SunRpcAssumption ==
    /\ Servers \subseteq DOMAIN AllServers
    /\ MaxSent \in [Servers -> Nat] /\ MaxRequests \in [Servers -> Nat]
    /\ MaxThreads \in Nat \ {0}

VARIABLES
    program,  \* the name of the server that runs
    client,   \* each client's role, place and number of its call, the xid
    asked,    \* the call it made last
    net,      \* the datagrams sent: each may come late, again, or never
    cur,      \* the datagram received last: rqstp, the return address, the xid
    fresh,    \* its arguments are in the buffer still
    thr,      \* the runs of the dispatcher's switch, in a thread or not, that have not ended
    received, \* datagrams received
    answer    \* the answer each client took last, if its thread ran alone (history)

served == <<program, client, asked, net, cur, fresh, received, answer>>
rpcvars == <<served, thr>>

prog == AllServers[program]
dispatch == prog.main.registers

NoClient == 0
NoDatagram == [from |-> NoClient, call |-> 0, proc |-> 0, arg |-> NoArg]
NoAnswer == [did |-> "nothing", arg |-> NoArg]

SunRpcInit ==
    /\ program \in Servers
    /\ \E r \in [Clients -> prog.client.roles] :
          /\ program = "obakery_old" => \A c, d \in Clients : c # d => r[c] # r[d]
          /\ client = [c \in Clients |-> [role |-> r[c], at |-> "idle", call |-> 0]]
    /\ asked = [c \in Clients |-> Rpc(0, NoArg, {})]
    /\ net = {}
    /\ cur = NoDatagram
    /\ fresh = FALSE
    /\ thr = <<>> /\ received = 0
    /\ answer = [c \in Clients |-> NoAnswer]

(***************************************************************************)
(* The clients.                                                            *)
(***************************************************************************)
\* What is sent after the last datagram received changes nothing.
Call(c) ==
    /\ client[c].at = "idle" /\ client[c].role # Ended /\ client[c].call < MaxCalls
    /\ Cardinality(net) < MaxSent[program] /\ received < MaxRequests[program]
    /\ \E r \in prog.client.runs[client[c].role].calls[client[c].call + 1] :
          /\ net' = net \cup {[from |-> c, call |-> client[c].call + 1, proc |-> r.proc, arg |-> r.arg]}
          /\ asked' = [asked EXCEPT ![c] = r]
    /\ client' = [client EXCEPT ![c].at = "waits", ![c].call = @ + 1]
    /\ answer' = [answer EXCEPT ![c] = NoAnswer]
    /\ UNCHANGED <<program, cur, fresh, thr, received>>

Idle(c) == [client[c] EXCEPT !.at = "idle"]
Failed(c) == [Idle(c) EXCEPT !.role = prog.client.runs[@].failed]

\* clnt_call returns RPC_TIMEDOUT.
Timeout(c) ==
    /\ client[c].at = "waits"
    /\ client' = [client EXCEPT ![c] = Failed(c)]
    /\ UNCHANGED <<program, asked, net, cur, fresh, thr, received, answer>>

(***************************************************************************)
(* The server.                                                             *)
(***************************************************************************)
\* Without threads, svc_run does not receive before the dispatcher returns.
Receive(d) ==
    /\ received < MaxRequests[program] /\ received' = received + 1
    /\ Len(thr) < IF dispatch.thread THEN MaxThreads ELSE 1
    /\ cur' = d
    /\ fresh' = ~dispatch.getargs
    /\ thr' = Append([t \in DOMAIN thr |-> [thr[t] EXCEPT !.alone = FALSE]],
                     [todo |-> <<"switch">>, arg |-> IF dispatch.getargs THEN d.arg ELSE NoArg,
                      ops |-> 0, reg |-> 0, i |-> 0, did |-> "nothing", alone |-> thr = <<>>])
    /\ UNCHANGED <<program, client, asked, net, answer>>

At(t, step) == thr[t].todo # <<>> /\ Head(thr[t].todo) = step
\* On to the next step, or past the one that a client takes the answer for.
Pass(t) == thr' = [thr EXCEPT ![t].todo = Tail(@)] /\ UNCHANGED served
Does(t, step) ==
    /\ thr' = [thr EXCEPT ![t].todo = Tail(@), ![t].reg = 0, ![t].i = 0, ![t].did = step]
    /\ UNCHANGED served
Ends(t) == thr' = RemoveAt(thr, t)

\* svc_sendreply and svcerr_...: the answer, unless it is lost, goes to the
\* sender of the datagram received last, with its xid.
Answers(t, did) ==
    LET c == cur.from IN
    /\ Ends(t)
    /\ fresh' = FALSE
    /\ \/ UNCHANGED <<client, answer>>
       \/ /\ client[c].at = "waits" /\ client[c].call = cur.call
          /\ client' = [client EXCEPT ![c] = IF did = "error" THEN Failed(c) ELSE Idle(c)]
          /\ answer' = [answer EXCEPT ![c] =
                           IF thr[t].alone THEN [did |-> did, arg |-> thr[t].arg] ELSE NoAnswer]
    /\ UNCHANGED <<program, asked, net, cur, received>>

\* switch (rqstp->rq_proc)
Switch(t) ==
    /\ At(t, "switch")
    /\ thr' = [thr EXCEPT ![t].todo = dispatch.serve[cur.proc], ![t].ops = cur.proc]
    /\ UNCHANGED served

\* The default of the switch, on a dead stack.
NoProc(t) == dispatch.thread /\ At(t, "switch") /\ Answers(t, "error")

\* svc_getargs: the argument of the datagram received last.
Getargs(t) ==
    /\ At(t, "getargs")
    /\ \E v \in IF fresh /\ cur.arg \in prog.args THEN {cur.arg} ELSE prog.args :
          thr' = [thr EXCEPT ![t].todo = Tail(@), ![t].arg = v]
    /\ fresh' = FALSE
    /\ UNCHANGED <<program, client, asked, net, cur, received, answer>>
DecodeFails(t) == At(t, "getargs") /\ ~fresh /\ Answers(t, "error")

\* if (rqstp->rq_proc == PRODUCER): rq_proc is read again.
If(t) ==
    /\ At(t, "if")
    /\ \E p \in {cur.proc, 2} : thr' = [thr EXCEPT ![t].todo = Tail(@), ![t].ops = p]
    /\ UNCHANGED served

Sendreply(t) == At(t, "reply") /\ Answers(t, thr[t].did)

\* The function ends with no answer.
NoReply(t) == thr[t].todo = <<>> /\ Ends(t) /\ UNCHANGED served

SunRpcNext ==
    \/ \E c \in Clients : Call(c) \/ Timeout(c)
    \/ \E d \in net : Receive(d)
    \/ \E t \in DOMAIN thr : Switch(t) \/ NoProc(t) \/ Getargs(t) \/ DecodeFails(t) \/ If(t) \/ Sendreply(t)
                             \/ NoReply(t)

SunRpcTypeOK ==
    /\ program \in Servers
    /\ \A c \in Clients :
          /\ client[c].at \in {"idle", "waits"} /\ client[c].call \in 0 .. MaxCalls
          /\ client[c].role \in {Ended, 0, 1, RoleLetter} \cup Slots
    /\ \A d \in net \cup {cur} :
          d.from \in Clients \cup {NoClient} /\ d.call \in 0 .. MaxCalls /\ d.proc \in 0 .. 4 /\ d.arg \in prog.args \cup {NoArg}
    /\ fresh \in BOOLEAN
    /\ received \in 0 .. MaxRequests[program] /\ Len(thr) \in 0 .. MaxThreads
    /\ \A t \in DOMAIN thr : thr[t].arg \in prog.args \cup {NoArg} /\ thr[t].ops \in 0 .. 4 /\ thr[t].reg \in Int /\ thr[t].i \in Nat /\ Len(thr[t].todo) <= 8
=============================================================================
