---------------------------- MODULE RpcPrograms ----------------------------
(***************************************************************************)
(* Ten servers of os_lab_rpc over UDP, and their clients, as tables:       *)
(* what a client calls, what main makes and registers, whether the         *)
(* dispatcher starts a thread, and the steps of each procedure.  SunRpc    *)
(* carries the tables out, and PcRpc, DictRpc and BakeryRpc the steps.     *)
(***************************************************************************)
EXTENDS SysVSem

CONSTANTS
    MaxCalls,  \* bound: calls of a client
    SIZE,      \* cells of the ring (10, 1000, 1024 or 4096 in the programs)
    Words,     \* words for the dictionary
    COUNT      \* COUNT_CLIENTS of the bakeries without threads

ASSUME RpcProgramsAssumption ==
    /\ MaxCalls \in Nat /\ SIZE \in Nat \ {0} /\ COUNT \in Nat \ {0}
    /\ 0 \notin Words

Slots == 0 .. COUNT - 1
NoArg == 0    \* of a void procedure, or one that the procedure only prints
Ended == -1   \* the role of a client that has ended

\* A call, and what the client takes the answer for.
Rpc(proc, arg, wants) == [proc |-> proc, arg |-> arg, wants |-> wants]
Forever(calls) == [n \in 1 .. MaxCalls |-> calls]
Reply == <<"reply">>
NoSems == [s \in 0 .. 2 |-> 0]

(***************************************************************************)
(* pc: a thread for each call; the dispatcher decodes the argument.        *)
(* Semaphores BINARY 0, BEMPTY 1, BFULL 2; procedures PRODUCER 1 and       *)
(* CONSUMER 2, and so in the programs that follow.                         *)
(***************************************************************************)
\* Mutant: a consumer waits for an empty cell.
pc_sembufs_swapped ==
    <<[start |-> <<Sembuf(1, -1), Sembuf(0, -1)>>, stop |-> <<Sembuf(0, 1), Sembuf(2, 1)>>],
      [start |-> <<Sembuf(1, -1), Sembuf(0, -1)>>, stop |-> <<Sembuf(0, 1), Sembuf(1, 1)>>]>>
pc_sembufs ==
    <<[start |-> <<Sembuf(1, -1), Sembuf(0, -1)>>, stop |-> <<Sembuf(0, 1), Sembuf(2, 1)>>],
      [start |-> <<Sembuf(2, -1), Sembuf(0, -1)>>, stop |-> <<Sembuf(0, 1), Sembuf(1, 1)>>]>>
pc_producer_1_svc == [steps |-> <<"start", "put", "advance_prod", "stop">>, wraps |-> TRUE]
pc_consumer_1_svc == [steps |-> <<"start", "take", "advance_cons", "stop">>, clears |-> TRUE]
pc_init_sem == [s \in 0 .. 2 |-> <<1, SIZE, 0>>[s + 1]]
pc_serv_request == <<pc_producer_1_svc.steps \o Reply, pc_consumer_1_svc.steps \o Reply>>
pc_prog_1 == [thread |-> TRUE, getargs |-> TRUE, serve |-> pc_serv_request]
pc_main == [registers |-> pc_prog_1, sems |-> pc_init_sem]
pc_client == [p \in {0, 1} |-> [calls |-> Forever({Rpc(p + 1, NoArg, <<{"put"}, {"take"}>>[p + 1])}),
                                failed |-> Ended]]
pc_client_main == [roles |-> {0, 1}, runs |-> pc_client]

pc == [main |-> pc_main, client |-> pc_client_main, args |-> {NoArg}, sembufs |-> pc_sembufs,
       wraps |-> pc_producer_1_svc.wraps, clears |-> pc_consumer_1_svc.clears]

(***************************************************************************)
(* pc2: the thread decodes, and reads rq_proc a second time to choose the  *)
(* semaphores; the pointers are never set back; a client calls again       *)
(* whether the call failed or not.                                         *)
(***************************************************************************)
pc2_sembufs == pc_sembufs
pc2_producer_1_svc == [steps |-> <<"put", "advance_prod">>, wraps |-> FALSE]
pc2_consumer_1_svc == [steps |-> <<"take", "advance_cons">>, clears |-> FALSE]
pc2_serv_request ==
    <<<<"getargs", "if", "start">> \o pc2_producer_1_svc.steps \o <<"stop", "reply">>,
      <<"getargs", "if", "start">> \o pc2_consumer_1_svc.steps \o <<"stop", "reply">>>>
pc2_prog_1 == [thread |-> TRUE, getargs |-> FALSE, serve |-> pc2_serv_request]
pc2_main == [registers |-> pc2_prog_1, sems |-> [s \in 0 .. 2 |-> <<1, SIZE, 0>>[s + 1]]]
pc2_client == [p \in {0, 1} |-> [calls |-> Forever({Rpc(p + 1, NoArg, <<{"put"}, {"take"}>>[p + 1])}),
                                 failed |-> p]]
pc2_client_main == [roles |-> {0, 1}, runs |-> pc2_client]

pc2 == [main |-> pc2_main, client |-> pc2_client_main, args |-> {NoArg}, sembufs |-> pc2_sembufs,
        wraps |-> pc2_producer_1_svc.wraps, clears |-> pc2_consumer_1_svc.clears]

(***************************************************************************)
(* "pc (копия)": pc2 with the pid of the client as the argument.           *)
(***************************************************************************)
copy_producer_1_svc == [steps |-> <<"put", "advance_prod">>, wraps |-> FALSE]
copy_consumer_1_svc == [steps |-> <<"take", "advance_cons">>, clears |-> FALSE]
copy_serv_request == pc2_serv_request
copy_prog_1 == [thread |-> TRUE, getargs |-> FALSE, serve |-> copy_serv_request]
copy_main == [registers |-> copy_prog_1, sems |-> [s \in 0 .. 2 |-> <<1, SIZE, 0>>[s + 1]]]
copy_client == pc2_client
copy_client_main == [roles |-> {0, 1}, runs |-> copy_client]

copy == [main |-> copy_main, client |-> copy_client_main, args |-> {NoArg}, sembufs |-> pc2_sembufs,
         wraps |-> copy_producer_1_svc.wraps, clears |-> copy_consumer_1_svc.clears]

(***************************************************************************)
(* rpc_pc: PRODUCE 1, CONSUME 2; SB 0, SE 1, SF 2.                         *)
(***************************************************************************)
rpc_pc_sembufs == pc_sembufs
produce_1_svc == [steps |-> <<"put", "advance_prod">>, wraps |-> FALSE]
consume_1_svc == [steps |-> <<"take", "advance_cons">>, clears |-> FALSE]
rpc_pc_serv_request ==
    <<<<"getargs", "if", "start">> \o produce_1_svc.steps \o <<"stop", "reply">>,
      <<"getargs", "if", "start">> \o consume_1_svc.steps \o <<"stop", "reply">>>>
producer_consumer_program_1 == [thread |-> TRUE, getargs |-> FALSE, serve |-> rpc_pc_serv_request]
rpc_pc_main == [registers |-> producer_consumer_program_1,
                sems |-> [s \in 0 .. 2 |-> <<1, SIZE, 0>>[s + 1]]]
rpc_pc_client == pc2_client
rpc_pc_client_main == [roles |-> {0, 1}, runs |-> rpc_pc_client]

rpc_pc == [main |-> rpc_pc_main, client |-> rpc_pc_client_main, args |-> {NoArg}, sembufs |-> rpc_pc_sembufs,
           wraps |-> produce_1_svc.wraps, clears |-> consume_1_svc.clears]

(***************************************************************************)
(* pc_last: one procedure, SERVICE, whose argument tells a producer, 0,    *)
(* from a consumer, 1; for any other argument nothing is answered.  After  *)
(* a failure a client calls on with the letter of its role, here 2.        *)
(* BIN_SEM 0, BUFF_FULL 1, BUFF_EMPTY 2.                                   *)
(***************************************************************************)
pc_last_sembufs ==
    <<[start |-> <<Sembuf(2, -1), Sembuf(0, -1)>>, stop |-> <<Sembuf(0, 1), Sembuf(1, 1)>>],
      [start |-> <<Sembuf(1, -1), Sembuf(0, -1)>>, stop |-> <<Sembuf(0, 1), Sembuf(2, 1)>>]>>
producer == [steps |-> <<"start", "put", "advance_prod", "stop">>, wraps |-> FALSE]
consumer == [steps |-> <<"start", "take", "advance_cons", "stop">>, clears |-> FALSE]
RoleLetter == 2
\* Mutant: the roles are exchanged.
service_1_svc_exchanged ==
    [arg \in {0, 1, RoleLetter} |-> IF arg = 1 THEN producer.steps
                                    ELSE IF arg = 0 THEN consumer.steps ELSE <<>>]
service_1_svc ==
    [arg \in {0, 1, RoleLetter} |-> IF arg = 0 THEN producer.steps
                                    ELSE IF arg = 1 THEN consumer.steps ELSE <<>>]
pc_last_serv_request == <<<<"getargs", "service", "reply">>>>
pc_last_prog_1 == [thread |-> TRUE, getargs |-> FALSE, serve |-> pc_last_serv_request]
pc_last_main == [registers |-> pc_last_prog_1, sems |-> [s \in 0 .. 2 |-> <<1, 0, SIZE>>[s + 1]]]
pc_last_client ==
    [p \in {0, 1, RoleLetter} |-> [calls |-> Forever({Rpc(1, p, IF p = 0 THEN {"put"} ELSE {"take"})}),
                                   failed |-> IF p = RoleLetter THEN Ended ELSE RoleLetter]]
pc_last_client_main == [roles |-> {0, 1}, runs |-> pc_last_client]

pc_last == [main |-> pc_last_main, client |-> pc_last_client_main, args |-> {0, 1, RoleLetter}, sembufs |-> pc_last_sembufs,
            wraps |-> producer.wraps, clears |-> consumer.clears]

(***************************************************************************)
(* threads_rpc: the dictionary, INITW 1, INSERTW 2, DELETEW 3, LOOKUPW 4,  *)
(* with a thread for each call, or without ("dict_svc copy.c").            *)
(***************************************************************************)
insertw == <<"strcpy", "load_inc", "store_inc">>
\* Mutant: the counter goes down after the last word is moved.
deletew_late == <<"scan", "move", "load_dec", "store_dec">>
deletew == <<"scan", "load_dec", "store_dec", "move">>
dict_sif == <<<<"initw">>, insertw, deletew, <<"lookupw">>>>
dict_serv_request ==
    <<dict_sif[1] \o Reply, <<"getargs">> \o dict_sif[2] \o Reply,
      <<"getargs">> \o dict_sif[3] \o Reply, <<"getargs">> \o dict_sif[4] \o Reply>>
dict_rdictprog_1 == [thread |-> TRUE, getargs |-> FALSE, serve |-> dict_serv_request]
dict_main == [registers |-> dict_rdictprog_1, sems |-> NoSems]
nextin == {Rpc(1, NoArg, {"initw"})}
          \cup {Rpc(2, w, {"insertw"}) : w \in Words}
          \cup {Rpc(3, w, {"deletew"}) : w \in Words}
          \cup {Rpc(4, w, {"lookupw"}) : w \in Words}
dict_client == [p \in {0} |-> [calls |-> Forever(nextin), failed |-> p]]
dict_client_main == [roles |-> {0}, runs |-> dict_client]

dict_threads == [main |-> dict_main, client |-> dict_client_main, args |-> Words]

dict_server == dict_sif
copy_rdictprog_1 ==
    [thread |-> FALSE, getargs |-> FALSE,
     serve |-> <<dict_server[1] \o Reply, <<"getargs">> \o dict_server[2] \o Reply,
                 <<"getargs">> \o dict_server[3] \o Reply, <<"getargs">> \o dict_server[4] \o Reply>>]
dict_copy_main == [registers |-> copy_rdictprog_1, sems |-> NoSems]

dict_one == [main |-> dict_copy_main, client |-> dict_client_main, args |-> Words]

(***************************************************************************)
(* obakery: no threads.  A client asks for numbers for ever, sends an ind  *)
(* that it never sets, and ends with a null pointer when a call fails.     *)
(***************************************************************************)
obakery_prog_1 == [thread |-> FALSE, getargs |-> FALSE,
                   serve |-> <<<<"getargs", "get_number", "reply">>, <<"getargs", "serve", "reply">>>>]
obakery_main == [registers |-> obakery_prog_1, sems |-> NoSems]
obakery_client ==
    [p \in {0} |-> [calls |-> [n \in 1 .. MaxCalls |->
                       IF n % 2 = 1 THEN {Rpc(1, NoArg, {"get_number"})}
                       ELSE {Rpc(2, ind, {"serve", "late"}) : ind \in Slots}],
                    failed |-> Ended]]
obakery_client_main == [roles |-> {0}, runs |-> obakery_client]

obakery == [main |-> obakery_main, client |-> obakery_client_main, args |-> Slots]

(***************************************************************************)
(* obakery/old: main forks a client for each index, which makes one call   *)
(* of each procedure.                                                      *)
(***************************************************************************)
old_prog_1 == [thread |-> FALSE, getargs |-> FALSE,
               serve |-> <<<<"getargs", "get_number_of_ind", "reply">>, <<"getargs", "compute", "reply">>>>]
old_main == [registers |-> old_prog_1, sems |-> NoSems]
old_client ==
    [p \in Slots |-> [calls |-> [n \in 1 .. MaxCalls |->
                         IF n = 1 THEN {Rpc(1, p, {"get_number_of_ind"})}
                         ELSE IF n = 2 THEN {Rpc(2, p, {"compute"})} ELSE {}],
                      failed |-> Ended]]
old_client_main == [roles |-> Slots, runs |-> old_client]

obakery_old == [main |-> old_main, client |-> old_client_main, args |-> Slots]

(***************************************************************************)
(* calc: one call.                                                         *)
(***************************************************************************)
calculator_svc_prog_1 == [thread |-> FALSE, getargs |-> FALSE,
                          serve |-> <<<<"getargs", "calculator_proc", "reply">>>>]
calculator_main == [registers |-> calculator_svc_prog_1, sems |-> NoSems]
calculator_prog_1 ==
    [p \in {0} |-> [calls |-> [n \in 1 .. MaxCalls |->
                       IF n = 1 THEN {Rpc(1, NoArg, {"calculator_proc"})} ELSE {}],
                    failed |-> Ended]]
calculator_client_main == [roles |-> {0}, runs |-> calculator_prog_1]

calc == [main |-> calculator_main, client |-> calculator_client_main, args |-> {NoArg}]

\* No difference between these is seen by the model.
ASSUME SameServers == copy = pc2 /\ rpc_pc = pc2

AllServers ==
    [pc |-> pc, pc2 |-> pc2, copy |-> copy, rpc_pc |-> rpc_pc, pc_last |-> pc_last,
     dict_threads |-> dict_threads, dict_one |-> dict_one, obakery |-> obakery, obakery_old |-> obakery_old,
     calc |-> calc]
=============================================================================
