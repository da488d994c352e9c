------------------------------- MODULE PcRpc -------------------------------
(***************************************************************************)
(* The services of the producers and consumers over RPC: a ring, or an     *)
(* array used once, between semaphores, in the threads of one server.      *)
(***************************************************************************)
EXTENDS SunRpc

CONSTANT NLetters  \* letters of the alphabet

ASSUME PcRpcAssumption == NLetters \in Nat \ {0}

VARIABLES
    sem,       \* the values of the three semaphores
    buffer,
    prod_ptr, cons_ptr, alpha,
    puts,      \* the letters put, in order, and
    takes,     \* those taken (history)
    mixed      \* a service ran between the other's semaphores (history)

pcvars == <<sem, buffer, prod_ptr, cons_ptr, alpha, puts, takes, mixed>>

NoLetter == -1  \* '-' or a zero byte
Letters == 0 .. NLetters - 1

PcInit ==
    /\ sem = prog.main.sems
    /\ buffer = [x \in 0 .. SIZE - 1 |-> NoLetter]
    /\ prod_ptr = 0 /\ cons_ptr = 0 /\ alpha = 0
    /\ puts = <<>> /\ takes = <<>>
    /\ mixed = FALSE

Semops(t, ops) == Ready2(sem, ops) /\ sem' = After2(sem, ops)

Start(t) ==
    /\ At(t, "start")
    /\ Semops(t, prog.sembufs[thr[t].ops].start)
    /\ mixed' = (mixed \/ thr[t].todo[2] # <<"put", "take">>[thr[t].ops])
    /\ Pass(t)
    /\ UNCHANGED <<buffer, prod_ptr, cons_ptr, alpha, puts, takes>>

Stop(t) ==
    /\ At(t, "stop")
    /\ Semops(t, prog.sembufs[thr[t].ops].stop)
    /\ Pass(t)
    /\ UNCHANGED <<buffer, prod_ptr, cons_ptr, alpha, puts, takes, mixed>>

\* *prod_ptr = alpha; *result = alpha.  Past the end of the array nothing is
\* modelled.
Put(t) ==
    /\ At(t, "put") /\ prod_ptr < SIZE
    /\ buffer' = [buffer EXCEPT ![prod_ptr] = alpha]
    /\ puts' = Append(puts, alpha)
    /\ Does(t, "put")
    /\ UNCHANGED <<sem, prod_ptr, cons_ptr, alpha, takes, mixed>>

\* Mutant: the letter after 'z' is not looked after.
AdvanceProdUnwrapped(t) ==
    /\ At(t, "advance_prod")
    /\ prod_ptr' = IF prog.wraps /\ prod_ptr + 1 = SIZE THEN 0 ELSE prod_ptr + 1
    /\ alpha' = alpha + 1
    /\ Pass(t)
    /\ UNCHANGED <<sem, buffer, cons_ptr, puts, takes, mixed>>
AdvanceProd(t) ==
    /\ At(t, "advance_prod")
    /\ prod_ptr' = IF prog.wraps /\ prod_ptr + 1 = SIZE THEN 0 ELSE prod_ptr + 1
    /\ alpha' = (alpha + 1) % NLetters
    /\ Pass(t)
    /\ UNCHANGED <<sem, buffer, cons_ptr, puts, takes, mixed>>

Take(t) ==
    /\ At(t, "take") /\ cons_ptr < SIZE
    /\ takes' = Append(takes, buffer[cons_ptr])
    /\ buffer' = IF prog.clears THEN [buffer EXCEPT ![cons_ptr] = NoLetter] ELSE buffer
    /\ Does(t, "take")
    /\ UNCHANGED <<sem, prod_ptr, cons_ptr, alpha, puts, mixed>>

AdvanceCons(t) ==
    /\ At(t, "advance_cons")
    /\ cons_ptr' = IF prog.wraps /\ cons_ptr + 1 = SIZE THEN 0 ELSE cons_ptr + 1
    /\ Pass(t)
    /\ UNCHANGED <<sem, buffer, prod_ptr, alpha, puts, takes, mixed>>

\* service_1_svc of pc_last: the argument tells which service is meant.
ServiceOf(t) ==
    /\ At(t, "service")
    /\ LET steps == service_1_svc[thr[t].arg] IN
       thr' = [thr EXCEPT ![t].todo = IF steps = <<>> THEN <<>> ELSE steps \o Tail(@),
                          ![t].ops = thr[t].arg + 1]
    /\ UNCHANGED <<served, pcvars>>

PcStep(t) ==
    Start(t) \/ Stop(t) \/ Put(t) \/ AdvanceProd(t) \/ Take(t) \/ AdvanceCons(t) \/ ServiceOf(t)

PcTypeOK ==
    /\ sem \in [0 .. 2 -> Nat]
    /\ buffer \in [0 .. SIZE - 1 -> Letters \cup {NoLetter}]
    /\ prod_ptr \in 0 .. SIZE /\ cons_ptr \in 0 .. SIZE /\ alpha \in Letters
    /\ puts \in Seq(Letters) /\ takes \in Seq(Letters \cup {NoLetter})
    /\ mixed \in BOOLEAN
=============================================================================
