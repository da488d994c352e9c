----------------------------- MODULE BakeryRpc -----------------------------
(***************************************************************************)
(* The bakeries without threads, obakery and obakery/old: the services are *)
(* called one after another, as often as a datagram comes.  No service     *)
(* clears a number.  choosing is 0 whenever a service begins, and the loop *)
(* of serve, which waits a second at most for each slot while nothing can  *)
(* change, changes nothing.  calc has no state.                            *)
(***************************************************************************)
EXTENDS SunRpc

VARIABLES
    numbers, number_last, index_last,
    num,   \* num of the static result of serve: 0, or -1
    given  \* the numbers given, in order (history)

bakeryvars == <<numbers, number_last, index_last, num, given>>

BakeryInit ==
    /\ numbers = [s \in Slots |-> 0]
    /\ number_last = 0 /\ index_last = 0 /\ num = 0
    /\ given = <<>>

\* Mutant: the last slot is not looked at.
max_number_short ==
    CHOOSE n \in {numbers[s] : s \in Slots} \cup {0} :
        \A s \in Slots \ {COUNT - 1} : numbers[s] <= n
max_number ==
    CHOOSE n \in {numbers[s] : s \in Slots} \cup {0} : \A s \in Slots : numbers[s] <= n

\* get_number_1_svc of either program, for its slot.
GivesNumber(ind) ==
    /\ numbers' = [numbers EXCEPT ![ind] = max_number + 1]
    /\ given' = Append(given, max_number + 1)

\* A slot for every call; past the end of the array nothing is modelled.
GetNumber(t) ==
    /\ At(t, "get_number") /\ index_last \in Slots
    /\ GivesNumber(index_last)
    /\ index_last' = index_last + 1
    /\ Does(t, "get_number")
    /\ UNCHANGED <<number_last, num>>

GetNumberOfInd(t) ==
    /\ At(t, "get_number_of_ind")
    /\ GivesNumber(thr[t].arg)
    /\ Does(t, "get_number_of_ind")
    /\ UNCHANGED <<number_last, index_last, num>>

\* A client that comes too late gets -1, and every client after it: nothing
\* sets num back.
ServeLate(t) ==
    /\ At(t, "serve") /\ numbers[thr[t].arg] < number_last
    /\ num' = -1
    /\ Does(t, "late")
    /\ UNCHANGED <<numbers, number_last, index_last, given>>

\* Mutant: the number is cleared, as in bakery/bakery_server.c 97.
ServeClearing(t) ==
    /\ At(t, "serve") /\ numbers[thr[t].arg] >= number_last
    /\ number_last' = numbers[thr[t].arg]
    /\ numbers' = [numbers EXCEPT ![thr[t].arg] = 0]
    /\ Does(t, IF num = -1 THEN "late" ELSE "serve")
    /\ UNCHANGED <<index_last, num, given>>
Serve(t) ==
    /\ At(t, "serve") /\ numbers[thr[t].arg] >= number_last
    /\ number_last' = numbers[thr[t].arg]
    /\ Does(t, IF num = -1 THEN "late" ELSE "serve")
    /\ UNCHANGED <<numbers, index_last, num, given>>

\* The services without state: serve of obakery/old, and calc.
Compute(t) ==
    /\ \E s \in {"compute", "calculator_proc"} : At(t, s) /\ Does(t, s)
    /\ UNCHANGED bakeryvars

BakeryStep(t) == GetNumber(t) \/ GetNumberOfInd(t) \/ ServeLate(t) \/ Serve(t) \/ Compute(t)

BakeryTypeOK ==
    /\ numbers \in [Slots -> Nat]
    /\ number_last \in Nat /\ index_last \in 0 .. COUNT /\ num \in {0, -1}
    /\ given \in Seq(Nat)
=============================================================================
