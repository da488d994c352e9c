------------------------------ MODULE DictRpc ------------------------------
(***************************************************************************)
(* The dictionary of threads_rpc: an array and a counter, changed by the   *)
(* threads of one server without a lock, or by a server without threads.   *)
(***************************************************************************)
EXTENDS SunRpc

CONSTANT DICTSIZ

ASSUME DictRpcAssumption == DICTSIZ \in Nat

VARIABLES
    dict, nwords,
    ret,         \* the last call with its result, and the bag of words
    before,      \* before it, both as long as no calls
    overlapped   \* have overlapped (history)

dictvars == <<dict, nwords, ret, before, overlapped>>

\* What a server writes outside of the array is not modelled.
Places == 0 .. DICTSIZ - 1

Bag == [w \in Words |-> Cardinality({x \in Places : x < nwords /\ dict[x] = w})]

\* Between the first and the last step of a call.
Within == {t \in DOMAIN thr : \E s \in {"load_inc", "store_inc", "load_dec", "store_dec", "move"} : At(t, s)}

DictInit ==
    /\ dict = [x \in Places |-> 0]
    /\ nwords = 0
    /\ ret = [call |-> "none", word |-> 0, result |-> 0]
    /\ before = Bag
    /\ overlapped = FALSE

Begins ==
    /\ overlapped' = (overlapped \/ Within # {})
    /\ before' = IF overlapped' THEN before ELSE Bag
Returns(t, call, v) ==
    /\ Does(t, call)
    /\ ret' = IF overlapped' THEN ret
              ELSE [call |-> call, word |-> thr[t].arg, result |-> v]

Initw(t) ==
    /\ At(t, "initw")
    /\ Begins /\ Returns(t, "initw", 1)
    /\ nwords' = 0
    /\ UNCHANGED dict

\* insertw: strcpy(dict[nwords],word); nwords++; return nwords
Strcpy(t) ==
    /\ At(t, "strcpy") /\ nwords \in Places
    /\ Begins
    /\ dict' = [dict EXCEPT ![nwords] = thr[t].arg]
    /\ Pass(t)
    /\ UNCHANGED <<nwords, ret>>

\* nwords++ and nwords-- are a load and a store.
Load(t) ==
    /\ At(t, "load_inc") \/ At(t, "load_dec")
    /\ thr' = [thr EXCEPT ![t].todo = Tail(@), ![t].reg = nwords]
    /\ UNCHANGED <<served, dictvars>>

StoreInc(t) ==
    /\ At(t, "store_inc")
    /\ nwords' = thr[t].reg + 1
    /\ overlapped' = overlapped /\ Returns(t, "insertw", IF nwords' > 0 THEN 1 ELSE 0)
    /\ UNCHANGED <<dict, before>>

\* deletew: the search, nwords--, and strcpy(dict[i],dict[nwords])
Found(w) == {x \in Places : x < nwords /\ dict[x] = w}

Scan(t) ==
    /\ At(t, "scan") /\ Found(thr[t].arg) # {}
    /\ Begins
    /\ thr' = [thr EXCEPT ![t].todo = Tail(@), ![t].i = Min(Found(thr[t].arg))]
    /\ UNCHANGED <<served, dict, nwords, ret>>

NotFound(t) ==
    /\ At(t, "scan") /\ Found(thr[t].arg) = {}
    /\ Begins
    /\ thr' = [thr EXCEPT ![t].todo = <<"reply">>, ![t].did = "deletew"]
    /\ ret' = IF overlapped' THEN ret ELSE [call |-> "deletew", word |-> thr[t].arg, result |-> 0]
    /\ UNCHANGED <<served, dict, nwords>>

StoreDec(t) ==
    /\ At(t, "store_dec")
    /\ nwords' = thr[t].reg - 1
    /\ Pass(t)
    /\ UNCHANGED <<dict, ret, before, overlapped>>

Move(t) ==
    /\ At(t, "move") /\ nwords \in Places
    /\ dict' = [dict EXCEPT ![thr[t].i] = dict[nwords]]
    /\ overlapped' = overlapped /\ Returns(t, "deletew", 1)
    /\ UNCHANGED <<nwords, before>>

Lookupw(t) ==
    /\ At(t, "lookupw")
    /\ Begins /\ Returns(t, "lookupw", IF Found(thr[t].arg) # {} THEN 1 ELSE 0)
    /\ UNCHANGED <<dict, nwords>>

DictStep(t) ==
    Initw(t) \/ Strcpy(t) \/ Load(t) \/ StoreInc(t) \/ Scan(t) \/ NotFound(t) \/ StoreDec(t) \/ Move(t) \/ Lookupw(t)

DictTypeOK ==
    /\ dict \in [Places -> Words \cup {0}]
    /\ nwords \in Int
    /\ ret.word \in Words \cup {0} /\ ret.result \in {0, 1} /\ before \in [Words -> Nat] /\ overlapped \in BOOLEAN
=============================================================================
