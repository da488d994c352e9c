------------------------------- MODULE MCRpc -------------------------------
(***************************************************************************)
(* Instances of RpcServers for TLC.  Clients and words are alike.          *)
(***************************************************************************)
EXTENDS RpcServers

\* The fewest with which calls of every kind meet.
Sent == [s \in Servers |-> IF s = "obakery" THEN 4 ELSE IF s \in {"pc", "dict_one"} THEN 3 ELSE 2]
Requests == [s \in Servers |-> IF s \in {"dict_threads", "dict_one"} THEN 3 ELSE 4]

Symmetry == Permutations(Clients) \cup Permutations(Words)
=============================================================================
