------------------------------ MODULE MCBakery ------------------------------
(***************************************************************************)
(* Instances of Bakery for TLC: the clients of one run of the program, and *)
(* clients of two runs that use the same slots.                            *)
(***************************************************************************)
EXTENDS Bakery

\* Clients 1, 2 and 3 of one run.  Pids need not grow with the index.
OneRun == [c \in Clients |-> COUNT_CLIENTS - c]

\* Clients 1 and 2 of a first run and 3 of a second, on two slots.
TwoRuns == [c \in Clients |-> c % 2]
=============================================================================
