---------------------------- MODULE MCProdCons ----------------------------
(***************************************************************************)
(* Instances of ProdCons for TLC.  Producers are interchangeable, and so   *)
(* are consumers.                                                          *)
(***************************************************************************)
EXTENDS ProdCons, TLC

Symmetry == Permutations(Producers) \cup Permutations(Consumers)
=============================================================================
