------------------------------ MODULE MCWinRW ------------------------------
(***************************************************************************)
(* Instances of WinRW for TLC.  No symmetry: the run checks liveness.      *)
(***************************************************************************)
EXTENDS WinRW, TLC
=============================================================================
