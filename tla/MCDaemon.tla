------------------------------ MODULE MCDaemon ------------------------------
(***************************************************************************)
(* Instances of Daemon for TLC: d1 and d2 are copies of one program.       *)
(***************************************************************************)
EXTENDS Daemon
=============================================================================
