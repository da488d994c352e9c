------------------------- MODULE MCReadersWriters -------------------------
(***************************************************************************)
(* Instances of ReadersWriters for TLC.                                    *)
(***************************************************************************)
EXTENDS ReadersWriters
=============================================================================
