------------------------------ MODULE MCDrafts ------------------------------
(***************************************************************************)
(* Instances of Drafts for TLC.                                            *)
(***************************************************************************)
EXTENDS Drafts

CONSTANTS w1, w2, r1

TwoWritersOneReader == <<w1, w2, r1>>
=============================================================================
