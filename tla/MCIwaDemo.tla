----------------------------- MODULE MCIwaDemo -----------------------------
(***************************************************************************)
(* The instance of IwaDemo for TLC: the demo circle has two members.       *)
(***************************************************************************)
EXTENDS IwaDemo

CONSTANTS A, B

TwoInOrder == <<A, B>>
=============================================================================
