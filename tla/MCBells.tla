------------------------------ MODULE MCBells ------------------------------
(***************************************************************************)
(* Bells for TLC: one session whose rings, birth and end interleave with   *)
(* the handlers and with the poll cycle.                                   *)
(***************************************************************************)
EXTENDS Bells

CONSTANT s1
=============================================================================
