----------------------------- MODULE MCPruning ------------------------------
(* Pruning for TLC: two session names, in every key that can bear them. *)
EXTENDS Pruning

CONSTANTS x, y
=============================================================================
