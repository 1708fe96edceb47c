---------------------------- MODULE MCFederation ----------------------------
(* Federation for TLC: a session name, two requests at a time. *)
EXTENDS Federation

CONSTANTS x, c1, c2
=============================================================================
