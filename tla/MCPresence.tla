----------------------------- MODULE MCPresence -----------------------------
(* Presence for TLC: two names, two tmux servers after each other. *)
EXTENDS Presence, TLC

CONSTANTS a, b

EitherName == Permutations(Names)
=============================================================================
