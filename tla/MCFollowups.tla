---------------------------- MODULE MCFollowups ----------------------------
(* Small instances of Followups for TLC. *)
EXTENDS Followups, TLC

Symmetry == Permutations(Clients) \cup Permutations(Bells)
=============================================================================
