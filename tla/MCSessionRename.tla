-------------------------- MODULE MCSessionRename --------------------------
(* Small instances of SessionRename for TLC. *)
EXTENDS SessionRename, TLC

Symmetry == Permutations(Names) \cup Permutations(Sessions)
=============================================================================
