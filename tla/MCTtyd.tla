------------------------------ MODULE MCTtyd ------------------------------
(* Small instances of Ttyd for TLC. *)
EXTENDS Ttyd, TLC

CONSTANTS s1, s2, h1, h2

OwnPaths == [s \in Sessions |-> IF s = s1 THEN h1 ELSE h2]
OnePath  == [s \in Sessions |-> h1]

Symmetry == Permutations(Procs) \cup Permutations(Tasks)
=============================================================================
