---------------------------- MODULE MCSyncGroups ----------------------------
(* Small instances of SyncGroups for TLC. *)
EXTENDS SyncGroups, TLC

Symmetry == Permutations(Devices) \cup Permutations(Sessions)
=============================================================================
