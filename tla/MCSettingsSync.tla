--------------------------- MODULE MCSettingsSync ---------------------------
(* Small instances of SettingsSync for TLC. *)
EXTENDS SettingsSync

NoSkew == [p \in Peers |-> 0]
=============================================================================
