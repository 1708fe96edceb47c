---------------------------- MODULE MCAgentChat ----------------------------
(* AgentChat for TLC: up to three requests for a turn, up to two tool calls. *)
EXTENDS AgentChat
=============================================================================
