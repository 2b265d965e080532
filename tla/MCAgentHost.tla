---------------------------- MODULE MCAgentHost ----------------------------
(* Small instances of AgentHost for TLC. *)
EXTENDS AgentHost, TLC

CONSTANTS b1, b2, c1, c2
=============================================================================
