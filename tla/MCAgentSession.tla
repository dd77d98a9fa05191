--------------------------- MODULE MCAgentSession ---------------------------
(* Instances of AgentSession: two tunnels, one of them with a reserved     *)
(* name, and up to two session losses.                                     *)
EXTENDS AgentSession
=============================================================================
