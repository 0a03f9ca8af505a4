----------------------------- MODULE MCAgentRun -----------------------------
(* The agent with two turns of up to two calls. *)
EXTENDS AgentRun
=============================================================================
