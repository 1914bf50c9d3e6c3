----------------------------- MODULE MCAgentTurn -----------------------------
(* AgentTurn on a small instance. *)
EXTENDS AgentTurn
=============================================================================
