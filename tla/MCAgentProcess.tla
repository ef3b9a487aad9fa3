--------------------------- MODULE MCAgentProcess ---------------------------
(* TLC instance of AgentProcess: a short backoff schedule. *)
EXTENDS AgentProcess

MCSteps == <<0, 1, 2>>
=============================================================================
