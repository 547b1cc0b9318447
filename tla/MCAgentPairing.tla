----------------------------- MODULE MCAgentPairing -----------------------------
(* Instances of AgentPairing for TLC. *)
EXTENDS AgentPairing
=============================================================================
