---------------------------- MODULE MCAgentSession ----------------------------
(* AgentSession with its bounds; the cfg gives the constants. *)
EXTENDS AgentSession
===============================================================================
