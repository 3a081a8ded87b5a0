---------------------------- MODULE MCAgentServe ----------------------------
(* Requests of three body frames, with a queue of one. *)
EXTENDS AgentServe
=============================================================================
