---------------------------- MODULE MCAgentLoop ----------------------------
(* Instances of AgentLoop for TLC: the constants are given in the cfg files. *)
EXTENDS AgentLoop
=============================================================================
