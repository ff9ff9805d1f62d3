---------------------------- MODULE MCAgentSeat ----------------------------
(* ---- Instances of AgentSeat for TLC ---- *)
EXTENDS AgentSeat

MCConnections == 1..2

=============================================================================
