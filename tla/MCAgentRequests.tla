-------------------------- MODULE MCAgentRequests --------------------------
(* ---- Instances of AgentRequests for TLC ---- *)
EXTENDS AgentRequests

CONSTANTS c1, s1, s2

\* A window whose title says so is kept from agents.
MCRule == [t \in Titles |-> IF t = "secret" THEN "hidden" ELSE "visible"]

=============================================================================
