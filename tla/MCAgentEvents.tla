--------------------------- MODULE MCAgentEvents ---------------------------
(* ---- Instances of AgentEvents for TLC ---- *)
EXTENDS AgentEvents

CONSTANTS c1, s1

\* A window whose title says so is kept from agents.
MCRule == [t \in Titles |-> CASE t = "secret" -> "hidden" [] t = "private" -> "redacted" [] OTHER -> "visible"]

Trusted == Deal(Unscoped(Capabilities), Clients)

Narrow == Deal(Scoped({"observe", "manage"}), {c1})

Nothing == Deal(Denied, Clients)

MCDeals == {Trusted, Narrow, Nothing}

=============================================================================
