------------------------------ MODULE MCClientSet ------------------------------
(* Instances of ClientSet for TLC. *)
EXTENDS ClientSet

CONSTANTS c1, c2, c3, g

TwoClients == <<c1, c2>>
ThreeClients == <<c1, c2, c3>>

NormalClient == [role |-> "Normal", focusable |-> TRUE, titlebar |-> FALSE]
DockClient == [role |-> "Dock", focusable |-> FALSE, titlebar |-> FALSE]
FramedClient == [role |-> "Normal", focusable |-> TRUE, titlebar |-> TRUE]
OneRole == {NormalClient}
TwoRoles == {FramedClient, DockClient}

Ordinary == [skipTaskbar |-> FALSE, urgent |-> FALSE]
Skipped == [skipTaskbar |-> TRUE, urgent |-> FALSE]
AllOrdinary == {Ordinary}
OrdinaryOrSkipped == {Ordinary, Skipped}

Unrelated == [transientFor |-> NoTransient, group |-> NoGroup, modal |-> FALSE]
DialogOf(c) == [transientFor |-> c, group |-> NoGroup, modal |-> TRUE]
NoRelations == {Unrelated}
TreeRelations == {[Unrelated EXCEPT !.modal = TRUE], DialogOf(c1), DialogOf(c2)}

OneWorkspace == {0}
EndsOrAll == {0, MaxWorkspaces - 1, AllWorkspaces}
PartialReports == {<<c2, c1, c2>>}
===============================================================================
