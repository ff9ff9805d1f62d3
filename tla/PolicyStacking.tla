---------------------------- MODULE PolicyStacking ----------------------------
(***************************************************************************)
(* nobox_core's stacking policy: the layer each client belongs to and the  *)
(* bottom-to-top order ClientSet::policy_stacking derives from a stacking  *)
(* order.  Everything here is a function of three values:                  *)
(*   cs     the managed clients, a map from identifier to record;          *)
(*   order  a stacking order that lists them, bottom first;                *)
(*   focus  the focused client, or NoClient.                               *)
(* The clients are on the current workspace.                               *)
(***************************************************************************)
EXTENDS UniqueSeqs

CONSTANTS
  Clients, Groups, Outputs,
  NoClient, NoTransient, GroupTransient, NoGroup

ASSUME StackingSentinels ==
  /\ NoClient \notin Clients
  /\ NoTransient \notin Clients /\ GroupTransient \notin Clients
  /\ NoGroup \notin Groups

\* StackingLayer, bottom first.
DesktopLayer == 1
BelowLayer == 2
NormalLayer == 3
DockLayer == 4
AboveLayer == 5
FullscreenLayer == 6

\* What the policy reads of a client.  `covering` is how it covers its output:
\* as a fullscreen client, by legacy coverage, or not at all.
Shape ==
  [transientFor : Clients \cup {NoTransient, GroupTransient},
   group : Groups \cup {NoGroup},
   role : {"Normal", "Dialog", "Desktop", "Dock", "Splash"},
   layer : {"Below", "Normal", "Above"},
   covering : {"No", "Fullscreen", "Coverage"},
   output : Outputs]

\* The chain of specific parents of a client, once around a cycle: the least set that
\* holds the client's parent and the parents of its members.
FollowsParents(cs, S, c) ==
  \A d \in {c} \cup S : cs[d].transientFor \in DOMAIN cs => cs[d].transientFor \in S
Ancestors(cs, c) ==
  {a \in DOMAIN cs : \A S \in SUBSET DOMAIN cs : FollowsParents(cs, S, c) => a \in S}

\* is_self_or_specific_descendant
DescendsFrom(cs, ancestor, c) == c = ancestor \/ ancestor \in Ancestors(cs, c)

BaseLayer(client) ==
  CASE client.role = "Desktop" -> DesktopLayer
    [] client.role = "Dock" /\ client.layer = "Normal" -> DockLayer
    [] OTHER -> CASE client.layer = "Below" -> BelowLayer
                  [] client.layer = "Normal" -> NormalLayer
                  [] client.layer = "Above" -> AboveLayer

\* fullscreen_layer_is_active, output_coverage_is_active: a covering client
\* keeps its output unless another client has the focus there.
KeepsOutput(cs, focus, c) ==
  \/ focus = NoClient
  \/ DescendsFrom(cs, c, focus)
  \/ cs[focus].output # cs[c].output

\* client_stacking_layer_of
OwnLayer(cs, focus, c) ==
  IF /\ \/ cs[c].covering = "Fullscreen"
        \/ cs[c].covering = "Coverage" /\ cs[c].role \notin {"Desktop", "Dock"}
     /\ KeepsOutput(cs, focus, c)
  THEN FullscreenLayer
  ELSE BaseLayer(cs[c])

\* effective_stacking_layer: a client is never in a lower layer than one of
\* its specific parents.
EffectiveLayer(cs, focus, c) ==
  LET layers == {OwnLayer(cs, focus, d) : d \in {c} \cup Ancestors(cs, c)}
  IN CHOOSE l \in layers : \A k \in layers : k <= l

\* The ordinary members of its group a group transient goes above.
GroupMembers(cs, c) ==
  IF cs[c].transientFor = GroupTransient /\ cs[c].group # NoGroup
  THEN {d \in (DOMAIN cs) \ {c} : /\ cs[d].group = cs[c].group
                                /\ cs[d].transientFor # GroupTransient
                                /\ cs[d].role \notin {"Desktop", "Dock", "Splash"}
                                /\ ~DescendsFrom(cs, c, d)}
  ELSE {}

\* effective_layer_table: every client with its layer, computed once.
LayerTable(cs, focus) == {<<c, EffectiveLayer(cs, focus, c)>> : c \in DOMAIN cs}

\* Mutant: a client is placed without regard to its parent.
PlacedBeforeGroupOnly(cs, order, layer, c) ==
  Keep(order, GroupMembers(cs, c) \cap layer)

\* What visit_stacking_parent places before a client: the members of its layer
\* it has to be above.
PlacedBefore(cs, order, layer, c) ==
  Keep(order, GroupMembers(cs, c) \cap layer)
  \o (IF cs[c].transientFor \in layer THEN <<cs[c].transientFor>> ELSE <<>>)

\* One layer of policy_stacking.  The function place takes the clients to visit in turn
\* and those visited already; each client comes after what has to be below it.
PlaceLayer(cs, order, layer) ==
  LET place[work \in Seq(layer) \X SUBSET layer] ==
        LET pending == work[1]
            visited == work[2]
            c == Head(pending)
            below == place[<<PlacedBefore(cs, order, layer, c), visited \cup {c}>>]
            placed == Append(below, c)
        IN IF pending = <<>> THEN <<>>
           ELSE IF c \in visited THEN place[<<Tail(pending), visited>>]
           ELSE placed \o place[<<Tail(pending), visited \cup Members(placed)>>]
  IN place[<<Keep(order, layer), {}>>]

\* policy_stacking
PolicyOrder(cs, order, focus) ==
  LET table == LayerTable(cs, focus)
      placed(l) == PlaceLayer(cs, order, {c \in DOMAIN cs : <<c, l>> \in table})
  IN placed(DesktopLayer) \o placed(BelowLayer) \o placed(NormalLayer)
     \o placed(DockLayer) \o placed(AboveLayer) \o placed(FullscreenLayer)
===============================================================================
