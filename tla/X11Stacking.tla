------------------------------ MODULE X11Stacking ------------------------------
(***************************************************************************)
(* The X11 backend's restacking.  The core keeps a stacking order and says *)
(* in what order the policy wants it; the window manager asks the server   *)
(* to restack frames and stores the result in the core.  The two orders    *)
(* meet only through the requests sent, and several handlers send none.    *)
(*                                                                         *)
(* One workspace is modelled.  Which client becomes focused is ClientSet's *)
(* subject: here it is any client that may be.  The frames of managed      *)
(* clients are the only windows restacked.                                 *)
(***************************************************************************)
EXTENDS PolicyStacking, SequencesExt

CONSTANT Shapes  \* the data each client may have
ASSUME ShapesAssumption == Shapes \in [Clients -> SUBSET Shape]

VARIABLES
  clients,   \* the managed clients, a map from identifier to Shape
  iconic,    \* those that are iconic
  focused,
  stacking,  \* ClientSet.stacking, bottom first
  server     \* the frames as the X server stacks them, bottom first

vars == <<clients, iconic, focused, stacking, server>>

Managed == DOMAIN clients
Usable == {c \in Managed \ iconic : clients[c].role \in {"Normal", "Dialog"}}

Init ==
  /\ clients = <<>>
  /\ iconic = {}
  /\ focused = NoClient
  /\ stacking = <<>>
  /\ server = <<>>

(* ---- ConfigureWindow ---- *)
Position(s, w) == CHOOSE i \in 1..Len(s) : s[i] = w
PlaceAbove(s, w, sibling) ==
  LET rest == Without(s, w) IN InsertAt(rest, Position(rest, sibling) + 1, w)
PlaceBelow(s, w, sibling) ==
  LET rest == Without(s, w) IN InsertAt(rest, Position(rest, sibling), w)

\* Where a client's own request may leave its frame: above or below a sibling
\* or the whole stack, or where it was (TopIf, BottomIf and Opposite depend on
\* what overlaps).
Configured(s, w) ==
  {s, MoveToEnd(s, w), MoveToFront(s, w)}
  \cup {PlaceAbove(s, w, d) : d \in Members(s) \ {w}}
  \cup {PlaceBelow(s, w, d) : d \in Members(s) \ {w}}

(***************************************************************************)
(* Enforcing the policy order.  A stack is the pair of orders a handler    *)
(* works on: what the core holds and what the server shows.                *)
(***************************************************************************)
Stack == [core |-> stacking, server |-> server]

\* layer_restack_requests: from the top down, each frame below the one above.
Restacked(s, order) ==
  LET top == Len(order)
      after[k \in 0..top] ==
        IF k = 0 THEN s
        ELSE IF k = 1 THEN MoveToEnd(s, order[top])
        ELSE PlaceBelow(after[k - 1], order[top - k + 1], order[top - k + 2])
  IN after[top]

\* enforce_layers
EnforceLayers(cs, focus, stack) ==
  LET order == PolicyOrder(cs, stack.core, focus)
  IN [core |-> order, server |-> Restacked(stack.server, order)]

\* Mutant: the frame is put below the client it should be above.
PlacedInOrderBelow(s, c, order) ==
  LET at == Position(order, c) IN
  IF at > 1 THEN PlaceBelow(s, c, order[at - 1])
  ELSE IF Len(order) > 1 THEN PlaceBelow(s, c, order[2])
  ELSE MoveToEnd(s, c)

\* The one request of enforce_client_layer's fast path.
PlacedInOrder(s, c, order) ==
  LET at == Position(order, c) IN
  IF at < Len(order) THEN PlaceBelow(s, c, order[at + 1])
  ELSE IF at > 1 THEN PlaceAbove(s, c, order[at - 1])
  ELSE MoveToEnd(s, c)

\* enforce_client_layer: one request when only this client is out of place.
EnforceClientLayer(cs, focus, stack, c) ==
  LET order == PolicyOrder(cs, stack.core, focus) IN
  IF Without(stack.core, c) = Without(order, c)
  THEN [core |-> order, server |-> PlacedInOrder(stack.server, c, order)]
  ELSE EnforceLayers(cs, focus, stack)

\* Mutant: the raise is not recorded before the order is computed.
RaiseUnrecorded(cs, focus, stack, c) == EnforceClientLayer(cs, focus, stack, c)

\* raise_within_layer, lower_within_layer
RaiseWithinLayer(cs, focus, stack, c) ==
  EnforceClientLayer(cs, focus, [stack EXCEPT !.core = MoveToEnd(@, c)], c)
LowerWithinLayer(cs, focus, stack, c) ==
  EnforceClientLayer(cs, focus, [stack EXCEPT !.core = MoveToFront(@, c)], c)

\* Mutant: only full coverage declared by the client counts.
FocusDependentFullscreenOnly(cs, focus, stack) ==
  IF \E c \in DOMAIN cs : cs[c].covering = "Fullscreen"
  THEN EnforceLayers(cs, focus, stack) ELSE stack

\* enforce_focus_dependent_layers
EnforceFocusDependent(cs, focus, stack) ==
  IF \E c \in DOMAIN cs : cs[c].covering # "No"
  THEN EnforceLayers(cs, focus, stack) ELSE stack

\* sync_stacking_from_server
SyncFromServer(stack) ==
  [stack EXCEPT !.core = Keep(stack.core, Clients \ Members(stack.server)) \o stack.server]

\* What focus_with_raise_policy leaves: the focus and the stack.
Focusing(cs, stack, target) ==
  {[focus |-> target, stack |-> RaiseWithinLayer(cs, target, stack, target)],
   [focus |-> target, stack |-> EnforceFocusDependent(cs, target, stack)]}

\* realize_cleared_x_focus and clear_observed_focus, from a known focus.
Clearing(cs, stack, previous) ==
  [focus |-> NoClient,
   stack |-> IF previous = NoClient THEN stack
             ELSE EnforceFocusDependent(cs, NoClient, stack)]

\* What unmanage and iconify do with the focus the core is left with: focus it
\* again, or clear the focus if it accepts no input or if there is none.
Settling(cs, stack, focus) ==
  {Clearing(cs, stack, focus)}
  \cup IF focus = NoClient THEN {} ELSE Focusing(cs, stack, focus)

Commit(cs, icons, focus, stack) ==
  /\ clients' = cs
  /\ iconic' = icons
  /\ focused' = focus
  /\ stacking' = stack.core
  /\ server' = stack.server

(* ---- Handlers ---- *)
\* manage: the frame is created on top; a client that starts fullscreen goes
\* through set_fullscreen; a restored one is put next to another.
Manage(c, shape) ==
  LET cs == [d \in Managed \cup {c} |-> IF d = c THEN shape ELSE clients[d]]
      new == [core |-> Append(stacking, c), server |-> Append(server, c)]
      shown == IF shape.covering = "Fullscreen" THEN EnforceLayers(cs, focused, new)
               ELSE new
      layered == EnforceClientLayer(cs, focused, shown, c)
      restored == {EnforceLayers(cs, focused, SyncFromServer([layered EXCEPT !.server = s])) :
                     s \in Configured(layered.server, c)}
  IN /\ c \notin Managed
     /\ shape.transientFor # c
     /\ \E stack \in {layered} \cup restored, icons \in {iconic, iconic \cup {c}} :
          Commit(cs, icons, focused, stack)

\* The focus ClientSet is left with when c leaves: somebody else's who can
\* take it, nobody's only if nobody can.
FocusWithout(c) ==
  IF focused # c THEN {focused}
  ELSE IF Usable \ {c} = {} THEN {NoClient} ELSE Usable \ {c}

\* unmanage: a client that was not focused leaves without any restacking.
Unmanage(c) ==
  LET cs == [d \in Managed \ {c} |->
               IF clients[d].transientFor = c
               THEN [clients[d] EXCEPT !.transientFor = NoTransient] ELSE clients[d]]
      left == [core |-> Without(stacking, c), server |-> Without(server, c)]
  IN /\ c \in Managed
     /\ IF focused # c THEN Commit(cs, iconic \ {c}, focused, left)
        ELSE \E focus \in FocusWithout(c) :
               \E settled \in Settling(cs, left, focus) :
                 Commit(cs, iconic \ {c}, settled.focus, settled.stack)

\* iconify ends by focusing the focused client again, whoever was iconified.
Iconify(c) ==
  /\ c \in Managed \ iconic
  /\ \E focus \in FocusWithout(c) : \E settled \in Settling(clients, Stack, focus) :
       Commit(clients, iconic \cup {c}, settled.focus, settled.stack)

Restore(c) ==
  /\ c \in iconic
  /\ Commit(clients, iconic \ {c}, focused, Stack)

\* focus_with_raise_policy, activate_focus_cycle_target and observe_focus.
Focus(target) ==
  /\ target \in Usable
  /\ \E settled \in Focusing(clients, Stack, target) :
       Commit(clients, iconic, settled.focus, settled.stack)

ClearFocus ==
  LET cleared == Clearing(clients, Stack, focused)
  IN /\ focused # NoClient
     /\ Commit(clients, iconic, NoClient, cleared.stack)

Raise(c) ==
  /\ c \in Managed
  /\ Commit(clients, iconic, focused, RaiseWithinLayer(clients, focused, Stack, c))

Lower(c) ==
  /\ c \in Managed
  /\ Commit(clients, iconic, focused, LowerWithinLayer(clients, focused, Stack, c))

\* configure_request with a stack mode, and _NET_RESTACK_WINDOW.
Restack(c) ==
  /\ c \in Managed
  /\ \E s \in Configured(server, c) :
       Commit(clients, iconic, focused,
              EnforceLayers(clients, focused, SyncFromServer([Stack EXCEPT !.server = s])))

\* A change of one client that is followed by enforce_layers.
Reshape(c, shape) ==
  LET cs == [clients EXCEPT ![c] = shape]
  IN /\ shape \in Shapes[c]
     /\ shape # clients[c]
     /\ Commit(cs, iconic, focused, EnforceLayers(cs, focused, Stack))

SetRelationships(c, parent, group) ==
  /\ c \in Managed
  /\ parent # c
  /\ Reshape(c, [clients[c] EXCEPT !.transientFor = parent, !.group = group])

SetLayer(c, layer) ==
  /\ c \in Managed
  /\ Reshape(c, [clients[c] EXCEPT !.layer = layer])

\* The monitors asked for may fill another output; leaving fullscreen restores a
\* geometry that may be elsewhere and may cover the output by itself.
SetFullscreen(c, fullscreen, output, coverage) ==
  /\ c \in Managed
  /\ fullscreen => clients[c].role \in {"Normal", "Dialog"}
  /\ fullscreen # (clients[c].covering = "Fullscreen")
  /\ Reshape(c, [clients[c] EXCEPT
                   !.covering = IF fullscreen THEN "Fullscreen" ELSE coverage,
                   !.output = output])

\* refresh_client_policy: a role that cannot be fullscreen ends fullscreen, one
\* that cannot be focused gives the focus up; the decorations decide whether
\* the geometry counts as coverage; then the layers are enforced.
SetPolicy(c, role, coverage) ==
  /\ c \in Managed
  /\ clients[c].role # role
  /\ LET plain == role \notin {"Normal", "Dialog"}
         wasFullscreen == clients[c].covering = "Fullscreen"
         shape == [clients[c] EXCEPT
                     !.role = role,
                     !.covering = IF wasFullscreen /\ ~plain THEN @
                                  ELSE IF role \in {"Desktop", "Dock"} THEN "No"
                                  ELSE coverage]
         before == [clients EXCEPT ![c].covering = coverage]
         after == [clients EXCEPT ![c] = shape]
         ended == IF wasFullscreen /\ plain THEN EnforceLayers(before, focused, Stack)
                  ELSE Stack
         settled == IF focused = c /\ plain THEN Clearing(after, ended, c)
                    ELSE [focus |-> focused, stack |-> ended]
     IN /\ shape \in Shapes[c]
        /\ Commit(after, iconic, settled.focus,
                  EnforceLayers(after, settled.focus, settled.stack))

\* configure_managed_geometry, finish_drag, cancel_drag: the geometry decides
\* the output and the coverage; only a change of coverage is followed up.
MoveTo(c, output, coverage) ==
  LET cs == [clients EXCEPT ![c].output = output, ![c].covering = coverage]
      covered(d) == IF d.covering = "No" THEN {} ELSE {d.output}
      changed == covered(clients[c]) # covered(cs[c])
  IN /\ c \in Managed
     /\ clients[c].covering # "Fullscreen"
     /\ cs[c] \in Shapes[c] /\ cs # clients
     /\ Commit(cs, iconic, focused,
               IF changed THEN EnforceLayers(cs, focused, Stack) ELSE Stack)

\* net_wm_fullscreen_monitors of a client that is fullscreen, and a drag that was
\* under way when it became so: the geometry goes to another output, and set_fullscreen,
\* which changes nothing else then, restacks nothing.
MoveFullscreen(c, output) ==
  LET cs == [clients EXCEPT ![c].output = output]
  IN /\ c \in Managed
     /\ clients[c].covering = "Fullscreen"
     /\ cs[c] \in Shapes[c] /\ cs # clients
     /\ Commit(cs, iconic, focused, Stack)

ClientStep ==
  \E c \in Clients :
    \/ \E shape \in Shapes[c] : Manage(c, shape)
    \/ Unmanage(c) \/ Iconify(c) \/ Restore(c) \/ Focus(c)
    \/ Raise(c) \/ Lower(c) \/ Restack(c)

ShapeStep ==
  \E c \in Clients, coverage \in {"No", "Coverage"} : \E s \in Shapes[c] :
    \/ SetRelationships(c, s.transientFor, s.group)
    \/ SetLayer(c, s.layer)
    \/ SetPolicy(c, s.role, coverage)
    \/ \E b \in BOOLEAN : SetFullscreen(c, b, s.output, coverage)
    \/ MoveTo(c, s.output, coverage)
    \/ MoveFullscreen(c, s.output)

Next == ClientStep \/ ShapeStep \/ ClearFocus

Spec == Init /\ [][Next]_vars

(* ---- Safety ---- *)
\* The core's order is the server's, although one is computed and the other is
\* built request by request, most of the time by the single request of
\* enforce_client_layer, and although the policy may already be out of date.
ServerAgrees ==
  /\ Enumerates(stacking, Managed)
  /\ server = stacking

IsSettled(cs, order, focus) == order = PolicyOrder(cs, order, focus)
Settled == IsSettled(clients, stacking, focused)

\* The clients of its own layer that a client has to be above.
Demands(cs, focus, c) ==
  {d \in DOMAIN cs : /\ EffectiveLayer(cs, focus, d) = EffectiveLayer(cs, focus, c)
                     /\ d = cs[c].transientFor \/ d \in GroupMembers(cs, c)}
\* No client has to be above itself through others: the demands can all be met.
Orderable(cs, focus) ==
  \A S \in (SUBSET DOMAIN cs) \ {{}} : \E c \in S : Demands(cs, focus, c) \cap S = {}

\* If the demands can be met in the next state, it is settled.  The next state's
\* values are evaluated once.
SettledNext ==
  \E cs \in {clients'}, order \in {stacking'}, focus \in {focused'} :
    Orderable(cs, focus) => IsSettled(cs, order, focus)

\* Once the stack is as the policy wants it, every handler leaves it so, if the
\* demands can be met at all (transient relationships may be cyclic): what it
\* enforces covers what it changed, and enforcing twice changes nothing.
\* The exceptions restack nothing although the policy may ask for it: a client
\* that leaves, the last usable client iconified, a client that covers no output
\* moved to another one, and a fullscreen client sent to another one.
SettledKept == Settled => SettledNext
LeavesStack ==
  \E c \in Managed :
    \/ Unmanage(c)
    \/ Iconify(c) /\ focused = c /\ Usable = {c}
    \/ \E s \in Shapes[c] : clients[c].covering = "No" /\ MoveTo(c, s.output, "No")
    \/ \E s \in Shapes[c] : MoveFullscreen(c, s.output)
StackStaysSettled == [][SettledKept \/ LeavesStack]_vars

Layer(c) == EffectiveLayer(clients, focused, c)
Above(s, c, d) == Position(s, c) > Position(s, d)

ParentsBelow ==
  Settled =>
    \A c \in Managed :
      clients[c].transientFor \in Managed => Above(stacking, c, clients[c].transientFor)

GroupTransientsAbove ==
  Settled =>
    \A c, d \in Managed :
      /\ c # d
      /\ clients[c].transientFor = GroupTransient /\ clients[d].transientFor # GroupTransient
      /\ clients[c].group = clients[d].group /\ clients[c].group # NoGroup
      /\ clients[d].role \in {"Normal", "Dialog"} /\ ~DescendsFrom(clients, c, d)
      /\ Layer(c) = Layer(d)
      => Above(stacking, c, d)

\* In a settled stack a client is above its parent, whatever their layers, coverage
\* and order of arrival, so that relationships that form a cycle leave no stack
\* settled; and a group transient is above the ordinary members of its group that are
\* in its layer and no dialogs of its own (policy_stacking).
FamiliesStacked == ParentsBelow /\ GroupTransientsAbove

RaisedToTop(c) ==
  LET raised == RaiseWithinLayer(clients, focused, Stack, c).server
  IN \A d \in Managed \ {c} : Above(raised, d, c) => Layer(d) > Layer(c)

\* Raising a client that nobody has to be above (no transient, no helper of its
\* group) puts it above every client of its layer, whatever the other clients'
\* relationships are.
RaiseLeafReachesTop ==
  \A c \in Managed :
    (\A d \in Managed : c \notin Demands(clients, focused, d)) => RaisedToTop(c)
===============================================================================
