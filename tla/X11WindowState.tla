----------------------------- MODULE X11WindowState -----------------------------
(***************************************************************************)
(* One managed X11 client between the requests that change how it is shown *)
(* (shading, maximizing, fullscreen, decorations, policy, geometry), the   *)
(* interactive move or resize under way, and the outputs and work areas    *)
(* it has to fit.  One action per request, event or timer; each composes   *)
(* the ClientSet methods of WindowPresentation as the handler does.        *)
(*                                                                         *)
(* A span says on which output it lies and how long it is: a free length,  *)
(* or the one that fits that output's work area less the strut and the     *)
(* frame it had when it was computed.  A free vertical span lies on every  *)
(* output.  Size hints, FULLSCREEN_MONITORS requests, visibility and the   *)
(* work areas of other workspaces are left out.                            *)
(***************************************************************************)
EXTENDS WindowPresentation, FiniteSets

CONSTANTS
  Outputs,   \* the outputs that may be connected
  Lengths,   \* the lengths clients and users ask for, for each axis
  Fitted,    \* a length computed from the work area
  Policies,  \* the policies hints and rules may give: [role, natural]
  Drags,     \* the kinds of drag in use: [keyboard, sync]
  NoOutput, NoDrag,
  Omitted    \* a state an agent's request does not name

ASSUME OutputsAssumption == NoOutput \notin Outputs /\ Outputs # {}
ASSUME PoliciesAssumption ==
  /\ Policies \subseteq [role : Roles, natural : BOOLEAN]
  /\ \A p \in Policies : p.natural => CanDecorate(p.role)
ASSUME DragsAssumption == Drags \subseteq [keyboard : BOOLEAN, sync : {"None", "Ready"}]
ASSUME LengthsAssumption ==
  \A a \in Axes : Lengths[a] # {} /\ Fitted \notin Lengths[a]

Span(at, length, strut, framed) ==
  [at |-> at, length |-> length, strut |-> strut, framed |-> framed]
Spans == [at : Outputs \cup {NoOutput},
          length : (UNION {Lengths[a] : a \in Axes}) \cup {Fitted},
          strut : BOOLEAN, framed : BOOLEAN]
Geometries == [Axes -> Spans]

\* The geometries asked for: positions on these outputs, in any free size.
FreeSpans(axis, outputs) ==
  {s \in Spans : /\ s.at \in IF axis = "horizontal" THEN outputs ELSE {NoOutput}
                 /\ s.length \in Lengths[axis]
                 /\ ~s.strut /\ ~s.framed}
FreeGeometries(outputs) ==
  {g \in [Axes -> UNION {FreeSpans(a, outputs) : a \in Axes}] :
     \A a \in Axes : g[a] \in FreeSpans(a, outputs)}

VARIABLES
  window,  \* [client, framed, drag]: the core's client, whether its frame has
           \* extents, and the interactive operation under way
  area     \* [outputs, strut]: the connected outputs, and whether a panel
           \* reserves space at the top of them

vars == <<window, area>>
client == window.client
drag == window.drag

\* sync: the client is not paced, paced and ready, or has a frame to paint;
\* pending: the geometry that waits until it has.
DragType ==
  [keyboard : BOOLEAN, initial : Geometries,
   sync : {"None", "Ready", "Waiting"}, pending : Geometries \cup {NoGeometry}]

ASSUME SentinelsAssumption == NoGeometry \notin Geometries /\ NoDrag \notin DragType

TypeOK ==
  /\ client \in PresentationOf(Geometries)
  /\ (client.restore = NoGeometry) = (client.maximized = {})
  /\ client.natural => CanDecorate(client.role)
  /\ window.framed \in BOOLEAN
  /\ drag \in DragType \cup {NoDrag}
  /\ drag # NoDrag /\ drag.sync # "Waiting" => drag.pending = NoGeometry
  /\ area \in [outputs : (SUBSET Outputs) \ {{}}, strut : BOOLEAN]

(* ---- Outputs and work areas ---- *)
\* output_for: the output a geometry is on, else the nearest one.
OutputFor(g, outputs) ==
  IF g["horizontal"].at \in outputs THEN g["horizontal"].at
  ELSE CHOOSE o \in outputs : TRUE

\* The whole output, and available_geometry: its work area less the frame.
FullOutput(g, outputs) ==
  [a \in Axes |-> Span(OutputFor(g, outputs), Fitted, FALSE, FALSE)]
Available(w, place) ==
  [a \in Axes |-> Span(OutputFor(w.client.geometry, place.outputs), Fitted,
                       a = "vertical" /\ place.strut, w.framed)]

(* ---- The handlers, on a window w in a place ---- *)
Maximize(w, axes, place) ==
  [w EXCEPT !.client = SetMaximized(@, axes, Available(w, place))]

\* reflow_maximized_clients
Refit(w, place) ==
  IF w.client.maximized = {} THEN w ELSE Maximize(w, w.client.maximized, place)

\* Mutant: a maximized client is not fitted to its new frame.
ApplyFramePolicyUnfitted(w, place) ==
  [w EXCEPT !.framed = Decorated(w.client) /\ ~IsFullscreen(w.client)]

\* apply_frame_policy: a fullscreen client has no frame; a maximized one is
\* fitted to its new frame.
ApplyFramePolicy(w, place) ==
  LET framed == [w EXCEPT !.framed = Decorated(w.client) /\ ~IsFullscreen(w.client)]
  IN IF IsFullscreen(w.client) THEN framed ELSE Refit(framed, place)

\* finish_drag: a geometry that still waits is applied.
FinishDrag(w) ==
  IF w.drag = NoDrag THEN w
  ELSE [w EXCEPT !.drag = NoDrag,
                 !.client = IF w.drag.pending = NoGeometry THEN @
                            ELSE SetGeometry(@, w.drag.pending)]

CancelDrag(w) ==
  IF w.drag = NoDrag THEN w
  ELSE [w EXCEPT !.drag = NoDrag, !.client = SetGeometry(@, w.drag.initial)]

\* set_shaded ends a drag before it changes anything.
Shade(w, shaded) ==
  IF w.client.shaded = shaded \/ (shaded /\ ~Shadeable(w.client)) THEN w
  ELSE [FinishDrag(w) EXCEPT !.client = SetShaded(@, shaded)]

\* Mutant: the frame stays as it was.
SwitchFullscreenUnframed(w, fullscreen, place) ==
  [w EXCEPT !.client =
     SetFullscreen(@, fullscreen, FullOutput(w.client.geometry, place.outputs))]

\* The part of set_fullscreen after the client has been unshaded.
SwitchFullscreen(w, fullscreen, place) ==
  LET output == FullOutput(w.client.geometry, place.outputs)
      switched == [w EXCEPT !.client = SetFullscreen(@, fullscreen, output)]
  IN IF IsFullscreen(switched.client) = IsFullscreen(w.client) THEN switched
     ELSE ApplyFramePolicy(switched, place)

\* set_fullscreen
Fullscreen(w, fullscreen, place) ==
  SwitchFullscreen(IF fullscreen THEN Shade(w, FALSE) ELSE w, fullscreen, place)

\* apply_decoration_override and ToggleDecorations unshade before they change
\* the preference.
Prefer(w, preference, place) ==
  IF ~Decoratable(w.client) \/ w.client.preference = preference THEN w
  ELSE ApplyFramePolicy([Shade(w, FALSE) EXCEPT !.client.preference = preference], place)

\* refresh_client_policy gives up what the new policy does not allow, before
\* the policy replaces the old one.
RefreshPolicy(w, role, natural, place) ==
  LET unmaximized == IF ~CanFill(role) THEN Maximize(w, {}, place) ELSE w
      windowed == IF ~CanFill(role) THEN Fullscreen(unmaximized, FALSE, place)
                  ELSE unmaximized
      unshaded == IF ~natural THEN Shade(windowed, FALSE) ELSE windowed
      changed == [unshaded EXCEPT !.client = SetPolicy(@, role, natural)]
  IN IF changed = unshaded THEN unshaded ELSE ApplyFramePolicy(changed, place)

\* configure_managed_geometry: the axes that are held ignore the request.
Held(c) == IF IsFullscreen(c) THEN Axes ELSE c.maximized
Configure(w, axes, g) ==
  [w EXCEPT !.client = SetGeometry(@, Replace(@.geometry, axes \ Held(@), g))]

\* apply_drag_geometry, for a drag under way: a motion that changes nothing is
\* ignored, a client that is still painting gets it later.
ApplyDragGeometry(w, g) ==
  CASE w.client.geometry = g -> w
    [] w.client.geometry # g /\ w.drag.sync = "Waiting" -> [w EXCEPT !.drag.pending = g]
    [] w.client.geometry # g /\ w.drag.sync # "Waiting" ->
         [w EXCEPT !.client = SetGeometry(@, g),
                   !.drag.sync = IF @ = "Ready" THEN "Waiting" ELSE @]

\* The end of sync_alarm_notify and sync_resize_timeout: pacing goes on or is
\* given up, and the geometry that waited is applied.
\* Mutant: it is forgotten.
ResumeForgetful(w, sync) == [w EXCEPT !.drag.sync = sync, !.drag.pending = NoGeometry]
Resume(w, sync) ==
  LET resumed == [w EXCEPT !.drag.sync = sync, !.drag.pending = NoGeometry]
  IN IF w.drag.pending = NoGeometry THEN resumed
     ELSE ApplyDragGeometry(resumed, w.drag.pending)

\* rehome_clients_without_output
Rehome(w, place) ==
  LET c == w.client
      home == [c.geometry EXCEPT !["horizontal"].at = OutputFor(c.geometry, place.outputs)]
  IN IF Held(c) # {} THEN w ELSE [w EXCEPT !.client = SetGeometry(@, home)]

\* The reaction of refresh_outputs, once the work areas have changed.
Arrange(w, place) ==
  LET homed == Rehome(Refit(w, place), place)
  IN IF IsFullscreen(homed.client) THEN Fullscreen(homed, TRUE, place) ELSE homed

(***************************************************************************)
(* Initial states: manage, with the states the client or its session asks  *)
(* for applied in this order.                                              *)
(***************************************************************************)
NewWindow(g, policy, preference) ==
  LET c == [geometry |-> g, maximized |-> {}, restore |-> NoGeometry,
            fullscreen |-> NoGeometry, shaded |-> FALSE, role |-> policy.role,
            natural |-> policy.natural, preference |-> preference]
  IN [client |-> c, framed |-> Decorated(c), drag |-> NoDrag]

Manage(w, shaded, axes, fullscreen, place) ==
  LET drawn == IF shaded /\ ~fullscreen THEN Shade(w, TRUE) ELSE w
      filled == IF axes # {} THEN Maximize(drawn, axes, place) ELSE drawn
  IN IF fullscreen THEN Fullscreen(filled, TRUE, place) ELSE filled

Init ==
  /\ area \in [outputs : (SUBSET Outputs) \ {{}}, strut : BOOLEAN]
  /\ \E g \in FreeGeometries(area.outputs), policy \in Policies,
        preference \in Preferences, shaded, fullscreen \in BOOLEAN, axes \in SUBSET Axes :
       window = Manage(NewWindow(g, policy, preference), shaded, axes, fullscreen, area)

(***************************************************************************)
(* Requests.  They come from key and mouse bindings, from pagers and from  *)
(* the client itself, whether or not a drag is under way: the grabs of a   *)
(* drag hold back neither client messages nor the actions that follow it   *)
(* in the same binding.                                                    *)
(***************************************************************************)
SetShadedRequest(shaded) ==
  /\ window' = Shade(window, shaded)
  /\ UNCHANGED area

\* set_maximize_direction, toggle_full_maximize and toggle_maximize_axis.
SetMaximizedRequest(axes) ==
  /\ \/ axes \in {{}, Axes}
     \/ \E a \in Axes : axes \in {client.maximized \cup {a}, client.maximized \ {a}}
  /\ axes # client.maximized
  /\ window' = Maximize(window, axes, area)
  /\ UNCHANGED area

\* ToggleFullscreen
ToggleFullscreen ==
  /\ CanFill(client.role)
  /\ window' = Fullscreen(window, ~IsFullscreen(client), area)
  /\ UNCHANGED area

SetDecorationOverride(preference) ==
  /\ window' = Prefer(window, preference, area)
  /\ UNCHANGED area
ToggleDecorations ==
  /\ window' = Prefer(window, Toggled(client), area)
  /\ UNCHANGED area

\* A change of the hints or rules the policy is derived from.
RefreshClientPolicy(policy) ==
  /\ window' = RefreshPolicy(window, policy.role, policy.natural, area)
  /\ UNCHANGED area

\* A configuration reload.
Reconfigure ==
  /\ window' = ApplyFramePolicy(CancelDrag(window), area)
  /\ UNCHANGED area

\* ewmh_state_action
Wanted(verb, current) == verb = "Add" \/ (verb = "Toggle" /\ ~current)

\* update_net_wm_state: a message names one or two states.
UpdateNetWmState(verb, requested) ==
  LET shaded == IF "Shaded" \in requested
                THEN Shade(window, Wanted(verb, client.shaded)) ELSE window
      fullscreen == Wanted(verb, IsFullscreen(client))
      filled == IF "Fullscreen" \in requested /\ fullscreen # IsFullscreen(client)
                THEN Fullscreen(shaded, fullscreen, area) ELSE shaded
      old == filled.client.maximized
      axes == {a \in Axes : IF a \in requested THEN Wanted(verb, a \in old) ELSE a \in old}
  IN /\ window' = IF axes = old THEN filled ELSE Maximize(filled, axes, area)
     /\ UNCHANGED area

\* agent_apply_state: what the agent asks for, in the order maximize,
\* fullscreen, shade; a request it leaves out changes nothing.
AgentApplyState(maximized, fullscreen, shaded) ==
  LET sized == IF maximized = Omitted THEN window ELSE Maximize(window, maximized, area)
      filled == IF fullscreen = Omitted THEN sized ELSE Fullscreen(sized, fullscreen, area)
  IN /\ window' = IF shaded = Omitted THEN filled ELSE Shade(filled, shaded)
     /\ UNCHANGED area

ConfigureRequest(axes, g) ==
  /\ window' = Configure(window, axes, g)
  /\ UNCHANGED area

(* ---- Interactive moves and resizes ---- *)
\* begin_drag and begin_sync_resize: only a resize of a client with a counter
\* is paced.
BeginDrag(kind) ==
  /\ drag = NoDrag
  /\ Held(client) = {}
  /\ kind.sync = "Ready" => client.role # "Splash"
  /\ window' = [window EXCEPT !.drag = [keyboard |-> kind.keyboard, sync |-> kind.sync,
                                      initial |-> client.geometry,
                                      pending |-> NoGeometry]]
  /\ UNCHANGED area

PointerMotion(g) ==
  /\ drag # NoDrag
  /\ window' = ApplyDragGeometry(window, g)
  /\ UNCHANGED area

\* keyboard_drag: a step from the geometry shown, along one axis.  Bound: the
\* steps of a client that a request has maximized meanwhile are left out, as
\* each mixes computed spans and chosen ones anew.
KeyboardDrag(axis, span) ==
  /\ drag # NoDrag
  /\ drag.keyboard
  /\ Held(client) = {}
  /\ window' = ApplyDragGeometry(window, [client.geometry EXCEPT ![axis] = span])
  /\ UNCHANGED area

\* The client has painted the frame it was asked for, or has let its time pass.
SyncAlarmNotify ==
  /\ drag # NoDrag
  /\ drag.sync = "Waiting"
  /\ window' = Resume(window, "Ready")
  /\ UNCHANGED area

SyncResizeTimeout ==
  /\ drag # NoDrag
  /\ drag.sync = "Waiting"
  /\ window' = Resume(window, "None")
  /\ UNCHANGED area

EndDrag ==
  /\ drag # NoDrag
  /\ window' = FinishDrag(window) \/ window' = CancelDrag(window)
  /\ UNCHANGED area

(* ---- Outputs and panels ---- *)
RefreshOutputs(outputs) ==
  LET place == [area EXCEPT !.outputs = outputs]
  IN /\ outputs # area.outputs
     /\ area' = place
     /\ window' = Arrange(window, place)

\* refresh_strut
RefreshWorkArea(strut) ==
  LET place == [area EXCEPT !.strut = strut]
  IN /\ strut # area.strut
     /\ area' = place
     /\ window' = Refit(window, place)

StateStep ==
  \/ \E shaded \in BOOLEAN : SetShadedRequest(shaded)
  \/ \E axes \in SUBSET Axes : SetMaximizedRequest(axes)
  \/ ToggleFullscreen
  \/ \E verb \in {"Remove", "Add", "Toggle"},
        requested \in SUBSET (Axes \cup {"Shaded", "Fullscreen"}) :
       Cardinality(requested) \in 1..2 /\ UpdateNetWmState(verb, requested)
  \/ \E maximized \in (SUBSET Axes) \cup {Omitted},
        fullscreen, shaded \in BOOLEAN \cup {Omitted} :
       AgentApplyState(maximized, fullscreen, shaded)

PolicyStep ==
  \/ \E preference \in Preferences : SetDecorationOverride(preference)
  \/ ToggleDecorations
  \/ \E policy \in Policies : RefreshClientPolicy(policy)
  \/ Reconfigure

\* Positions asked for are on connected outputs.
GeometryStep ==
  \/ \E g \in FreeGeometries(area.outputs) : PointerMotion(g)
  \/ \E g \in FreeGeometries(area.outputs), axes \in (SUBSET Axes) \ {{}} :
       ConfigureRequest(axes, g)

DragStep ==
  \/ \E kind \in Drags : BeginDrag(kind)
  \/ \E axis \in Axes : \E span \in FreeSpans(axis, area.outputs) : KeyboardDrag(axis, span)
  \/ SyncAlarmNotify
  \/ SyncResizeTimeout
  \/ EndDrag

EnvironmentStep ==
  \/ \E outputs \in (SUBSET Outputs) \ {{}} : RefreshOutputs(outputs)
  \/ \E strut \in BOOLEAN : RefreshWorkArea(strut)

Next == StateStep \/ PolicyStep \/ GeometryStep \/ DragStep \/ EnvironmentStep

Spec == Init /\ [][Next]_vars

(* ---- Safety ---- *)
\* The frame on the server has extents exactly when the policy in force
\* decorates the client: no handler changes the policy, the preference or
\* fullscreen without carrying the frame along.
FrameFollowsPolicy == window.framed = (Decorated(client) /\ ~IsFullscreen(client))

\* A shaded client shows nothing but its titlebar, so it must have one: every
\* way to lose the titlebar unshades first.
ShadedHasTitlebar == client.shaded => window.framed /\ ~IsFullscreen(client)

PlacementStep ==
  \A a \in Held(client) :
    \/ UnmanagedGeometry(client')[a] = UnmanagedGeometry(client)[a]
    \/ drag # NoDrag /\ drag' = NoDrag /\ drag.pending # NoGeometry

\* While an axis is maximized or the client fullscreen, no handler, drag,
\* reflow or change of outputs alters the place the client will return to on
\* that axis; only a motion still waiting when a drag is ended may, because a
\* request can release the axis before it ends the drag.
PlacementKept == [][PlacementStep]_vars

\* What is maximized fills the work area it is computed from, less the frame,
\* and what is fullscreen fills its output.  A client maximized vertically
\* only may have been moved to another output since.
FitsVertically ==
  \E o \in area.outputs :
    client.geometry["vertical"] = Span(o, Fitted, area.strut, window.framed)
Fits ==
  IF IsFullscreen(client) THEN client.geometry = FullOutput(client.geometry, area.outputs)
  ELSE /\ "vertical" \in client.maximized => FitsVertically
       /\ "horizontal" \in client.maximized =>
            \A a \in client.maximized : client.geometry[a] = Available(window, area)[a]

\* Changes of frame, policy, panels and outputs, in any order and also behind
\* fullscreen, leave a client that fits fitting, unless a drag is under way.
FitsKept == [][Fits /\ drag = NoDrag => Fits']_vars

\* A motion that waits for the client to paint is not lost: when it no longer
\* waits a newer one does, or it is where the client is or will return to, or
\* the drag was cancelled.  An axis maximized since keeps its own place.
PendingReached ==
  [][drag # NoDrag /\ drag.pending # NoGeometry /\ Held(client) = {} =>
       \/ drag' # NoDrag /\ drag'.pending # NoGeometry
       \/ \E g \in {drag.pending, drag.initial} :
            \A a \in Axes \ Held(client') : client'.geometry[a] = g[a]]_vars
=================================================================================
