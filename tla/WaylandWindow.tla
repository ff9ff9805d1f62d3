---------------------------- MODULE WaylandWindow ----------------------------
(***************************************************************************)
(* One mapped xdg toplevel of nobox-wayland between the requests of its    *)
(* program, the actions of the user and of agents, the operations with     *)
(* the pointer and the keyboard, and changes of the output.  The policy    *)
(* (WindowPresentation) changes at once, the program is told with a        *)
(* configure and answers when it likes; until then its commits still have  *)
(* the old size, and every commit sets the size the policy holds.          *)
(*                                                                         *)
(* There is one output, which is replaced by one of another size.  A       *)
(* length is one the program or the user chose, or that of the whole       *)
(* output or its work area in one of the sizes; a position is at the edge, *)
(* where a filled window is, or not.  Shading, decorations, layers and the *)
(* unmapping of a toplevel that stays alive are left out.                  *)
(***************************************************************************)
EXTENDS WindowPresentation, Sequences

CONSTANTS
  Modes,       \* the sizes of the output
  Chosen,      \* the lengths programs and users choose, for each axis
  MaxPending,  \* MAX_PENDING_XDG_CONFIGURES
  MaxRequests, \* bound on requests
  MaxDrags,    \* bound on operations with the pointer or the keyboard
  NoDrag,
  Omitted      \* a state an agent's request does not name

ASSUME ModesAssumption == Modes # {} /\ \A a \in Axes : Chosen[a] # {}
ASSUME MaxPendingAssumption == MaxPending \in Nat \ {0} /\ MaxRequests \in Nat /\ MaxDrags \in Nat

Length(kind, value) == [kind |-> kind, value |-> value]
Lengths == [kind : {"Chosen"}, value : UNION {Chosen[a] : a \in Axes}]
           \cup [kind : {"Full", "Work"}, value : Modes]
Sizes == [Axes -> Lengths]
Geometries == [Axes -> [edge : BOOLEAN, length : Lengths]]
SizeOf(g) == [a \in Axes |-> g[a].length]
Resized(g, size) == [a \in Axes |-> [g[a] EXCEPT !.length = size[a]]]

ChosenSizes == {s \in Sizes : \A a \in Axes : s[a] \in [kind : {"Chosen"}, value : Chosen[a]]}

\* The whole output, and work_area.
Filling(kind, mode) == [a \in Axes |-> [edge |-> TRUE, length |-> Length(kind, mode)]]
FullOutput(mode) == Filling("Full", mode)
WorkArea(mode) == Filling("Work", mode)

Kinds == {"Move", "Resize"}
Operations == [kind : Kinds, start : Geometries]

ASSUME SentinelsAssumption == NoGeometry \notin Geometries \cup Sizes /\ NoDrag \notin Operations

VARIABLES
  window,   \* [client, pointer, keyboard]: the core's client, and the operation
            \* of the pointer (interactive) and of the keyboard
            \* (keyboard_interactive) that concern it
  xdg,      \* [alive, told, unanswered, drawn]: whether the program is connected,
            \* what it was told last (a size, or none, and states), the configures it
            \* has not acknowledged, and the one its buffers are drawn for
  mode,     \* the size of the output
  spent     \* [requests, drags]: how many there were

vars == <<window, xdg, mode, spent>>
client == window.client

(* ---- Telling the program: operators on a pair of a window and its xdg role ---- *)
\* send_pending_toplevel_configure: what the program was told already is not
\* repeated, and a program that owes too many answers is disconnected.
Send(x, configure) ==
  IF configure = x.told THEN x
  ELSE IF Len(x.unanswered) = MaxPending THEN [x EXCEPT !.alive = FALSE]
  ELSE [x EXCEPT !.told = configure, !.unanswered = Append(@, configure)]

\* apply_state_geometry: the size, and the given states set or unset.
Apply(x, g, on, off) ==
  Send(x, [size |-> SizeOf(g), states |-> (x.told.states \cup on) \ off])

\* What a request makes of the client is sent if the core returns a geometry.
Switched(x, g, state, enabled) ==
  Apply(x, g, IF enabled THEN {state} ELSE {}, IF enabled THEN {} ELSE {state})

\* set_maximized returns a geometry unless the client is fullscreen or nothing
\* has changed.
MaximizeApplies(old, new) ==
  /\ ~IsFullscreen(old)
  /\ new.maximized # old.maximized \/ new.geometry # old.geometry
\* set_fullscreen returns one unless the client is already as asked.
FullscreenApplies(old, new) ==
  /\ IsFullscreen(old) \/ IsFullscreen(new)
  /\ IsFullscreen(old) = IsFullscreen(new) => new.geometry # old.geometry

\* maximize_request and unmaximize_request, of the program itself.
ByProgram(w, x, enabled) ==
  LET new == SetMaximized(w.client, IF enabled THEN Axes ELSE {}, WorkArea(mode))
  IN [window |-> [w EXCEPT !.client = new],
      xdg |-> IF MaximizeApplies(w.client, new)
              THEN Switched(x, new.geometry, "Maximized", enabled) ELSE x]

\* Mutant: the program is told only when there is a geometry to apply.
ApplyAxesSilently(w, x, axes) ==
  LET new == SetMaximized(w.client, axes, WorkArea(mode))
  IN [window |-> [w EXCEPT !.client = new],
      xdg |-> IF MaximizeApplies(w.client, new)
              THEN Switched(x, new.geometry, "Maximized", axes # {}) ELSE x]

\* apply_client_maximized_axes: a change behind a fullscreen geometry is told
\* without a size.
ApplyAxes(w, x, axes) ==
  LET new == SetMaximized(w.client, axes, WorkArea(mode))
      states == IF axes = Axes THEN x.told.states \cup {"Maximized"}
                ELSE x.told.states \ {"Maximized"}
  IN [window |-> [w EXCEPT !.client = new],
      xdg |-> CASE MaximizeApplies(w.client, new) ->
                     Switched(x, new.geometry, "Maximized", axes = Axes)
                [] /\ ~MaximizeApplies(w.client, new)
                   /\ new.maximized # w.client.maximized ->
                     Send(x, [x.told EXCEPT !.states = states])
                [] OTHER -> x]

\* fullscreen_request, unfullscreen_request and apply_client_fullscreen.
ApplyFullscreen(w, x, enabled) ==
  LET new == SetFullscreen(w.client, enabled, FullOutput(mode))
  IN [window |-> [w EXCEPT !.client = new],
      xdg |-> IF FullscreenApplies(w.client, new)
              THEN Switched(x, new.geometry, "Fullscreen", enabled) ELSE x]

\* configure_client_geometry
Configure(w, x, g) ==
  [window |-> [w EXCEPT !.client = SetGeometry(@, g)], xdg |-> Apply(x, g, {}, {})]

Install(result) == window' = result.window /\ xdg' = result.xdg

(* ---- Requests of the program, the user and agents ---- *)
Init ==
  /\ mode \in Modes
  /\ spent = [requests |-> 0, drags |-> 0]
  /\ \E size \in ChosenSizes :
       window =
         [client |->
            [geometry |-> [a \in Axes |-> [edge |-> a = "vertical", length |-> size[a]]],
             maximized |-> {}, restore |-> NoGeometry, fullscreen |-> NoGeometry,
             shaded |-> FALSE, role |-> "Normal", natural |-> TRUE,
             preference |-> "Default"],
          pointer |-> NoDrag, keyboard |-> NoDrag]
  /\ LET first == [size |-> NoGeometry, states |-> {}]
     IN xdg = [alive |-> TRUE, told |-> first, unanswered |-> <<>>, drawn |-> first]

ProgramMaximizes(enabled) == Install(ByProgram(window, xdg, enabled)) /\ UNCHANGED mode

\* set_client_maximized, from bindings, menus and the wlr protocol.
UserMaximizes(axes) ==
  /\ Install(ApplyAxes(window, xdg, axes))
  /\ UNCHANGED mode

Fullscreens(enabled) == Install(ApplyFullscreen(window, xdg, enabled)) /\ UNCHANGED mode

\* apply_agent_state: fullscreen is left first and entered last, so that what it
\* returns to is what the request asks for.
AgentSetsState(axes, fullscreen) ==
  LET left == IF fullscreen = FALSE THEN ApplyFullscreen(window, xdg, FALSE)
              ELSE [window |-> window, xdg |-> xdg]
      filled == IF axes = Omitted THEN left ELSE ApplyAxes(left.window, left.xdg, axes)
      entered == IF fullscreen = TRUE THEN ApplyFullscreen(filled.window, filled.xdg, TRUE)
                 ELSE filled
  IN Install(entered) /\ UNCHANGED mode

Sized(size) == Resized(client.geometry, size)
Placed(edge) == [client.geometry EXCEPT !["horizontal"].edge = edge]

\* move_relative, resize_relative and the like do not heed what is filled.
UserConfigures(g) == Install(Configure(window, xdg, g)) /\ UNCHANGED mode

\* configure_agent_geometry keeps what is filled.
AgentConfigures(g) ==
  LET kept == IF IsFullscreen(client) THEN Axes ELSE client.maximized
  IN /\ SizeOf(g) # SizeOf(client.geometry) => ~IsFullscreen(client)
     /\ Install(Configure(window, xdg, Replace(g, kept, client.geometry)))
     /\ UNCHANGED mode

(* ---- Operations with the pointer and the keyboard ---- *)
\* start_pointer_interactive; move_request and resize_request of the program
\* tell it nothing yet.
StartPointer(kind, byProgram) ==
  /\ kind = "Resize" => ~IsFullscreen(client)
  /\ window' = [window EXCEPT !.pointer = [kind |-> kind, start |-> client.geometry]]
  /\ xdg' = IF kind = "Resize" /\ ~byProgram
            THEN Apply(xdg, client.geometry, {"Resizing"}, {}) ELSE xdg
  /\ UNCHANGED mode

\* update_interactive: a move has the size of the window when it started.
PointerMoves(edge) ==
  /\ window.pointer # NoDrag
  /\ window.pointer.kind = "Move"
  /\ LET g == [window.pointer.start EXCEPT !["horizontal"].edge = edge]
     IN window' = [window EXCEPT !.client = SetGeometry(@, g)]
  /\ UNCHANGED <<xdg, mode>>

PointerResizes(size) ==
  /\ window.pointer # NoDrag
  /\ window.pointer.kind = "Resize"
  /\ LET g == Resized(window.pointer.start, size)
     IN /\ window' = [window EXCEPT !.client = SetGeometry(@, g)]
        /\ xdg' = Apply(xdg, g, {"Resizing"}, {})
  /\ UNCHANGED mode

\* finish_interactive
PointerReleases ==
  /\ window.pointer # NoDrag
  /\ window' = [window EXCEPT !.pointer = NoDrag]
  /\ xdg' = IF window.pointer.kind = "Resize"
            THEN Apply(xdg, client.geometry, {}, {"Resizing"}) ELSE xdg
  /\ UNCHANGED mode

\* finish_keyboard_interactive
KeyboardEnds(w, x, cancel) ==
  IF w.keyboard = NoDrag THEN [window |-> w, xdg |-> x]
  ELSE LET new == IF cancel THEN SetGeometry(w.client, w.keyboard.start) ELSE w.client
       IN [window |-> [w EXCEPT !.client = new, !.keyboard = NoDrag],
           xdg |-> IF w.keyboard.kind = "Resize"
                   THEN Apply(x, new.geometry, {}, {"Resizing"}) ELSE x]

\* start_keyboard_interactive: an operation under way is ended first, but the
\* new one starts from the geometry read before.
StartKeyboard(kind) ==
  LET ended == KeyboardEnds(window, xdg, FALSE)
  IN /\ client.maximized = {} /\ ~IsFullscreen(client)
     /\ window' = [ended.window EXCEPT !.keyboard = [kind |-> kind, start |-> client.geometry]]
     /\ xdg' = IF kind = "Resize" THEN Apply(ended.xdg, client.geometry, {"Resizing"}, {})
               ELSE ended.xdg
     /\ UNCHANGED mode

\* handle_keyboard_interactive: a step from where the client is now.
KeyMoves(edge) ==
  /\ window.keyboard # NoDrag
  /\ window.keyboard.kind = "Move"
  /\ window' = [window EXCEPT !.client = SetGeometry(@, Placed(edge))]
  /\ UNCHANGED <<xdg, mode>>

KeyResizes(axis, value) ==
  /\ window.keyboard # NoDrag
  /\ window.keyboard.kind = "Resize"
  /\ LET g == [client.geometry EXCEPT ![axis].length = Length("Chosen", value)]
     IN /\ window' = [window EXCEPT !.client = SetGeometry(@, g)]
        /\ xdg' = Apply(xdg, g, {"Resizing"}, {})
  /\ UNCHANGED mode

KeyboardFinishes(cancel) ==
  /\ window.keyboard # NoDrag
  /\ Install(KeyboardEnds(window, xdg, cancel))
  /\ UNCHANGED mode

(* ---- The output, and the program ---- *)
\* replace_outputs: operations are dropped, not finished; a filled client is
\* fitted again, one that is outside is moved.
ReplaceOutputs(new, outside) ==
  LET dropped == [window EXCEPT !.pointer = NoDrag, !.keyboard = NoDrag]
      fitted == CASE IsFullscreen(client) -> SetFullscreen(client, TRUE, FullOutput(new))
                  [] ~IsFullscreen(client) /\ client.maximized # {} ->
                       SetMaximized(client, client.maximized, WorkArea(new))
                  [] OTHER -> client
  IN /\ mode' = new
     /\ window' = [dropped EXCEPT !.client = fitted]
     /\ outside => ~IsFullscreen(client) /\ client.maximized = {}
     /\ xdg' = IF outside \/ fitted.geometry # client.geometry
               THEN Apply(xdg, fitted.geometry, {}, {}) ELSE xdg

\* The size of a buffer: what the program was told in these states, or its own
\* choice where it may choose.
MayShow(configure) ==
  IF configure.size # NoGeometry /\ configure.states \cap {"Maximized", "Fullscreen"} # {}
  THEN {configure.size}
  ELSE ChosenSizes \cup ({configure.size} \ {NoGeometry})

\* Mutant: a commit changes the size only of a client nothing fills.
CommittedFloating(c, size) ==
  IF c.maximized # {} THEN c ELSE SetGeometry(c, Resized(c.geometry, size))

\* map_toplevel_if_ready, for a mapped toplevel: the policy takes the size of
\* the buffer.
Committed(c, size) == SetGeometry(c, Resized(c.geometry, size))

\* The program acknowledges a configure, which answers those before it, and
\* commits a buffer drawn for it.
Answer(k, size) ==
  /\ window' = [window EXCEPT !.client = Committed(@, size)]
  /\ xdg' = [xdg EXCEPT !.unanswered = SubSeq(@, k + 1, Len(@)),
                        !.drawn = xdg.unanswered[k]]
  /\ UNCHANGED mode

\* It commits another buffer for the configure it has acknowledged last.
Redraw(size) ==
  /\ window' = [window EXCEPT !.client = Committed(@, size)]
  /\ UNCHANGED <<xdg, mode>>

Requests ==
  \/ \E enabled \in BOOLEAN : ProgramMaximizes(enabled) \/ Fullscreens(enabled)
  \/ \E axes \in SUBSET Axes : UserMaximizes(axes)
  \/ \E axes \in (SUBSET Axes) \cup {Omitted}, fullscreen \in BOOLEAN \cup {Omitted} :
       AgentSetsState(axes, fullscreen)
  \/ \E new \in Modes, outside \in BOOLEAN : ReplaceOutputs(new, outside)

Geometry ==
  \E g \in {Sized(size) : size \in ChosenSizes} \cup {Placed(edge) : edge \in BOOLEAN} :
    UserConfigures(g) \/ AgentConfigures(g)

Starts ==
  \/ \E kind \in Kinds, byProgram \in BOOLEAN : StartPointer(kind, byProgram)
  \/ \E kind \in Kinds : StartKeyboard(kind)

Interaction ==
  \/ \E edge \in BOOLEAN : PointerMoves(edge) \/ KeyMoves(edge)
  \/ \E size \in ChosenSizes : PointerResizes(size)
  \/ PointerReleases
  \/ \E axis \in Axes : \E value \in Chosen[axis] : KeyResizes(axis, value)
  \/ \E cancel \in BOOLEAN : KeyboardFinishes(cancel)

Commits ==
  \/ \E k \in 1..Len(xdg.unanswered) :
       \E size \in MayShow(xdg.unanswered[k]) : Answer(k, size)
  \/ \E size \in MayShow(xdg.drawn) : Redraw(size)

Next ==
  /\ xdg.alive
  /\ \/ /\ spent.requests < MaxRequests
        /\ spent' = [spent EXCEPT !.requests = @ + 1]
        /\ Requests \/ Geometry
     \/ spent.drags < MaxDrags /\ spent' = [spent EXCEPT !.drags = @ + 1] /\ Starts
     \/ UNCHANGED spent /\ (Interaction \/ Commits)

Spec == Init /\ [][Next]_vars

(* ---- Properties ---- *)
\* Where the client returns to on an axis that is maximized, or covered by
\* fullscreen, before and after a step is not changed by the step: not by a
\* buffer of the old size that arrives late, a new output or an operation that
\* goes on (set_geometry and update_maximized_geometry).
Covered(c) == IF IsFullscreen(c) THEN Axes ELSE c.maximized
PlacementStep ==
  \A a \in Covered(client) \cap Covered(client)' :
    UnmanagedGeometry(client)'[a] = UnmanagedGeometry(client)[a]
PlacementKept == [][PlacementStep]_vars

\* The states the program was told last are those of the policy, and a step
\* keeps this, whoever asks (apply_client_maximized_axes, apply_client_fullscreen
\* and the requests of the program); only the program's own request to be
\* maximized while it is fullscreen is never answered.
StatesAgree ==
  /\ ("Fullscreen" \in xdg.told.states) = IsFullscreen(client)
  /\ ("Maximized" \in xdg.told.states) = (client.maximized = Axes)
StatesStep ==
  \/ StatesAgree /\ xdg.alive' => StatesAgree'
  \/ IsFullscreen(client) /\ \E enabled \in BOOLEAN : ProgramMaximizes(enabled)
StatesTold == [][StatesStep]_vars

\* Once the program has answered everything, a client that is maximized or
\* fullscreen for it has the size it was told, whatever was committed on the
\* way; a step keeps this unless a move goes on, which has the size of the
\* window when it started (map_toplevel_if_ready, apply_state_geometry).
SizeAgrees ==
  xdg.unanswered = <<>> /\ xdg.told.states \cap {"Maximized", "Fullscreen"} # {}
    => SizeOf(client.geometry) = xdg.told.size
SizesStep ==
  \/ SizeAgrees /\ xdg.alive' => SizeAgrees'
  \/ \E edge \in BOOLEAN : PointerMoves(edge)
  \/ KeyboardFinishes(TRUE)
AnswersAgree == [][SizesStep]_vars
===============================================================================
