---------------------------- MODULE X11Geometry -----------------------------
(***************************************************************************)
(* Where the X11 window manager puts windows: the work areas it derives    *)
(* from struts and margins, the place of a new window, the geometry        *)
(* actions and the drags (nobox-x11/src/lib.rs), each composed of the      *)
(* core's operators.                                                       *)
(*                                                                         *)
(* Rectangles are contents unless a name says "outer".  A window is a      *)
(* record of its content geometry, its extents, its hints and gravity,     *)
(* whether it is shaded, the axes on which a maximized or fullscreen state *)
(* fixes it, and the operations its client allows.                         *)
(***************************************************************************)
EXTENDS CorePlacement

CONSTANT MaxWireLength          \* u16::MAX: the longest side of an X window

ASSUME WireAssumption == MaxWireLength \in 1 .. MaxCoordinate

\* An ordinary window.
Window(geometry, extents, hints, gravity) ==
    [geometry |-> geometry, extents |-> extents, hints |-> hints, gravity |-> gravity,
     shaded |-> FALSE, fixed |-> {}, operations |-> {"move", "resize"}]

-----------------------------------------------------------------------------
(* Work areas *)

\* configured_margin_reservations: the whole length of each side of the screen.
MarginReservations(margins, screen) ==
    [direction \in Directions |->
        [depth |-> margins[direction], start |-> 0,
         end |-> screen[Other(direction.axis)].length - 1]]

\* Mutant: the depth counted from the edge of the root is used for every output.
ReservationsOfRoot(reservations, output, root) == reservations

\* output_reservations: a depth counted from the edge of the root, recounted
\* from the edge of one output.
OutputReservations(reservations, output, root) ==
    [direction \in Directions |->
        LET reservation == reservations[direction]
            span == root[direction.axis]
            boundary == IF direction.toward = "start" THEN span.start + reservation.depth
                                                      ELSE End(span) - reservation.depth
            side == Side(output, direction)
        IN  [reservation EXCEPT !.depth =
                IF reservation.depth = 0 THEN 0
                ELSE Larger(0, IF direction.toward = "start" THEN boundary - side
                                                             ELSE side - boundary)]]

\* refresh_work_area: of every output, and of the whole screen.
OutputWorkArea(output, reservations, root) ==
    WorkArea(output, {OutputReservations(reservation, output, root) :
                         reservation \in reservations})

WholeScreen == -1

WorkAreas(outputs, reservations, root) ==
    [id \in {outputs[index].id : index \in DOMAIN outputs} \cup {WholeScreen} |->
        IF id = WholeScreen THEN WorkArea(root, reservations)
        ELSE OutputWorkArea(outputs[CHOOSE index \in DOMAIN outputs :
                                        outputs[index].id = id].geometry,
                            reservations, root)]

\* available_geometry: the work area without the decorations.
AvailableGeometry(workArea, extents) == ContentGeometry(extents, workArea)

-----------------------------------------------------------------------------
(* The place of a new window *)

OuterSize(size, extents) ==
    SizeOf(OuterGeometry(extents, AtPosition(Both(LAMBDA axis : 0), size)))

\* The content at an outer corner: add_root_offset.
ContentAt(outer, extents, size) ==
    Both(LAMBDA axis :
        Span(ToCoordinate(outer[axis].start + extents[[axis |-> axis, toward |-> "start"]]),
             size[axis]))

NoParent == <<>>

\* initial_placement: a dialog over its parent, a dialog or splash without one
\* in the middle, everything else where it covers least.
InitialPlacement(size, role, extents, parentOuter, bounds, obstaclesOuter, center) ==
    LET outerSize == OuterSize(size, extents)
        outer == IF role = "dialog" /\ parentOuter # NoParent
                 THEN CenteredPlacement(outerSize, bounds, parentOuter)
                 ELSE IF role \in {"dialog", "splash"}
                 THEN CenteredPlacement(outerSize, bounds, bounds)
                 ELSE SmartPlacement(outerSize, bounds, obstaclesOuter, center)
    IN  ContentAt(outer, extents, size)

\* positioned_origin_in_work_area: the origin of the root is taken for "no
\* position" when the work area does not begin there.
PositionedOrigin(requested, workArea, extents) ==
    IF \/ \E axis \in Axes : requested[axis].start # 0
       \/ \A axis \in Axes : workArea[axis].start = 0
    THEN requested
    ELSE ContentAt(workArea, extents, SizeOf(requested))

-----------------------------------------------------------------------------
(* Configuring a managed window *)

ContentLimit(extents) ==
    [horizontal |-> MaxWireLength,
     vertical |-> Larger(1, MaxWireLength - Smaller(Less(extents[Up], extents[Left]),
                                                    MaxWireLength - 1))]

\* x_content_size
WireSize(size, extents) ==
    Both(LAMBDA axis : Smaller(size[axis], ContentLimit(extents)[axis]))

Unasked == <<>>
Asked(value) == <<value>>

\* configure_managed_geometry: hints apply to a length that was asked for,
\* gravity to a coordinate that was not, and a fixed axis keeps both.
ConfigureManaged(window, starts, lengths) ==
    LET old == window.geometry
        asked == Both(LAMBDA axis :
                     IF lengths[axis] = Unasked THEN old[axis].length ELSE lengths[axis][1])
        constrained == WireSize(Constrain(window.hints, asked), window.extents)
        size == Both(LAMBDA axis :
                    IF axis \in window.fixed \/ lengths[axis] = Unasked
                    THEN old[axis].length ELSE constrained[axis])
        adjusted == AdjustResize(old, size, window.gravity,
                                 {axis \in Axes : starts[axis] # Unasked})
    IN  Both(LAMBDA axis :
            Span(IF axis \in window.fixed THEN old[axis].start
                 ELSE IF starts[axis] = Unasked THEN adjusted[axis]
                 ELSE starts[axis][1],
                 size[axis]))

ConfigureTo(window, geometry) ==
    ConfigureManaged(window, Both(LAMBDA axis : Asked(geometry[axis].start)),
                             Both(LAMBDA axis : Asked(geometry[axis].length)))

-----------------------------------------------------------------------------
(* Moving and sizing by configured amounts *)

\* RelativeAmount::resolve: pixels, or a fraction of a reference length.
Pixels(number) == [number |-> number, of |-> 0]
Fraction(numerator, denominator) == [number |-> numerator, of |-> denominator]

Resolved(amount, reference) ==
    IF amount.of = 0 THEN amount.number
    ELSE ToCoordinate(Quotient(amount.number * reference, amount.of))

\* requested_content_dimension
RequestedLength(amount, outerBasis, reference, current, decoration) ==
    IF amount = Unasked THEN current
    ELSE LET length == Larger(1, Resolved(amount[1], reference))
         IN  IF outerBasis THEN Larger(1, length - decoration) ELSE length

\* resolve_output_target: the identifier of an output, of the whole screen, or
\* none for a number no output has.
NoOutput == -2

ToOutput(kind) == [kind |-> kind, number |-> 0]
Numbered(number) == [kind |-> "numbered", number |-> number]

ResolveOutput(outputs, current, pointer, target) ==
    LET count == Len(outputs)
        places == {index \in DOMAIN outputs : outputs[index].id = current.id}
        here == IF places = {} THEN 1 ELSE Min(places)
    IN  CASE target.kind = "current" -> current.id
          [] target.kind = "primary" -> PrimaryOutput(outputs).id
          [] target.kind = "pointer" -> pointer.id
          [] target.kind = "next" -> outputs[(here % count) + 1].id
          [] target.kind = "previous" -> outputs[IF here = 1 THEN count ELSE here - 1].id
          [] target.kind = "all" -> WholeScreen
          [] target.kind = "numbered" ->
                 IF target.number \in DOMAIN outputs THEN outputs[target.number].id
                                                     ELSE NoOutput

\* apply_absolute_geometry: the outer rectangle goes to its place within the
\* target's work area.  `areas` are the work areas of outputs and screen.
AbsoluteGeometry(window, outputs, pointer, areas, target, amounts, outerBasis, placements) ==
    LET movable == "move" \in window.operations
        resizable == "resize" \in window.operations
        current == OuterGeometry(window.extents, window.geometry)
        here == OutputFor(outputs, current)
        there == IF movable THEN ResolveOutput(outputs, here, pointer, target) ELSE here.id
        decoration(axis) == window.extents[[axis |-> axis, toward |-> "start"]]
                            + window.extents[[axis |-> axis, toward |-> "end"]]
        asked == Both(LAMBDA axis :
                     RequestedLength(IF resizable THEN amounts[axis] ELSE Unasked,
                                     outerBasis, areas[there][axis].length,
                                     window.geometry[axis].length, decoration(axis)))
        size == WireSize(Constrain(window.hints, asked), window.extents)
        placed == MoveResize(current, areas[here.id], areas[there],
                             OuterSize(size, window.extents), placements)
        outer == Both(LAMBDA axis :
                     Span(IF movable THEN placed[axis].start ELSE current[axis].start,
                          placed[axis].length))
    IN  IF \/ ~movable /\ ~(resizable /\ \E axis \in Axes : amounts[axis] # Unasked)
           \/ there = NoOutput
        THEN window.geometry
        ELSE ConfigureTo(window, ContentGeometry(window.extents, outer))

\* rehome_clients_without_output
Rehomed(window, outputs, workArea) ==
    IF window.fixed # {} \/ OnSomeOutput(outputs, window.geometry) THEN window.geometry
    ELSE ClampPosition(window.geometry, AvailableGeometry(workArea, window.extents))

-----------------------------------------------------------------------------
(* Edge actions *)

\* visible_outer_geometry: a shaded window is as high as its decorations.
VisibleOuter(window) ==
    LET outer == OuterGeometry(window.extents, window.geometry)
    IN  IF window.shaded
        THEN [outer EXCEPT !.vertical.length =
                 Larger(1, window.extents[Up] + window.extents[Down])]
        ELSE outer

\* edge_action_field: the bounds of outer rectangles.
FieldBounds(workArea, extents) == OuterGeometry(extents, AvailableGeometry(workArea, extents))

MoveToEdge(window, workArea, obstacles, direction) ==
    LET moved == DirectionalMove(VisibleOuter(window),
                                 FieldBounds(workArea, window.extents), obstacles, direction)
        content == ContentAt(moved, window.extents, SizeOf(window.geometry))
    IN  IF "move" \notin window.operations THEN window.geometry
        ELSE ConfigureManaged(window, Both(LAMBDA axis : Asked(content[axis].start)),
                                      Both(LAMBDA axis : Unasked))

\* apply_edge_resize: the change of the outer rectangle, as size hints allow.
EdgeResize(window, desired) ==
    ConfigureTo(window, RelativeResize(window.geometry,
                                       DeltasBetween(VisibleOuter(window), desired),
                                       window.hints))

\* A shaded window has no height to change.
ResizableAlong(window, axis) ==
    "resize" \in window.operations /\ ~(window.shaded /\ axis = "vertical")

\* A window that cannot grow shrinks from the other side instead.
GrowToEdge(window, workArea, obstacles, direction) ==
    LET bounds == FieldBounds(workArea, window.extents)
        grown == EdgeResize(window, DirectionalGrow(VisibleOuter(window), bounds,
                                                    obstacles, direction, Cross))
    IN  IF ~ResizableAlong(window, direction.axis) THEN window.geometry
        ELSE IF grown # window.geometry THEN grown
        ELSE EdgeResize(window, DirectionalShrink(VisibleOuter(window), bounds,
                                                  obstacles, direction))

ShrinkToEdge(window, workArea, obstacles, direction) ==
    IF ~ResizableAlong(window, direction.axis) THEN window.geometry
    ELSE EdgeResize(window, DirectionalShrink(VisibleOuter(window),
                                              FieldBounds(workArea, window.extents),
                                              obstacles, direction))

FillSpace(window, workArea, obstacles) ==
    IF ~ResizableAlong(window, "vertical") THEN window.geometry
    ELSE ConfigureTo(window,
             ContentGeometry(window.extents,
                 GrowToFill(VisibleOuter(window),
                            FieldBounds(workArea, window.extents), obstacles)))

-----------------------------------------------------------------------------
(* Drags *)

\* snap_move_to_visible_clients and pointer_motion: beside other windows first,
\* then at the edges of the space left for the content.
MoveDrag(window, delta, targets, workArea, resistance, snapToWindows) ==
    LET requested == Translated(window.geometry, delta)
        snapped == SnapMovementTo(VisibleOuter([window EXCEPT !.geometry = requested]),
                                  targets, resistance)
        beside == ContentGeometry(window.extents, snapped)
        near == IF snapToWindows
                THEN Both(LAMBDA axis : Span(beside[axis].start, requested[axis].length))
                ELSE requested
    IN  SnapMovement(near, AvailableGeometry(workArea, window.extents), resistance)

\* resize_drag_geometry
X11ResizeDrag(window, edges, delta, workArea, resistance) ==
    ResizeDrag(window.geometry, edges, delta,
               AvailableGeometry(workArea, window.extents), resistance,
               window.hints, ContentLimit(window.extents))

\* keyboard_drag: a step of one increment, else of eight pixels or one.
KeyboardStep(window, axis, fine) ==
    LET increment == Given(window.hints.increment, OnePixel)[axis]
    IN  IF increment > 1 THEN increment ELSE IF fine THEN 1 ELSE 8

\* The first arrow key chooses an edge, the next ones of its axis move it.
KeyboardResize(window, edge, pressed, fine, workArea) ==
    LET step == KeyboardStep(window, edge.axis, fine)
    IN  X11ResizeDrag(window, {edge},
                      Both(LAMBDA axis : IF axis # edge.axis THEN 0
                                         ELSE IF pressed.toward = "end" THEN step ELSE -step),
                      workArea, 0)

KeyboardMoveDrag(window, direction, fine, toEdge, workArea) ==
    KeyboardMove(window.geometry, AvailableGeometry(workArea, window.extents),
                 direction, IF fine THEN 1 ELSE 8, toEdge)

=============================================================================
