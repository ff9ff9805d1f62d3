---------------------------- MODULE MCX11Geometry ---------------------------
(***************************************************************************)
(* The placement and geometry algorithms and the grid of workspaces over   *)
(* small inputs.  They keep no state: the variable is a question put to    *)
(* them, its inputs, and each property says what the answers to questions  *)
(* of one kind have in common.  Rectangles of a few pixels are enough,     *)
(* because every decision of the code compares edges and never looks at    *)
(* how far apart they are.                                                 *)
(***************************************************************************)
EXTENDS X11Geometry, WorkspaceGrid

VARIABLE question

NoQuestion == [about |-> "nothing"]

Rectangle(x, y, width, height) ==
    [horizontal |-> Span(x, width), vertical |-> Span(y, height)]

Size(width, height) == [horizontal |-> width, vertical |-> height]

AtMost(n, S) == {T \in SUBSET S : Cardinality(T) <= n}

NoExtents == [direction \in Directions |-> 0]
Frame == [direction \in Directions |-> IF direction = Up THEN 2 ELSE 1]

-----------------------------------------------------------------------------
(* Smart placement *)

SmallBounds == Rectangle(1, 0, 5, 3)
Blocks == {Rectangle(x, y, size.horizontal, size.vertical) :
              x \in {0, 2, 4}, y \in {-1, 1}, size \in {Size(2, 1), Size(3, 2)}}
Sizes == {Size(1, 1), Size(2, 1), Size(3, 2), Size(2, 3), Size(6, 1)}

Fits(size, bounds) == \A axis \in Axes : size[axis] <= bounds[axis].length

PositionsInside(size, bounds) ==
    {position \in [horizontal : bounds.horizontal.start .. End(bounds.horizontal),
                   vertical : bounds.vertical.start .. End(bounds.vertical)] :
        Inside(bounds, AtPosition(position, size))}

PlacementQuestions ==
    [about : {"placement"}, size : Sizes, obstacles : AtMost(2, Blocks), center : BOOLEAN]

AnsweredBest(asked) ==
    asked.about = "placement" =>
        LET size == asked.size
            placed == SmartPlacement(size, SmallBounds, asked.obstacles, asked.center)
        IN  /\ SizeOf(placed) = size
            /\ Corner(placed) = Corner(SmallBounds) \/ Fits(size, SmallBounds)
            /\ Fits(size, SmallBounds) =>
                  /\ Inside(SmallBounds, placed)
                  /\ \A position \in PositionsInside(size, SmallBounds) :
                        OverlapScore(placed, asked.obstacles)
                            <= OverlapScore(AtPosition(position, size), asked.obstacles)

\* smart_placement tries the crossings of window edges only, column by column,
\* stops early, and may then centre the window in the space around it; still no
\* position within the work area overlaps the other windows less.
PlacementIsBest == [][AnsweredBest(question')]_question

-----------------------------------------------------------------------------
(* Outputs and work areas *)

Root == Rectangle(0, 0, 12, 8)

Monitors(first, second) == OutputSet(<<Output(1, first, FALSE), Output(2, second, TRUE)>>)

Layouts == {Monitors(Rectangle(0, 0, 6, 8), Rectangle(6, 0, 6, 8)),
            Monitors(Rectangle(0, 2, 5, 6), Rectangle(6, 0, 6, 6)),
            Monitors(Rectangle(3, 4, 7, 4), Rectangle(0, 0, 12, 4))}

NoReservations == [direction \in Directions |-> [depth |-> 0, start |-> 0, end |-> 0]]

Strut(direction, depth, first, last) ==
    [NoReservations EXCEPT ![direction] = [depth |-> depth, start |-> first, end |-> last]]

Struts == {Strut(Left, 2, 0, 7), Strut(Left, 7, 3, 4), Strut(Right, 1, 0, 3),
           Strut(Up, 1, 0, 11), Strut(Up, 3, 6, 11), Strut(Down, 2, 1, 4),
           MarginReservations(Frame, Root)}

Windows == {Window(Rectangle(x, y, width, 2), Frame, NoHints, NorthWest) :
               x \in {1, 9}, y \in {1, 5}, width \in {1, 4}}
           \cup {Window(Rectangle(5, 3, 4, 2), NoExtents, NoHints, NorthWest)}

Targets == {ToOutput(kind) : kind \in {"current", "primary", "pointer", "next",
                                       "previous", "all"}}
           \cup {Numbered(1), Numbered(3)}

\* A width and a place along the horizontal axis.
Wishes == {<<Unasked, KeepOffset>>, <<Unasked, FromStart(-1)>>, <<Unasked, FromStart(2)>>,
           <<Unasked, Centered>>, <<Unasked, FromEnd(1)>>,
           <<Asked(Pixels(3)), Centered>>, <<Asked(Fraction(1, 2)), KeepOffset>>}

\* The part of the screen a strut reserves at one side.
Band(strut, direction) ==
    LET reservation == strut[direction]
        span == Root[direction.axis]
    IN  [axis \in Axes |->
            IF axis # direction.axis
            THEN Span(reservation.start, reservation.end - reservation.start + 1)
            ELSE Span(IF direction.toward = "start" THEN span.start
                                                    ELSE End(span) - reservation.depth,
                      reservation.depth)]

\* A strut is measured from the edge of the whole screen and applies to the
\* output it reaches.  What is left of an output is clear of every strut, and
\* gives up nothing that no strut asks for, unless the struts leave a single
\* pixel of it.
WorkAreaClear(output, area, struts) ==
    /\ Inside(output.geometry, area)
    /\ \A direction \in Directions :
          LET bands == {Band(strut, direction) : strut \in
                           {reserving \in struts : reserving[direction].depth # 0}}
          IN  \/ area[direction.axis].length = 1
              \/ /\ \A band \in bands : ~Intersects(area, band)
                 /\ \/ Side(area, direction) = Side(output.geometry, direction)
                    \/ \E band \in bands :
                          /\ Intersects(output.geometry, band)
                          /\ Side(area, direction) = Side(band, Opposite(direction))

\* A window sent to an output by an absolute action lies, with its frame, in
\* the work area there, and is found on that output afterwards, so that going
\* on to the next output, or back to the previous one, comes home.
SentToOutput(window, outputs, areas, target, wish) ==
    LET found(geometry) == OutputFor(outputs, OuterGeometry(window.extents, geometry))
        sent(from, to, width) ==
            AbsoluteGeometry(from, outputs, outputs[1], areas, to,
                             [horizontal |-> width, vertical |-> Unasked], TRUE,
                             [horizontal |-> wish[2], vertical |-> KeepOffset])
        there == sent(window, target, wish[1])
        id == ResolveOutput(outputs, found(window.geometry), outputs[1], target)
        back == CASE target.kind = "next" -> ToOutput("previous")
                  [] target.kind = "previous" -> ToOutput("next")
                  [] OTHER -> Numbered(CHOOSE index \in DOMAIN outputs :
                                  outputs[index].id = found(window.geometry).id)
        fits(geometry, area) == Fits(OuterSize(SizeOf(geometry), window.extents), area)
    IN  IF id = NoOutput THEN there = window.geometry
        ELSE fits(there, areas[id]) =>
                /\ Inside(areas[id], OuterGeometry(window.extents, there))
                /\ id # WholeScreen => found(there).id = id
                /\ LET home == sent([window EXCEPT !.geometry = there], back, Unasked)
                   IN  fits(home, areas[found(window.geometry).id]) =>
                          id = WholeScreen \/ found(home).id = found(window.geometry).id

\* A window whose output is gone can be seen again, its frame at least.
Recovered(window, outputs, areas) ==
    LET area == areas[OutputFor(outputs, window.geometry).id]
    IN  OnSomeOutput(outputs, OuterGeometry(window.extents,
                                            Rehomed(window, outputs, area)))

\* A new window of any kind lies on the output it was placed on, and so does
\* one that asks for the origin when a strut or another output is there.
FirstPlaced(outputs, areas, id, role, parent, extents) ==
    LET size == Size(2, 1)
        placed == InitialPlacement(size, role, extents, parent, areas[id],
                                   {Rectangle(0, 0, 4, 8), Rectangle(7, 1, 2, 3)}, TRUE)
        atOrigin == PositionedOrigin(AtPosition(Size(0, 0), size), areas[id], extents)
    IN  Fits(OuterSize(size, extents), areas[id]) =>
            /\ Inside(areas[id], OuterGeometry(extents, placed))
            /\ OutputFor(outputs, placed).id = id
            /\ Corner(areas[id]) # Size(0, 0) =>
                  Inside(areas[id], OuterGeometry(extents, atOrigin))

OutputQuestions ==
    [about : {"outputs"}, outputs : Layouts, struts : AtMost(2, Struts)]

AnsweredOnOutput(asked) ==
    asked.about = "outputs" =>
        LET outputs == asked.outputs
            areas == WorkAreas(outputs, asked.struts, Root)
        IN  /\ \A id \in 1 .. 2 : WorkAreaClear(outputs[id], areas[id], asked.struts)
            /\ \A id \in 1 .. 2, role \in {"normal", "dialog"}, extents \in {NoExtents, Frame},
                  parent \in {NoParent, Rectangle(1, 1, 4, 4), Rectangle(9, 6, 4, 4)} :
                  FirstPlaced(outputs, areas, id, role, parent, extents)
            /\ \A window \in Windows :
                  /\ \A target \in Targets, wish \in Wishes :
                        SentToOutput(window, outputs, areas, target, wish)
                  /\ Recovered(window, outputs, areas)

\* The work areas, the choice of an output, the absolute placement and the
\* rescue of windows without an output agree with each other: each is computed
\* elsewhere, in root or output coordinates, of contents or of frames.
PlacedOnItsOutput == [][AnsweredOnOutput(question')]_question

-----------------------------------------------------------------------------
(* Resizes *)

Hints(minimum, maximum, base, increment) ==
    [NoHints EXCEPT !.minimum = minimum, !.maximum = maximum,
                    !.base = base, !.increment = increment]

HintSets == {NoHints,
             Hints(Size(2, 1), Size(5, 4), NoSize, NoSize),
             Hints(NoSize, NoSize, Size(1, 1), Size(2, 3)),
             Hints(Size(3, 2), Size(6, 5), Size(1, 2), Size(2, 1))}

Lattice(hints) == {size \in [Axes -> 1 .. 6] : Satisfies(size, hints)}

ContentOf(size) == AtPosition([horizontal |-> 3, vertical |-> 2], size)

DraggedEdges ==
    {{direction} : direction \in Directions}
    \cup {NearestEdges(ContentOf(Size(4, 4)), Size(x, y)) : x \in {3, 6}, y \in {2, 5}}

\* The sides that do not move stay where they are.
AnchorsKept(before, after, edges) ==
    \A axis \in Axes :
        IF [axis |-> axis, toward |-> "start"] \in edges
        THEN End(after[axis]) = End(before[axis])
        ELSE after[axis].start = before[axis].start

DragKeepsAnchor(window, edges, delta, resistance) ==
    LET resized == X11ResizeDrag(window, edges, delta, Root, resistance)
    IN  /\ AnchorsKept(window.geometry, resized, edges)
        /\ Satisfies(SizeOf(resized), window.hints)

\* Shrinking by other than whole increments is left out: the size is rounded
\* down, the near edge is not, and the far edge follows by the difference.
RelativeKeepsAnchor(window, direction, delta) ==
    LET resized == RelativeResize(window.geometry,
                       [other \in Directions |-> IF other = direction THEN delta ELSE 0],
                       window.hints)
        axis == direction.axis
        increment == Given(window.hints.increment, OnePixel)[axis]
        whole == delta >= 0 \/ delta % increment = 0
    IN  /\ whole => AnchorsKept(window.geometry, resized, {direction})
        /\ delta >= 0 => resized[axis].length >= window.geometry[axis].length
        /\ delta <= 0 => resized[axis].length <= window.geometry[axis].length

\* A program that asks for another size, and then for its old one, is back
\* where it was, whatever its gravity.
SizeAndBack(window, size) ==
    LET asking(new) == [axis \in Axes |-> Asked(new[axis])]
        unmoved == [axis \in Axes |-> Unasked]
        there == ConfigureManaged(window, unmoved, asking(size))
    IN  ConfigureManaged([window EXCEPT !.geometry = there], unmoved,
                         asking(SizeOf(window.geometry))) = window.geometry

\* Of two steps of a keyboard resize, one undoes the other, unless the hints
\* stopped the first short of a whole step.
KeyboardStepsUndo(window, edge, fine) ==
    LET step(from, pressed) == KeyboardResize(from, edge, pressed, fine, Root)
        there == step(window, Opposite(edge))
        back == step([window EXCEPT !.geometry = there], edge)
        change == window.geometry[edge.axis].length - there[edge.axis].length
    IN  /\ AnchorsKept(window.geometry, there, {edge})
        /\ Satisfies(SizeOf(there), window.hints)
        /\ change = KeyboardStep(window, edge.axis, fine) => back = window.geometry

\* A keyboard move ends inside, and back where it began unless the end of the
\* work area was in the way.
KeyboardMovesUndo(window, direction, fine, toEdge) ==
    LET move(from, way, end) == KeyboardMoveDrag(from, way, fine, end, Root)
        there == move(window, direction, toEdge)
        back == move([window EXCEPT !.geometry = there], Opposite(direction), FALSE)
        space == AvailableGeometry(Root, window.extents)
        step == IF fine THEN 1 ELSE 8
    IN  Fits(SizeOf(window.geometry), space) =>
            /\ Inside(space, there)
            /\ toEdge => Side(there, direction) = Side(space, direction)
            /\ /\ ~toEdge
               /\ Inside(space, window.geometry)
               /\ Distance(there[direction.axis].start,
                           window.geometry[direction.axis].start) = step
               => back = window.geometry

Neighbors == {<<>>, <<Rectangle(7, 2, 3, 3)>>, <<Rectangle(8, 1, 2, 4), Rectangle(1, 6, 5, 2)>>}

\* A dragged window keeps its size, leaves the pointer only to touch an edge of
\* another window or of the space for it, within reach of each, and, with the
\* space alone to snap to, does not move when it is taken up again there.
DragSnaps(window, delta, targets, resistance, snapToWindows) ==
    LET drag(from, by) == MoveDrag(from, by, targets, Root, resistance, snapToWindows)
        there == drag(window, delta)
        space == AvailableGeometry(Root, window.extents)
        edges(rectangle, axis) == {rectangle[axis].start, End(rectangle[axis])}
        others == {targets[index] : index \in DOMAIN targets}
    IN  /\ SizeOf(there) = SizeOf(window.geometry)
        /\ \A axis \in Axes :
              LET away == Distance(there[axis].start, window.geometry[axis].start + delta[axis])
              IN  \/ away = 0
                  \/ /\ away <= resistance
                     /\ edges(there, axis) \cap edges(space, axis) # {}
                  \/ /\ snapToWindows
                     /\ away <= resistance
                     /\ edges(OuterGeometry(window.extents, there), axis)
                            \cap UNION {edges(other, axis) : other \in others} # {}
                  \/ /\ snapToWindows
                     /\ away <= 2 * resistance
                     /\ edges(there, axis) \cap edges(space, axis) # {}
        /\ ~snapToWindows => drag([window EXCEPT !.geometry = there], Size(0, 0)) = there

Movable(x, y, size) ==
    Window(AtPosition(Size(x, y), size), Frame, NoHints, NorthWest)

ResizeQuestions ==
    UNION {[about : {"resizes"}, hints : {hints}, size : Lattice(hints)] : hints \in HintSets}

MoveQuestions ==
    [about : {"keyboard moves"}, size : {Size(1, 1), Size(2, 3)}, x : 0 .. 9, y : 0 .. 6]

DragQuestions ==
    [about : {"drags"}, x : {2, 4, 7}, y : {2, 4}, delta : [Axes -> -2 .. 2],
     targets : Neighbors]

AnsweredSteadily(asked) ==
    /\ asked.about = "resizes" =>
          LET window(gravity) ==
                  Window(ContentOf(asked.size), Frame, asked.hints, gravity)
          IN  /\ \A edges \in DraggedEdges, dx \in {-4, -1, 0, 2}, dy \in {-2, 0, 3},
                    resistance \in {0, 1} :
                    DragKeepsAnchor(window(NorthWest), edges, Size(dx, dy), resistance)
              /\ \A direction \in Directions, delta \in -3 .. 3 :
                    RelativeKeepsAnchor(window(NorthWest), direction, delta)
              /\ \A edge \in Directions, fine \in BOOLEAN :
                    KeyboardStepsUndo(window(NorthWest), edge, fine)
              /\ \A gravity \in Gravities, new \in Lattice(asked.hints) :
                    SizeAndBack(window(gravity), new)
    /\ asked.about = "keyboard moves" =>
          \A direction \in Directions, fine \in BOOLEAN, toEdge \in BOOLEAN :
              KeyboardMovesUndo(Movable(asked.x, asked.y, asked.size),
                                direction, fine, toEdge)
    /\ asked.about = "drags" =>
          \A resistance \in 0 .. 2, snapToWindows \in BOOLEAN :
              DragSnaps(Movable(asked.x, asked.y, Size(3, 2)), asked.delta,
                        asked.targets, resistance, snapToWindows)

\* However a window is moved or resized (a drag that hints, edges and other
\* windows cut short, steps of the keyboard, a relative action rounded to
\* increments, a program's own request with a gravity), it does not creep.
WindowsDoNotCreep == [][AnsweredSteadily(question')]_question

-----------------------------------------------------------------------------
(* Edge actions *)

EdgeBounds == Rectangle(0, 0, 8, 5)
EdgeBlocks == {Rectangle(x, y, 2, height) : x \in {1, 3, 6}, y \in {0, 2}, height \in {1, 2}}
Movers == {Rectangle(x, y, width, height) :
              x \in {0, 3, 4}, y \in {0, 1, 3}, width \in {1, 3}, height \in {1, 2}}

Plain(rectangle) == Window(rectangle, NoExtents, NoHints, NorthWest)

\* Every step leads on until the end of the bounds is reached, and a step back
\* returns to the stop before.
StepsReverse(rectangle, obstacles, direction) ==
    LET step(r, d) == MoveToEdge(Plain(r), EdgeBounds, obstacles, d)
        next == step(rectangle, direction)
        after == step(next, direction)
    IN  /\ Inside(EdgeBounds, next)
        /\ next = rectangle <=> Side(rectangle, direction) = Side(EdgeBounds, direction)
        /\ next # rectangle => Beyond(rectangle[direction.axis].start,
                                      next[direction.axis].start, direction)
        /\ after # next => step(after, Opposite(direction)) = next

Free(rectangle, obstacles) ==
    \A obstacle \in obstacles : ~Intersects(rectangle, obstacle)

\* Growing one side up to the next edge covers nothing that was clear.
GrowthStaysFree(rectangle, obstacles, direction) ==
    LET grown == DirectionalGrow(rectangle, EdgeBounds, obstacles, direction, Stop)
    IN  /\ Inside(EdgeBounds, grown)
        /\ Inside(grown, rectangle)
        /\ Free(rectangle, obstacles) => Free(grown, obstacles)

\* GrowToEdge grows until the window touches the end of the work area, and only
\* then takes the other side back, never below half of the window.
GrowsThenShrinks(rectangle, obstacles, direction) ==
    LET grown == GrowToEdge(Plain(rectangle), EdgeBounds, obstacles, direction)
        axis == direction.axis
    IN  /\ Inside(EdgeBounds, grown)
        /\ IF Side(rectangle, direction) = Side(EdgeBounds, direction)
           THEN /\ Inside(rectangle, grown)
                /\ 2 * grown[axis].length + 1 >= rectangle[axis].length
           ELSE /\ Inside(grown, rectangle)
                /\ grown # rectangle

\* Filling the space around it, a window keeps the ground it has, and shrinking
\* it gives up no more than half.
FillsAndShrinks(rectangle, obstacles, direction) ==
    LET filled == FillSpace(Plain(rectangle), EdgeBounds, obstacles)
        shrunk == ShrinkToEdge(Plain(rectangle), EdgeBounds, obstacles, direction)
        axis == direction.axis
    IN  /\ Inside(EdgeBounds, filled)
        /\ Inside(filled, rectangle)
        /\ Inside(rectangle, shrunk)
        /\ 2 * shrunk[axis].length + 1 >= rectangle[axis].length
        /\ Side(shrunk, direction) = Side(rectangle, direction)

\* Of a shaded window only the width can change, and its height comes back.
ShadedKeepsHeight(rectangle, obstacles, direction) ==
    LET window == [Plain(rectangle) EXCEPT !.shaded = TRUE, !.extents = Frame]
        results == {GrowToEdge(window, EdgeBounds, obstacles, direction),
                    ShrinkToEdge(window, EdgeBounds, obstacles, direction),
                    FillSpace(window, EdgeBounds, obstacles)}
    IN  \A result \in results : result.vertical = rectangle.vertical

\* Going on in one direction visits each window at most once, and goes on as
\* long as the centre of a window lies ahead.
NavigationLeadsOn(windows, heading) ==
    LET next(id) == DirectionalTarget(id, windows[id].geometry, windows, heading)
        ahead(id) == {other \in DOMAIN windows :
                         DirectionalScore(windows[id].geometry, windows[other].geometry,
                                          heading) # <<>>}
    IN  \A id \in DOMAIN windows :
            /\ next(id) = NoTarget.id <=> ahead(id) = {}
            /\ next(id) # NoTarget.id =>
                  /\ next(id) # id
                  /\ next(next(id)) \notin {id, next(id)}

\* Raising or lowering as AdaptiveRestack says never asks for the same again,
\* and once more undoes it.
RestackAlternates(stacking, id) ==
    LET window == CHOOSE window \in {stacking[place] : place \in DOMAIN stacking} : window.id = id
        others(order) == SelectSeq(order, LAMBDA other : other.id # id)
        decided(order) == AdaptiveRestack(id, window.geometry, order)
        restacked(order) ==
            CASE decided(order) = "raise" -> Append(others(order), window)
              [] decided(order) = "lower" -> <<window>> \o others(order)
              [] OTHER -> order
        once == restacked(stacking)
    IN  /\ decided(stacking) = "raise" => decided(once) = "lower"
        /\ decided(stacking) = "lower" => decided(once) = "raise"

Triples == {<<[id |-> 1, geometry |-> Rectangle(2, 1, 2, 2)],
              [id |-> 2, geometry |-> Rectangle(x, y, 2, 2)],
              [id |-> 3, geometry |-> Rectangle(u, v, 1, 2)]>> :
                x \in {0, 2, 3}, y \in {0, 1, 3}, u \in {0, 2, 4}, v \in {0, 1, 2}}

EdgeQuestions ==
    [about : {"edges"}, rectangle : {r \in Movers : Inside(EdgeBounds, r)},
     obstacles : AtMost(2, EdgeBlocks)]

WindowsQuestions == [about : {"windows"}, windows : Triples]

AnsweredOnward(asked) ==
    /\ asked.about = "edges" =>
          \A direction \in Directions :
              /\ StepsReverse(asked.rectangle, asked.obstacles, direction)
              /\ GrowthStaysFree(asked.rectangle, asked.obstacles, direction)
              /\ GrowsThenShrinks(asked.rectangle, asked.obstacles, direction)
              /\ FillsAndShrinks(asked.rectangle, asked.obstacles, direction)
              /\ ShadedKeepsHeight(asked.rectangle, asked.obstacles, direction)
    /\ asked.about = "windows" =>
          /\ \A heading \in Headings : NavigationLeadsOn(asked.windows, heading)
          /\ \A id \in DOMAIN asked.windows : RestackAlternates(asked.windows, id)

\* Moving and growing from edge to edge, going from window to window, and the
\* adaptive raise or lower get somewhere: no constellation of neighbouring or
\* overlapping windows holds a window up, pushes it outside, or makes the
\* action go to and fro.
ActionsLeadOn == [][AnsweredOnward(question')]_question

-----------------------------------------------------------------------------
(* The grid of workspaces: every grid of up to six *)

Grids == {Layout(count, columns, rows, orientation, corner) :
             count \in 1 .. 6, columns \in 0 .. 6, rows \in 0 .. 6,
             orientation \in Orientations, corner \in GridCorners} \ {NoLayout}

GridQuestions ==
    [about : {"grids"}, grid : Grids]
    \cup [about : {"layouts"}, count : 1 .. 6, columns : 0 .. 7]

WithCell(grid) == {workspace \in 0 .. grid.count - 1 : CellOf(grid, workspace) # NoCell}

Back(direction) ==
    CASE direction = "left" -> "right" [] direction = "right" -> "left"
      [] direction = "up" -> "down"    [] direction = "down" -> "up"

Closed(grid, cells) ==
    \A workspace \in cells, direction \in GridDirections :
        Neighbor(grid, workspace, direction, FALSE) \in cells

ThereAndBack(grid, workspace) ==
    LET cell == CellOf(grid, workspace)
    IN  /\ WorkspaceAt(grid, cell.column, cell.row) = workspace
        /\ \A direction \in GridDirections, wrap \in BOOLEAN :
              LET next == Neighbor(grid, workspace, direction, wrap)
              IN  next # workspace =>
                      Neighbor(grid, next, Back(direction), wrap) = workspace

AnsweredBack(asked) ==
    /\ asked.about = "grids" =>
          /\ \A workspace \in WithCell(asked.grid) : ThereAndBack(asked.grid, workspace)
          /\ \A cells \in SUBSET WithCell(asked.grid) :
                Closed(asked.grid, cells) => cells \in {{}, WithCell(asked.grid)}
    /\ asked.about = "layouts" =>
          LET count == asked.count
              columns == asked.columns
              pagers == {NoLayout, Layout(count, 2, 3, "vertical", "bottomLeft")}
          IN  /\ WithCell(ConfiguredLayout(count, columns)) = 0 .. count - 1
              /\ \A current \in 1 .. 6, pager \in pagers :
                    LET layout == LayoutInForce(OneRow(current), count, pager, columns)
                    IN  layout.count = count
              /\ \A workspace \in 0 .. count - 1 :
                    RingNeighbor(RingNeighbor(workspace, count, "next"), count, "previous")
                        = workspace

\* Whatever its orientation, corner and ragged end, a grid can be walked: cells
\* and workspaces translate into each other, a step and a step back return,
\* with and without wrapping past empty cells, every workspace that has a cell
\* is reached from every other, the configured grid has a cell for all, and no
\* change of their number leaves a layout of another number in force.
GridLeadsBack == [][AnsweredBack(question')]_question

-----------------------------------------------------------------------------
Questions ==
    PlacementQuestions \cup OutputQuestions \cup ResizeQuestions \cup MoveQuestions
        \cup DragQuestions \cup EdgeQuestions \cup WindowsQuestions \cup GridQuestions

Ask == question = NoQuestion /\ question' \in Questions

=============================================================================
