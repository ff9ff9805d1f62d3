----------------------------- MODULE CoreResize -----------------------------
(***************************************************************************)
(* Sizes and edges in the display-neutral core: size hints, pointer,       *)
(* keyboard and relative resizes, gravity, and the actions that move,      *)
(* grow and shrink a window to the next edge (nobox-core/src/lib.rs).      *)
(*                                                                         *)
(* A size is a function from the axes to lengths; a size hint the client   *)
(* did not give is NoSize.                                                 *)
(***************************************************************************)
EXTENDS CoreGeometry

-----------------------------------------------------------------------------
(* Size hints: [minimum, maximum, base, increment, aspect] *)

NoSize == Both(LAMBDA axis : 0)
OnePixel == Both(LAMBDA axis : 1)
NoAspect == <<>>

NoHints == [minimum |-> NoSize, maximum |-> NoSize, base |-> NoSize,
            increment |-> NoSize, aspect |-> NoAspect]

Given(size, otherwise) == IF size = NoSize THEN otherwise ELSE size

\* The largest length of the lattice base + n * increment up to the request.
SnapDimension(requested, base, increment) ==
    IF increment <= 1 \/ requested <= base THEN requested
    ELSE Smaller(base + ((requested - base) \div increment) * increment, MaxLength)

\* The height that gives a width a ratio, at least one pixel.
ScaledHeight(width, ratio) ==
    Smaller(Larger((width * ratio.high) \div ratio.wide, 1), MaxLength)

\* Only the height gives way to the aspect range.
ConstrainAspect(size, base, range) ==
    LET width == Larger(1, size.horizontal - base.horizontal)
        asked == Larger(1, size.vertical - base.vertical)
        lower == IF asked * range.minimum.wide > width * range.minimum.high
                 THEN ScaledHeight(width, range.minimum) ELSE asked
        height == IF lower * range.maximum.wide < width * range.maximum.high
                  THEN ScaledHeight(width, range.maximum) ELSE lower
    IN  [horizontal |-> Smaller(width + base.horizontal, MaxLength),
         vertical |-> Smaller(height + base.vertical, MaxLength)]

\* SizeHints::constrain
Constrain(hints, requested) ==
    LET minimum == Given(hints.minimum, OnePixel)
        maximum == Both(LAMBDA axis :
                        Larger(IF hints.maximum = NoSize THEN MaxLength
                                                         ELSE hints.maximum[axis],
                               minimum[axis]))
        base == Given(hints.base, minimum)
        fitted == Both(LAMBDA axis : Clamped(requested[axis], minimum[axis], maximum[axis]))
        stepped == IF hints.increment = NoSize THEN fitted
                   ELSE Both(LAMBDA axis :
                            Clamped(SnapDimension(fitted[axis], base[axis],
                                                  hints.increment[axis]),
                                    minimum[axis], maximum[axis]))
    IN  IF hints.aspect = NoAspect THEN stepped
        ELSE ConstrainAspect(stepped, hints.base, hints.aspect)

\* A size the hints leave as it is.
Satisfies(size, hints) == Constrain(hints, size) = size

-----------------------------------------------------------------------------
(* Interactive resizes.  `edges` is the set of sides that move. *)

\* ResizeEdges::nearest: of each axis the edge the pointer is nearer to.
NearestEdges(rectangle, pointer) ==
    {IF pointer[axis] < rectangle[axis].start + rectangle[axis].length \div 2
     THEN [axis |-> axis, toward |-> "start"]
     ELSE [axis |-> axis, toward |-> "end"] : axis \in Axes}

\* A dragged edge follows the pointer and sticks to the same edge of the bounds.
DraggedSide(rectangle, edges, delta, bounds, resistance, direction) ==
    LET side == Side(rectangle, direction)
        moved == side + delta[direction.axis]
        sticky == Side(bounds, direction)
    IN  IF direction \notin edges THEN side
        ELSE IF Distance(moved, sticky) <= resistance THEN sticky ELSE moved

PointerResize(initial, edges, delta, bounds, resistance) ==
    Both(LAMBDA axis :
        LET side(toward) == DraggedSide(initial, edges, delta, bounds, resistance,
                                        [axis |-> axis, toward |-> toward])
        IN  Span(ToCoordinate(side("start")), ToLength(side("end") - side("start"))))

\* The drag of either backend: the size the hints allow, held at the edge that
\* does not move.  `allowed` is the backend's own limit on a size.
ResizeDrag(initial, edges, delta, bounds, resistance, hints, allowed) ==
    LET resized == PointerResize(initial, edges, delta, bounds, resistance)
        size == Constrain(hints, SizeOf(resized))
        length(axis) == Smaller(size[axis], allowed[axis])
        initialEnd(axis) == ToCoordinate(initial[axis].start
                                         + Smaller(initial[axis].length, MaxCoordinate))
    IN  Both(LAMBDA axis :
            Span(IF [axis |-> axis, toward |-> "start"] \in edges
                 THEN ToCoordinate(initialEnd(axis) - Smaller(length(axis), MaxCoordinate))
                 ELSE resized[axis].start,
                 length(axis)))

-----------------------------------------------------------------------------
(* Relative resizes: each side grows outward by a signed delta *)

\* ResizeDeltas::between
DeltasBetween(current, desired) ==
    [direction \in Directions |->
        ToCoordinate(IF direction.toward = "start"
                     THEN Side(current, direction) - Side(desired, direction)
                     ELSE Side(desired, direction) - Side(current, direction))]

\* A change smaller than an increment counts as a whole one.
PromoteDelta(delta, increment) ==
    LET step == Larger(increment, 1)
    IN  IF delta = 0 \/ Distance(delta, 0) >= step THEN delta
        ELSE IF delta > 0 THEN step ELSE -step

\* Mutant: the near edge moves as asked, however little the size changes.
EdgeOffsetAsAsked(requested, difference) == requested

\* The near edge moves as asked, but never by more than the size changes.
ConstrainedEdgeOffset(requested, difference) ==
    IF requested < 0 THEN Larger(requested, difference)
    ELSE IF requested > 0 THEN Smaller(requested, difference) ELSE 0

RelativeResize(rectangle, deltas, hints) ==
    LET increment == Given(hints.increment, OnePixel)
        grow(axis, toward) ==
            PromoteDelta(deltas[[axis |-> axis, toward |-> toward]], increment[axis])
        size == Constrain(hints,
                    Both(LAMBDA axis : ToLength(rectangle[axis].length
                                                + grow(axis, "start") + grow(axis, "end"))))
    IN  Both(LAMBDA axis :
            Span(ToCoordinate(rectangle[axis].start
                    + ConstrainedEdgeOffset(-grow(axis, "start"),
                                            rectangle[axis].length - size[axis])),
                 size[axis]))

-----------------------------------------------------------------------------
(* Gravity: of each axis the share of a size change that the start gives   *)
(* up, as the divisor of the change; 0 when the start stays.               *)

\* Integer division of i64: toward zero.
Quotient(dividend, divisor) ==
    IF dividend >= 0 THEN dividend \div divisor ELSE -((-dividend) \div divisor)

Gravities == [Axes -> 0 .. 2]

\* NorthWest, Static and Forget keep the start of both axes, SouthEast keeps
\* the ends, Center keeps the middle, and the others mix them.
NorthWest == Both(LAMBDA axis : 0)

\* Gravity::adjust_resize, for an axis whose coordinate was not asked for.
AdjustedStart(span, newLength, divisor) ==
    IF divisor = 0 THEN span.start
    ELSE ToCoordinate(span.start - Quotient(newLength - span.length, divisor))

AdjustResize(rectangle, size, gravity, requested) ==
    Both(LAMBDA axis :
        IF axis \in requested THEN rectangle[axis].start
        ELSE AdjustedStart(rectangle[axis], size[axis], gravity[axis]))

-----------------------------------------------------------------------------
(* To the next edge *)

\* The rectangles that stand in the way along an axis.
InTheWay(rectangle, obstacles, axis) ==
    {obstacle \in obstacles : Beside(rectangle[Other(axis)], obstacle[Other(axis)])}

\* directional_move_geometry: to the next position beside an obstacle, else to
\* the end of the bounds.
DirectionalMove(rectangle, bounds, obstacles, direction) ==
    LET axis == direction.axis
        span == rectangle[axis]
        first == bounds[axis].start
        last == first + Less(bounds[axis].length, span.length)
        stops == UNION {{obstacle[axis].start - span.length, End(obstacle[axis])} :
                            obstacle \in InTheWay(rectangle, obstacles, axis)}
        ahead == {stop \in stops : /\ stop \in first .. last
                                   /\ Beyond(span.start, stop, direction)}
        limit == IF direction.toward = "start" THEN first ELSE last
    IN  [rectangle EXCEPT ![axis] =
            Span(ToCoordinate(FirstMet(ahead \cup {limit}, direction)), span.length)]

EdgeCandidates(rectangle, obstacles, axis) ==
    UNION {{obstacle[axis].start, End(obstacle[axis])} :
               obstacle \in InTheWay(rectangle, obstacles, axis)}

\* Mutant: the edge the side already lies on is met again.
NearestEdgeAgain(current, boundary, candidates, direction) ==
    IF ~Beyond(current, boundary, direction) THEN current
    ELSE FirstMet({boundary} \cup
                  {candidate \in candidates :
                      /\ ~Beyond(candidate, current, direction)
                      /\ ~Beyond(boundary, candidate, direction)}, direction)

\* nearest_edge: the first candidate beyond the current one, no farther than the
\* boundary; the current one when the boundary is not beyond it.
NearestEdge(current, boundary, candidates, direction) ==
    IF ~Beyond(current, boundary, direction) THEN current
    ELSE FirstMet({boundary} \cup
                  {candidate \in candidates :
                      /\ Beyond(current, candidate, direction)
                      /\ ~Beyond(boundary, candidate, direction)}, direction)

\* geometry_with_side
WithSide(rectangle, direction, target) ==
    LET span == rectangle[direction.axis]
    IN  [rectangle EXCEPT ![direction.axis] =
            IF direction.toward = "start"
            THEN Span(ToCoordinate(target), ToLength(End(span) - target))
            ELSE Span(span.start, ToLength(target - span.start))]

\* Whether growth may pass an edge the side already touches.
Stop == "stop"
Cross == "cross"

DirectionalGrow(rectangle, bounds, obstacles, direction, blocking) ==
    LET current == Side(rectangle, direction)
        boundary == Side(bounds, direction)
        candidates == EdgeCandidates(rectangle, obstacles, direction.axis)
    IN  IF blocking = Stop /\ current \in candidates \cup {boundary} THEN rectangle
        ELSE WithSide(rectangle, direction,
                      NearestEdge(current, boundary, candidates, direction))

\* The side opposite the direction follows it, and leaves half of the axis.
DirectionalShrink(rectangle, bounds, obstacles, direction) ==
    LET moving == Opposite(direction)
        anchored == Side(rectangle, direction)
        half == Larger(rectangle[direction.axis].length \div 2, 1)
        target == NearestEdge(Side(rectangle, moving), Side(bounds, direction),
                              EdgeCandidates(rectangle, obstacles, direction.axis),
                              direction)
    IN  WithSide(rectangle, moving,
                 IF direction.toward = "end" THEN Smaller(target, anchored - half)
                                             ELSE Larger(target, anchored + half))

GrowAllEdges(rectangle, bounds, obstacles, blocking) ==
    LET grown(direction) == DirectionalGrow(rectangle, bounds, obstacles, direction, blocking)
        side(axis, toward) ==
            LET direction == [axis |-> axis, toward |-> toward]
            IN  Side(grown(direction), direction)
    IN  Both(LAMBDA axis : Span(ToCoordinate(side(axis, "start")),
                                ToLength(side(axis, "end") - side(axis, "start"))))

GrowToFill(rectangle, bounds, obstacles) ==
    LET first == GrowAllEdges(rectangle, bounds, obstacles, Stop)
    IN  IF first = rectangle
        THEN GrowAllEdges(rectangle, bounds, obstacles, Cross) ELSE first

=============================================================================
