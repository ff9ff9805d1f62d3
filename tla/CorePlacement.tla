--------------------------- MODULE CorePlacement ----------------------------
(***************************************************************************)
(* Choosing places: smart, centred, absolute and keyboard placement, the   *)
(* spatial choice of the next window and the adaptive raise or lower       *)
(* (nobox-core/src/lib.rs).                                                *)
(***************************************************************************)
EXTENDS CoreResize

CONSTANT OverlapPenalty         \* 6000: what every window overlapped costs

ASSUME PenaltyAssumption == OverlapPenalty \in Nat

-----------------------------------------------------------------------------
(* Smart placement *)

AtPosition(position, size) ==
    Both(LAMBDA axis : Span(position[axis], size[axis]))

Corner(bounds) == Both(LAMBDA axis : bounds[axis].start)

CenteredPlacement(size, bounds, anchor) ==
    Both(LAMBDA axis :
        Span(ClampedStart(anchor[axis].start + anchor[axis].length \div 2
                              - size[axis] \div 2,
                          bounds[axis], size[axis]),
             size[axis]))

\* placement_overlap_score, whole or column by column.
OverlapScore(rectangle, obstacles) ==
    FoldSet(LAMBDA obstacle, score :
                IF IntersectionArea(rectangle, obstacle) = 0 THEN score
                ELSE score + IntersectionArea(rectangle, obstacle) + OverlapPenalty,
            0, obstacles)

\* The edges of the bounds and of the obstacles along an axis.
PlacementEdges(bounds, obstacles, axis) ==
    UNION {{rectangle[axis].start, End(rectangle[axis])} :
               rectangle \in obstacles \cup {bounds}}

\* Mutant: only the places beyond both edges are tried.
CrossingsBeyond(bounds, obstacles) ==
    [x : PlacementEdges(bounds, obstacles, "horizontal"),
     y : PlacementEdges(bounds, obstacles, "vertical"),
     before : [Axes -> {0}]]

\* At a crossing of two edges a window can lie on either side of each edge.
Crossings(bounds, obstacles) ==
    [x : PlacementEdges(bounds, obstacles, "horizontal"),
     y : PlacementEdges(bounds, obstacles, "vertical"),
     before : [Axes -> {0, 1}]]

PositionAt(crossing, size) ==
    [horizontal |-> crossing.x - crossing.before.horizontal * size.horizontal,
     vertical |-> crossing.y - crossing.before.vertical * size.vertical]

\* The order in which the crossings are tried.
TriedBefore(one, other) ==
    LET side(crossing) == 2 * crossing.before.horizontal + crossing.before.vertical
    IN  \/ one.x < other.x
        \/ one.x = other.x /\ one.y < other.y
        \/ one.x = other.x /\ one.y = other.y /\ side(one) < side(other)

\* The first of the crossings with the lowest score whose place is inside.
LeastOverlap(size, bounds, obstacles) ==
    LET place(crossing) == AtPosition(PositionAt(crossing, size), size)
        inside == {crossing \in Crossings(bounds, obstacles) :
                      /\ \A axis \in Axes : PositionAt(crossing, size)[axis] \in Coordinates
                      /\ Inside(bounds, place(crossing))}
        score == [crossing \in inside |-> OverlapScore(place(crossing), obstacles)]
        least == Min({score[crossing] : crossing \in inside})
        best == {crossing \in inside : score[crossing] = least}
    IN  place(CHOOSE crossing \in best :
                  \A other \in best \ {crossing} : TriedBefore(crossing, other))

\* center_in_free_field: in the free cell at the placement, or in the longer
\* free field when it can be extended along one axis only.
CenterInFreeField(placement, bounds, obstacles) ==
    LET edges(axis) == PlacementEdges(bounds, obstacles, axis)
        initial == Both(LAMBDA axis :
                       Min({edge \in edges(axis) : edge >= End(placement[axis])}))
        field(axis, edge) ==
            Both(LAMBDA a : Span(placement[a].start,
                                 (IF a = axis THEN edge ELSE initial[a])
                                     - placement[a].start))
        extended == Both(LAMBDA axis :
                        Max({initial[axis]} \cup
                            {edge \in edges(axis) :
                                /\ edge > initial[axis]
                                /\ Inside(bounds, field(axis, edge))
                                /\ OverlapScore(field(axis, edge), obstacles) = 0}))
        chosen(axis) == IF extended[Other(axis)] = initial[Other(axis)]
                        THEN extended[axis] ELSE initial[axis]
        spare(axis) == chosen(axis) - End(placement[axis])
    IN  Both(LAMBDA axis :
            Span(placement[axis].start + spare(axis) \div 2, placement[axis].length))

SmartPlacement(size, bounds, obstacles, centerFreeSpace) ==
    LET meeting == {obstacle \in obstacles : Intersects(obstacle, bounds)}
        best == LeastOverlap(size, bounds, meeting)
    IN  IF \E axis \in Axes : size[axis] > bounds[axis].length
        THEN AtPosition(Corner(bounds), size)
        ELSE IF meeting = {}
        THEN IF centerFreeSpace THEN CenteredPlacement(size, bounds, bounds)
                                ELSE AtPosition(Corner(bounds), size)
        ELSE IF centerFreeSpace /\ OverlapScore(best, meeting) = 0
        THEN CenterInFreeField(best, bounds, meeting)
        ELSE best

-----------------------------------------------------------------------------
(* Absolute and keyboard placement *)

KeepOffset == [kind |-> "keep", amount |-> 0]
FromStart(amount) == [kind |-> "start", amount |-> amount]
Centered == [kind |-> "center", amount |-> 0]
FromEnd(amount) == [kind |-> "end", amount |-> amount]

PlaceAxis(current, source, target, length, placement) ==
    ToCoordinate(
        CASE placement.kind = "keep" -> target.start + (current - source.start)
          [] placement.kind = "start" -> target.start + placement.amount
          [] placement.kind = "center" ->
                 target.start + Quotient(target.length - length, 2)
          [] placement.kind = "end" ->
                 target.start + target.length - length - placement.amount)

MoveResize(current, source, target, size, placements) ==
    ClampPosition(
        Both(LAMBDA axis :
            Span(PlaceAxis(current[axis].start, source[axis], target[axis],
                           size[axis], placements[axis]),
                 size[axis])),
        target)

KeyboardMove(initial, bounds, direction, step, toEdge) ==
    LET axis == direction.axis
        pace == Smaller(step, MaxCoordinate)
        far == ToCoordinate(ToCoordinate(End(bounds[axis]))
                            - Smaller(initial[axis].length, MaxCoordinate))
        start == IF direction.toward = "start"
                 THEN IF toEdge THEN bounds[axis].start ELSE initial[axis].start - pace
                 ELSE IF toEdge THEN far ELSE initial[axis].start + pace
    IN  ClampPosition([initial EXCEPT ![axis].start = ToCoordinate(start)], bounds)

-----------------------------------------------------------------------------
(* The next window in a direction.  A heading is a pair of signs: the four *)
(* cardinal directions and the four diagonals.                             *)

Headings == [Axes -> -1 .. 1] \ {Both(LAMBDA axis : 0)}

DoubledCenter(span) == 2 * span.start + span.length

\* None when the candidate does not lie ahead; otherwise whether it is outside
\* the cone of 90 degrees, the two distances together, and the sideways one.
DirectionalScore(origin, candidate, heading) ==
    LET across == Both(LAMBDA axis : DoubledCenter(candidate[axis])
                                     - DoubledCenter(origin[axis]))
        forward == heading.horizontal * across.horizontal
                   + heading.vertical * across.vertical
        offset == Distance(heading.horizontal * across.vertical,
                           heading.vertical * across.horizontal)
    IN  IF forward <= 0 THEN <<>>
        ELSE <<IF offset > forward THEN 1 ELSE 0, forward + offset, offset>>

LowerScore(one, other) ==
    \/ one[1] < other[1]
    \/ one[1] = other[1] /\ one[2] < other[2]
    \/ one[1] = other[1] /\ one[2] = other[2] /\ one[3] < other[3]

NoTarget == [id |-> 0, score |-> <<>>]

\* directional_target: the lowest score, the earlier candidate on a tie.
DirectionalTarget(origin, geometry, candidates, heading) ==
    LET better(best, candidate) ==
            LET score == DirectionalScore(geometry, candidate.geometry, heading)
            IN  IF \/ candidate.id = origin
                   \/ score = <<>>
                   \/ best # NoTarget /\ ~LowerScore(score, best.score)
                THEN best ELSE [id |-> candidate.id, score |-> score]
    IN  FoldLeft(better, NoTarget, candidates).id

\* adaptive_restack: raise below an overlapping peer, else lower above one.
AdaptiveRestack(target, geometry, stacking) ==
    LET places == {place \in DOMAIN stacking : stacking[place].id = target}
        overlapping == {place \in DOMAIN stacking :
                           /\ stacking[place].id # target
                           /\ Intersects(geometry, stacking[place].geometry)}
    IN  IF places = {} THEN "unchanged"
        ELSE IF \E place \in overlapping : place > Min(places) THEN "raise"
        ELSE IF overlapping # {} THEN "lower" ELSE "unchanged"

=============================================================================
