---------------------------- MODULE CoreGeometry ----------------------------
(***************************************************************************)
(* The rectangles of the display-neutral core: nobox-core/src/lib.rs,      *)
(* Geometry, OutputSet, work areas, clamping and snapping.                 *)
(*                                                                         *)
(* A rectangle is a record of a span for each axis, and the operators take *)
(* the axis as a parameter, because the code treats both axes alike; x and *)
(* width are the horizontal span, y and height the vertical one.           *)
(* Coordinates are saturated to the range of an i32 and lengths to that of *)
(* a u32, as the code does; the sums between them are i64 and never        *)
(* overflow.                                                               *)
(***************************************************************************)
EXTENDS Integers, Sequences, FiniteSets, FiniteSetsExt, SequencesExt

CONSTANT MaxCoordinate          \* i32::MAX, a small number in the runs

ASSUME CoordinateAssumption == MaxCoordinate \in Nat \ {0}

-----------------------------------------------------------------------------
(* Numbers *)

MinCoordinate == -MaxCoordinate - 1
MaxLength == 2 * MaxCoordinate + 1          \* u32::MAX

Larger(a, b) == IF a >= b THEN a ELSE b
Smaller(a, b) == IF a <= b THEN a ELSE b
Clamped(value, low, high) == Larger(low, Smaller(value, high))
Distance(a, b) == IF a >= b THEN a - b ELSE b - a

\* clamp_i64_to_i32, add_coordinate, subtract_coordinate, signed_difference:
\* a value outside the range of a coordinate becomes the nearer end of it.
ToCoordinate(value) == Clamped(value, MinCoordinate, MaxCoordinate)

\* span_dimension, resize_dimension: a length of at least one pixel.
ToLength(value) == Clamped(value, 1, MaxLength)

\* An unsigned difference.
Less(a, b) == Larger(0, a - b)

-----------------------------------------------------------------------------
(* Spans and rectangles *)

Axes == {"horizontal", "vertical"}
Other(axis) == CHOOSE other \in Axes : other # axis

\* A value for each axis.
Both(Of(_)) == [horizontal |-> Of("horizontal"), vertical |-> Of("vertical")]

Coordinates == MinCoordinate .. MaxCoordinate
Lengths == 1 .. MaxLength
Spans == [start : Coordinates, length : Lengths]
Rectangles == [horizontal : Spans, vertical : Spans]

\* Geometry::new: never empty.
Span(start, length) == [start |-> start, length |-> Larger(1, length)]

\* The first coordinate after the span: axis_end, geometry_right and
\* geometry_bottom, as an i64.
End(span) == span.start + span.length

\* The last coordinate of the span, as an i32: coordinate_end.
LastPoint(span) == ToCoordinate(End(span) - 1)

\* Two inclusive spans; one that ends before it starts overlaps nothing.
SpansOverlap(firstStart, firstEnd, secondStart, secondEnd) ==
    /\ firstStart <= firstEnd
    /\ firstStart <= secondEnd
    /\ firstEnd >= secondStart

Beside(span, other) ==
    SpansOverlap(span.start, LastPoint(span), other.start, LastPoint(other))

\* The length two spans have in common, negative for a gap between them.
Shared(span, other) ==
    Smaller(End(span), End(other)) - Larger(span.start, other.start)

Intersects(left, right) ==
    \A axis \in Axes : /\ left[axis].start < End(right[axis])
                       /\ End(left[axis]) > right[axis].start

IntersectionArea(left, right) ==
    LET width == Shared(left.horizontal, right.horizontal)
        height == Shared(left.vertical, right.vertical)
    IN  IF width <= 0 \/ height <= 0 THEN 0 ELSE width * height

Gap(span, other) == Larger(0, -Shared(span, other))

RectangleDistanceSquared(left, right) ==
    LET gap(axis) == Gap(left[axis], right[axis])
    IN  gap("horizontal") * gap("horizontal") + gap("vertical") * gap("vertical")

Inside(bounds, rectangle) ==
    \A axis \in Axes : /\ rectangle[axis].start >= bounds[axis].start
                       /\ End(rectangle[axis]) <= End(bounds[axis])

Translated(rectangle, delta) ==
    Both(LAMBDA axis : Span(ToCoordinate(rectangle[axis].start + delta[axis]),
                            rectangle[axis].length))

SizeOf(rectangle) == Both(LAMBDA axis : rectangle[axis].length)

-----------------------------------------------------------------------------
(* Directions: an axis and one of its two senses *)

Left == [axis |-> "horizontal", toward |-> "start"]
Right == [axis |-> "horizontal", toward |-> "end"]
Up == [axis |-> "vertical", toward |-> "start"]
Down == [axis |-> "vertical", toward |-> "end"]

Directions == {Left, Right, Up, Down}

Opposite(direction) ==
    CHOOSE other \in Directions : /\ other.axis = direction.axis
                                  /\ other.toward # direction.toward

\* directional_side and directional_boundary: the edge of a rectangle.
Side(rectangle, direction) ==
    IF direction.toward = "start" THEN rectangle[direction.axis].start
                                  ELSE End(rectangle[direction.axis])

\* `there` lies beyond `here` in the direction.
Beyond(here, there, direction) ==
    IF direction.toward = "start" THEN there < here ELSE there > here

\* The one of a set of coordinates that is met first in the direction.
FirstMet(coordinates, direction) ==
    IF direction.toward = "start" THEN Max(coordinates) ELSE Min(coordinates)

-----------------------------------------------------------------------------
(* Decoration extents: [Directions -> length] *)

OuterGeometry(extents, content) ==
    Both(LAMBDA axis :
        LET before == extents[[axis |-> axis, toward |-> "start"]]
            after == extents[[axis |-> axis, toward |-> "end"]]
        IN  Span(ToCoordinate(content[axis].start - before),
                 Smaller(content[axis].length + before + after, MaxLength)))

ContentGeometry(extents, outer) ==
    Both(LAMBDA axis :
        LET before == extents[[axis |-> axis, toward |-> "start"]]
            after == extents[[axis |-> axis, toward |-> "end"]]
        IN  Span(ToCoordinate(outer[axis].start + before),
                 Less(outer[axis].length, before + after)))

-----------------------------------------------------------------------------
(* Work areas: what the reservations of panels and margins leave.  A       *)
(* reservation gives each edge a depth and an inclusive span along it.     *)

\* The deepest reservation at one edge among those that reach the rectangle.
ReservedDepth(rectangle, reservations, direction) ==
    LET along == rectangle[Other(direction.axis)]
        reaching == {reservation \in reservations :
                        SpansOverlap(reservation[direction].start,
                                     reservation[direction].end,
                                     along.start, LastPoint(along))}
    IN  Max({0} \cup {reservation[direction].depth : reservation \in reaching})

WorkAreaSpan(span, depthBefore, depthAfter) ==
    LET before == Smaller(depthBefore, span.length - 1)
        after == Smaller(depthAfter, span.length - before - 1)
    IN  Span(ToCoordinate(span.start + before), span.length - before - after)

WorkArea(rectangle, reservations) ==
    Both(LAMBDA axis :
        WorkAreaSpan(rectangle[axis],
            ReservedDepth(rectangle, reservations, [axis |-> axis, toward |-> "start"]),
            ReservedDepth(rectangle, reservations, [axis |-> axis, toward |-> "end"])))

-----------------------------------------------------------------------------
(* Clamping and snapping *)

\* clamp_placement_axis: an object longer than the bounds starts with them.
ClampedStart(position, bounds, length) ==
    ToCoordinate(Clamped(position, bounds.start,
                         bounds.start + Less(bounds.length, length)))

ClampPosition(rectangle, bounds) ==
    Both(LAMBDA axis :
        Span(ClampedStart(rectangle[axis].start, bounds[axis], rectangle[axis].length),
             rectangle[axis].length))

SnappedStart(span, bounds, distance) ==
    LET near == bounds.start
        far == End(bounds) - span.length
        nearBy == Distance(span.start, near)
        farBy == Distance(span.start, far)
    IN  ToCoordinate(IF nearBy <= distance /\ nearBy <= farBy THEN near
                     ELSE IF farBy <= distance THEN far ELSE span.start)

SnapMovement(rectangle, bounds, distance) ==
    Both(LAMBDA axis : Span(SnappedStart(rectangle[axis], bounds[axis], distance),
                            rectangle[axis].length))

NoSnap == [by |-> -1, to |-> 0]

\* nearest_axis_snap: the nearer of two positions within the distance, the
\* first of two as near.
NearestSnap(current, first, second, distance) ==
    LET to == IF Distance(current, first) <= Distance(current, second)
              THEN first ELSE second
    IN  IF Distance(current, to) > distance THEN NoSnap
        ELSE [by |-> Distance(current, to), to |-> to]

\* update_axis_snap: a later snap wins a tie.
BetterSnap(best, candidate) ==
    IF candidate # NoSnap /\ (best = NoSnap \/ candidate.by <= best.by)
    THEN candidate ELSE best

\* The snap of one axis beside a target that overlaps on the other axis, and
\* the alignment with its edges that follows a snap of the other axis.
AdjacentSnap(moving, target, axis, distance) ==
    IF Shared(moving[Other(axis)], target[Other(axis)]) <= 0 THEN NoSnap
    ELSE NearestSnap(moving[axis].start, End(target[axis]),
                     target[axis].start - moving[axis].length, distance)

AlignedSnap(moving, target, axis, distance) ==
    IF AdjacentSnap(moving, target, Other(axis), distance) = NoSnap THEN NoSnap
    ELSE NearestSnap(moving[axis].start, target[axis].start,
                     End(target[axis]) - moving[axis].length, distance)

SnapMovementTo(moving, targets, distance) ==
    LET beside(best, target) ==
            Both(LAMBDA axis :
                BetterSnap(BetterSnap(best[axis],
                                      AdjacentSnap(moving, target, axis, distance)),
                           AlignedSnap(moving, target, axis, distance)))
        best == FoldLeft(beside, Both(LAMBDA axis : NoSnap), targets)
    IN  Both(LAMBDA axis :
            Span(IF best[axis] = NoSnap THEN moving[axis].start
                                        ELSE ToCoordinate(best[axis].to),
                 moving[axis].length))

-----------------------------------------------------------------------------
(* Outputs: a sequence in discovery order, exactly one of them primary *)

Output(id, geometry, primary) ==
    [id |-> id, geometry |-> geometry, primary |-> primary]

FallbackOutput == Output(0, Both(LAMBDA axis : Span(0, 1)), TRUE)

OutputSet(discovered) ==
    LET isFirst(index) == \A earlier \in 1 .. index - 1 :
                              discovered[earlier].id # discovered[index].id
        kept == FoldLeft(LAMBDA outputs, index :
                             IF isFirst(index) THEN Append(outputs, discovered[index])
                                               ELSE outputs,
                         <<>>, [index \in DOMAIN discovered |-> index])
        outputs == IF kept = <<>> THEN <<FallbackOutput>> ELSE kept
        marked == {index \in DOMAIN outputs : outputs[index].primary}
        primary == IF marked = {} THEN 1 ELSE Min(marked)
    IN  [index \in DOMAIN outputs |->
            [outputs[index] EXCEPT !.primary = index = primary]]

PrimaryOutput(outputs) ==
    outputs[CHOOSE index \in DOMAIN outputs : outputs[index].primary]

\* output_for: the largest overlap, the nearest when none overlaps, the primary
\* one on a tie, then discovery order.
OutputFor(outputs, rectangle) ==
    LET overlap(output) == IntersectionArea(output.geometry, rectangle)
        distance(output) == RectangleDistanceSquared(output.geometry, rectangle)
        better(output, selected) ==
            \/ overlap(output) > overlap(selected)
            \/ /\ overlap(output) = overlap(selected)
               /\ \/ /\ overlap(output) = 0
                     /\ distance(output) < distance(selected)
                  \/ /\ distance(output) = distance(selected)
                     /\ output.primary
                     /\ ~selected.primary
    IN  FoldLeft(LAMBDA selected, output :
                     IF better(output, selected) THEN output ELSE selected,
                 outputs[1], Tail(outputs))

\* overlapping_output: only when some part of the rectangle is on it.
OnSomeOutput(outputs, rectangle) ==
    IntersectionArea(OutputFor(outputs, rectangle).geometry, rectangle) > 0

=============================================================================
