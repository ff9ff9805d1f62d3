--------------------------- MODULE WorkspaceGrid ----------------------------
(***************************************************************************)
(* The grid of workspaces: WorkspaceLayout of nobox-core/src/lib.rs, and   *)
(* where the X11 window manager takes its layout from.                     *)
(***************************************************************************)
EXTENDS Integers

AtLeastOne(number) == IF number >= 1 THEN number ELSE 1

CutTo(limit, number) == IF number > limit THEN limit ELSE AtLeastOne(number)

Orientations == {"horizontal", "vertical"}
GridCorners == {"topLeft", "topRight", "bottomRight", "bottomLeft"}
GridDirections == {"left", "right", "up", "down"}

\* An Option<WorkspaceLayout> that is None.
NoLayout == [count |-> 0]

-----------------------------------------------------------------------------
(* WorkspaceLayout::new *)

CeilingQuotient(dividend, divisor) == (dividend + divisor - 1) \div divisor

\* One dimension of zero follows from the count; both are cut to the count.
Layout(count, columns, rows, orientation, corner) ==
    LET workspaces == AtLeastOne(count)
        wide == IF columns = 0 THEN CeilingQuotient(workspaces, AtLeastOne(rows)) ELSE columns
        high == IF columns # 0 /\ rows = 0 THEN CeilingQuotient(workspaces, columns) ELSE rows
    IN  IF columns = 0 /\ rows = 0 THEN NoLayout
        ELSE [count |-> workspaces,
              columns |-> CutTo(workspaces, wide),
              rows |-> CutTo(workspaces, high),
              orientation |-> orientation, corner |-> corner]

OneRow(count) ==
    [count |-> AtLeastOne(count), columns |-> AtLeastOne(count), rows |-> 1,
     orientation |-> "horizontal", corner |-> "topLeft"]

-----------------------------------------------------------------------------
(* Cells: the corner turns columns and rows round *)

NoCell == [column |-> -1, row |-> -1]

Turned(layout, column, row) ==
    [column |-> IF layout.corner \in {"topRight", "bottomRight"}
                THEN layout.columns - 1 - column ELSE column,
     row |-> IF layout.corner \in {"bottomRight", "bottomLeft"}
             THEN layout.rows - 1 - row ELSE row]

\* coordinate: a workspace beyond the grid has no cell.
CellOf(layout, workspace) ==
    LET column == IF layout.orientation = "horizontal" THEN workspace % layout.columns
                                                       ELSE workspace \div layout.rows
        row == IF layout.orientation = "horizontal" THEN workspace \div layout.columns
                                                    ELSE workspace % layout.rows
    IN  IF \/ workspace >= layout.count
           \/ row >= layout.rows
           \/ column >= layout.columns
        THEN NoCell ELSE Turned(layout, column, row)

\* Mutant: the empty cells of a ragged row or column are taken for workspaces.
WorkspaceAtAnyCell(layout, column, row) ==
    LET cell == Turned(layout, column, row)
    IN  IF layout.orientation = "horizontal"
        THEN cell.row * layout.columns + cell.column
        ELSE cell.column * layout.rows + cell.row

\* workspace_at: a cell of a ragged row or column is empty.
NoWorkspace == -1

WorkspaceAt(layout, column, row) ==
    LET cell == Turned(layout, column, row)
        index == IF layout.orientation = "horizontal"
                 THEN cell.row * layout.columns + cell.column
                 ELSE cell.column * layout.rows + cell.row
    IN  IF column >= layout.columns \/ row >= layout.rows \/ index >= layout.count
        THEN NoWorkspace ELSE index

-----------------------------------------------------------------------------
(* neighbor: the next occupied cell of the row or column, the workspace    *)
(* itself when there is none.                                              *)

Neighbor(layout, workspace, direction, wrap) ==
    LET cell == CellOf(layout, workspace)
        across == direction \in {"left", "right"}
        sense == IF direction \in {"left", "up"} THEN -1 ELSE 1
        limit == IF across THEN layout.columns ELSE layout.rows
        here == IF across THEN cell.column ELSE cell.row
        \* The position after `steps` steps: beyond the grid without wrapping.
        place(steps) == IF wrap THEN (here + sense * steps) % limit
                                ELSE here + sense * steps
        candidate(steps) ==
            IF place(steps) \notin 0 .. limit - 1 THEN NoWorkspace
            ELSE IF across THEN WorkspaceAt(layout, place(steps), cell.row)
            ELSE WorkspaceAt(layout, cell.column, place(steps))
        tried == IF wrap THEN 1 .. limit ELSE {1}
        found == {steps \in tried : candidate(steps) # NoWorkspace}
    IN  IF cell = NoCell \/ found = {} THEN workspace
        ELSE candidate(CHOOSE steps \in found : \A other \in found : steps <= other)

\* workspace_in_direction: the ring of all workspaces.
RingNeighbor(workspace, count, direction) ==
    IF direction = "previous" THEN (workspace - 1) % count
    ELSE IF direction = "next" THEN (workspace + 1) % count ELSE workspace

-----------------------------------------------------------------------------
(* Which layout is in force *)

\* configured_workspace_layout: a number of columns, or one row.
ConfiguredLayout(count, columns) ==
    IF columns = 0 THEN OneRow(count)
    ELSE Layout(count, columns, 0, "horizontal", "topLeft")

\* refresh_workspace_layout and set_workspace_layout: the pager's layout when it
\* makes sense, else the configured one, and only for the present count.
LayoutInForce(current, count, fromPager, columns) ==
    LET wanted == IF fromPager # NoLayout THEN fromPager ELSE ConfiguredLayout(count, columns)
    IN  IF wanted.count = count THEN wanted ELSE current

=============================================================================
