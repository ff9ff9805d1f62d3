\* A window, its program, the server and the window manager.
SPECIFICATION MCSpec
CONSTANTS
    MaxCommands = 3
    MaxWithdrawals = 2
    MaxCoordinate = 100
    OverlapPenalty = 3
    MaxWireLength = 50
INVARIANTS
    NothingExpectedForEver
    VisibilitySettles
PROPERTIES
    PlacementIsBest
    PlacedOnItsOutput
    WindowsDoNotCreep
    ActionsLeadOn
    GridLeadsBack
    NeverGivenUpUnasked
CHECK_DEADLOCK FALSE
