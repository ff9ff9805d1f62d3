\* Two outputs that are plugged and unplugged, a program that locks twice and may die.
SPECIFICATION LockSpec
CONSTANTS
    Outputs = {left, right}
    MaxLocks = 2
    MaxPlugs = 2
    MaxScenes = 2
INVARIANTS
    NothingOrdinaryUnderWay
PROPERTIES
    StaysCovered
    FirstLockAnswered
CHECK_DEADLOCK FALSE
