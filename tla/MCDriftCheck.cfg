\* One crash and two moves of the fleet while the check goes on.
CONSTANTS
    Edges = {1, 2, 3}
    MaxCrashes = 1
    MaxMoves = 2
SPECIFICATION DriftSpec
INVARIANTS NothingInvented StoppedIsNotInSync
CHECK_DEADLOCK FALSE
