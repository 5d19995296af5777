CONSTANTS
    None = None
    CURRENT = 2
    MaxMoves = 3
    MaxTimeouts = 2
SPECIFICATION Spec
INVARIANTS SlotsAreOwn
CHECK_DEADLOCK FALSE
