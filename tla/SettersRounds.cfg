CONSTANTS
    None = None
    CURRENT = 3
    MaxMoves = 3
    MaxTimeouts = 1
    MaxSets = 2
SPECIFICATION SpecSets
INVARIANTS
    TypeOK
    CurrentIsActive
    SlotsAreCurrent
    ControlsOK
    LastSetIsShown
CHECK_DEADLOCK FALSE
