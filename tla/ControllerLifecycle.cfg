CONSTANTS
    a1 = a1
    a2 = a2
    Loop = Loop
    Nobody = Nobody
    Apps = {a1, a2}
    MaxVersion = 2
    MaxCalls = 3
    MaxFaults = 1
    MaxCancels = 1
SPECIFICATION Spec
SYMMETRY Interchangeable
INVARIANTS
    TypeOK
    ReportingOn
    StopIsFinal
    LoopIsNotDeaf
CHECK_DEADLOCK FALSE
