CONSTANTS
    a1 = a1
    a2 = a2
    Loop = Loop
    Nobody = Nobody
    Apps = {a1, a2}
    MaxVersion = 1
    MaxCalls = 2
    MaxFaults = 1
    MaxCancels = 1
SPECIFICATION FairSpec
PROPERTIES
    StopEnds
    Reconnects
CHECK_DEADLOCK FALSE
