CONSTANTS
    a1 = a1
    a2 = a2
    Loop = Loop
    Nobody = Nobody
    Apps = {a1}
    MaxVersion = 2
    MaxCalls = 2
    MaxFaults = 0
    MaxCancels = 0
SPECIFICATION Spec
PROPERTIES RediscoverMissesNothing
CHECK_DEADLOCK FALSE
