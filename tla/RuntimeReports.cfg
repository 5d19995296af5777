CONSTANTS
    None = None
    Apps = {a1, a2}
    Inventories <- Networks
    protocol_version = 3
    Groups <- OneGroup
    Watched <- GatewayAndDevice
    Settings <- Asked
    MaxCalls = 3
    MaxEvents = 2
SPECIFICATION Spec
SYMMETRY Symmetry
INVARIANTS TypeOK StateIsCurrent ListenersInformed OneTopology ConfirmedAsAsked
CHECK_DEADLOCK FALSE
