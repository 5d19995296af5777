CONSTANTS
    Addresses = {1, 2}
    GatewayMethods <- FirmwareOnly
    DeviceMethods <- TypeOnly
    MaxRounds = 2
    MaxFaults = 2
SPECIFICATION FairSpec
INVARIANTS
    TypeOK
    FindsAllDevices
    ReportingRestored
PROPERTIES
    DiscoverEnds
CHECK_DEADLOCK FALSE
