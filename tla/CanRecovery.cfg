SPECIFICATION FairSpec
CONSTANTS
    RetryInterval = 2
    TickModulus = 8
    HalFaults = {"stop", "stop_timeout", "start", "notification"}
    MaxBusOff = 2
    MaxPassive = 2
    MaxFaults = 2
INVARIANTS
    NoSilentOutage
PROPERTIES
    ReportedOnBus
    RecoveredUnlessHalFailed
