SPECIFICATION FairSpec
CONSTANTS
    GenerationModulus = 8
    MaxPendingAttempts = 3
    Erased = Erased
    Corrupt = Corrupt
    Unreadable = Unreadable
    TornValues = {Corrupt}
    MaxFaults = 0
    MaxPowerLoss = 1
    FactorySecurityCounter = 1
    FactoryBuildVersion = 1
    SecurityCounters = {1, 2, 3}
    BuildVersions = {1}
INVARIANTS
    FallbackKept
PROPERTIES
    PendingSettles
    AntiRollback
