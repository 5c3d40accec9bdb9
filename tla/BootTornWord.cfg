SPECIFICATION Spec
CONSTANTS
    GenerationModulus = 6
    MaxPendingAttempts = 3
    Erased = Erased
    Corrupt = Corrupt
    Unreadable = Unreadable
    TornValues = {Corrupt, Unreadable}
    MaxFaults = 0
    MaxPowerLoss = 1
    FactorySecurityCounter = 1
    FactoryBuildVersion = 1
    SecurityCounters = {1, 2}
    BuildVersions = {1}
INVARIANTS
    PowerLossIsSurvived
