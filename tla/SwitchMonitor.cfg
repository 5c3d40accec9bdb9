SPECIFICATION MonitorFairSpec
CONSTANTS
    Switches <- MCSwitches
    BatteryCapable <- MCBatteryCapable
    FallbackPoll = 2
    FailureThreshold = 3
    InitialDelay = 1
    MaxDelay = 3
INVARIANTS
    FreshData
PROPERTIES
    SilenceIsNoticed
    MonitorRecovers
