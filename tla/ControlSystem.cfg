SPECIFICATION Spec
CONSTANTS
    CounterClock = 99
    MaxFrequency = 4
    DefaultFrequency = 4
    DefaultDuty = 90
    TestPoints <- MCTestPoints
    SettleTime = 1
    Window = 2
    MaxLate = 2
    TickModulus = 8
    Frequencies <- MCFrequencies
    Duties <- MCDuties
    Limits <- MCLimits
    CycleTime = 1
    FrameBudget = 2
INVARIANTS
    InhibitedIsOff
    WaveformAsCommanded
PROPERTIES
    OnlyReducesOutsideWindow
