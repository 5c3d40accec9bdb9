SPECIFICATION Spec
CONSTANTS
    Timeout = 5
    Period = 2
    MaxRuns = 4
INVARIANTS
    EvidenceIsTrue
    EvidenceIsKept
    FaultReportedOnce
PROPERTIES
    OnlySilenceEndsARun
CHECK_DEADLOCK FALSE
