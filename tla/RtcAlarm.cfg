SPECIFICATION RtcFairSpec
CONSTANTS
    Alarms <- MCAlarms
    NoAlarm = "off"
    Invalid = "invalid"
    MaxCommands = 3
INVARIANTS
    OneEventPerAlarm
PROPERTIES
    ClearedMeansSent
    AlarmIsSent
CHECK_DEADLOCK FALSE
