\* Order, coalescing, eviction, the stuck state across the wrap of the tick, and
\* events under unlimited traffic.
SPECIFICATION FairSpec
CONSTANTS
    speed = speed
    switches = switches
    alarm = alarm
    first = first
    second = second
    Nothing = Nothing
    Ids <- MCIds
    Values <- MCValues
    Classic <- MCClassic
    Latest <- MCLatest
    HighPriority <- MCHighPriority
    Capacity = 3
    FifoDepth = 1
    StuckTimeout = 2
    TickModulus = 3
    MaxStops = 1
INVARIANTS
    EventsFirst
    FreshOnce
    StuckIsReported
PROPERTIES
    ImplementsService
    EventsReachController
