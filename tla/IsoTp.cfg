\* Requests of several frames over a bus that loses, refuses and repeats frames.
SPECIFICATION FairSpec
CONSTANTS
    MaxRequests = 5
    RequestSize <- MCRequestSize
    ResponseSize <- MCResponseSize
    Modulus = 3
    BlockSize = 2
    Timeout = 4
    MaxDelay = 1
    MaxFaults = 2
INVARIANTS
    FaultsPass
PROPERTIES
    WholeMessages
    ConnectionRecovers
    ImplementsService
