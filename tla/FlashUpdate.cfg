\* Updates with lost requests and responses, restarts and a failing backend.
SPECIFICATION FairSpec
CONSTANTS
    u1 = u1
    u2 = u2
    Artifacts = {u1, u2}
    Blocks <- MCBlocks
    HeaderBlocks = 2
    Capacity = 4
    Modulus = 3
    Erased = Erased
    Damaged = Damaged
    S3 = 5
    Linked = {u1}
    ErasePollLimit = 1
    MaxFaults = 3
    MaxUpdates = 4
INVARIANTS
    DownloadInSession
    RetrySafe
PROPERTIES
    UpdateEnds
    ImplementsFlashService
