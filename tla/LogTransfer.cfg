\* Lost and late answers, failed writes and one reset anywhere.
SPECIFICATION FairSpec
CONSTANTS
    Capacity = 2
    SequenceModulus = 8
    StartSequences <- MCStartSequences
    MaxEvents = 5
    None = None
    MaxRecordRetries = 1
    ReaderSequences <- MCReaderSequences
    MaxFaults = 2
    MaxResets = 1
INVARIANTS
    RowsInOrder
    CaughtUpMeansSaved
PROPERTIES
    CatchesUp
    ImplementsEventLog
