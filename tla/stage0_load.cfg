SPECIFICATION FairSpec
CONSTANTS
    Words = 3
    Depth = 2
    Burst = 2
    MaxWaits = 1
    Retries = 1
    MaxFaults = 2
    Block <- McBlocks
    Far = 10
    HashBlock = 4
    LenField = 1
    SlotBlocks = 4
    ShaChunk = 5
    Data <- McData
    Cards <- McCards
INVARIANTS
    ReadWhole
    WriteDurable
    JumpVerified
    MismatchReal
    RecordSurvives
PROPERTIES
    OnlyRecordsWritten
    Stage0Ends
CHECK_DEADLOCK FALSE
