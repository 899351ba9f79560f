SPECIFICATION FairUploadSpec
CONSTANTS
    Limit = 1
    SlotBlocks = 2
    Image <- McImage
    Healthy <- McHealthy
    Junk = "junk"
    Watchdog = TRUE
    MaxCuts = 1
    MaxRefused = 1
    MaxMisread = 1
    MaxFaults = 2
    Careful = TRUE
    ResumeLimit = 1
INVARIANTS
    SomeSlotBoots
    RetriesBounded
PROPERTIES
    OneRecord
    ComesUp
    CommittedWhole
    NoFalseAlarm
