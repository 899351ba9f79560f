SPECIFICATION FairSpec
CONSTANTS
    MaxTasks <- McMaxTasks
    Idle <- McIdle
    FixedPrio <- McFixedPrio
    CreatePrios = {1}
    Unused <- McUnused
    AgingQuantum = 2
    AgingCap = 6
    SleepTicks = {1}
    Restores <- McPrio
    Mutexes = {"demo"}
    HbBound <- Unsupervised
    Ceilings = {0, 1}
    Sections = {"fs"}
    OuterSections = {"fs"}
    Ceiling <- FsCeiling
    Users <- NestedUsers
    ConsoleUsers = {2}
    SleepsHolding = {"demo"}
INVARIANTS
    RunnerOwnsMutex
    NoLostWakeup
PROPERTIES
    ReadyRuns
    UrgentWaiterOwns
