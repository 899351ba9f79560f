SPECIFICATION SpecTasks
CONSTANTS
    MaxTasks <- Mc5MaxTasks
    Idle <- McIdle
    FixedPrio <- McFixedPrio
    CreatePrios = {1, 2}
    Unused <- McUnused
    Mutexes = {"demo"}
    AgingQuantum = 2
    AgingCap = 12
    HbBound <- Mc5Unsupervised
    SleepTicks = {1, 2}
    Ceilings = {0}
    Restores <- McPrio
    Sections = {}
    OuterSections = {}
    Ceiling <- NoCeiling
    Users <- Mc5MutexUsers
    ConsoleUsers = {}
    SleepsHolding = {"demo"}
INVARIANTS
    OwnerInheritsPrio
    WaitBounded
PROPERTIES
    DemoHandsOff
