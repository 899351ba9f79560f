SPECIFICATION SpecTasks
CONSTANTS
    MaxTasks <- McMaxTasks
    Idle <- McIdle
    FixedPrio <- McFixedPrio
    CreatePrios = {1}
    Unused = 255
    AgingQuantum = 16
    AgingCap = 64
    SleepTicks = {1, 2}
    Restores <- McPrio
    Mutexes = {}
    HbBound <- Unsupervised
    Ceilings = {0, 1}
    Sections = {"fs"}
    OuterSections = {}
    Ceiling <- FsCeiling
    Users <- FsUsers
    ConsoleUsers = {}
    SleepsHolding = {}
INVARIANT
    SectionExclusion
