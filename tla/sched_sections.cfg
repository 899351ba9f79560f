SPECIFICATION SpecTasks
CONSTANTS
    MaxTasks <- McMaxTasks
    Idle <- McIdle
    FixedPrio <- McFixedPrio
    CreatePrios = {1}
    Unused <- McUnused
    AgingQuantum = 2
    AgingCap = 6
    SleepTicks = {1}
    Restores <- McPrio
    Mutexes = {"demo"}
    HbBound <- Supervised
    Ceilings = {0, 1}
    Sections = {"fs", "top"}
    OuterSections = {"fs"}
    Ceiling <- BothCeilings
    Users <- AllUsers
    ConsoleUsers <- NonIdle
    SleepsHolding = {"demo"}
INVARIANTS
    CurrentRunnable
    TopSectionExclusion
    BoostEnds
