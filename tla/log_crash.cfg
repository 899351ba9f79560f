SPECIFICATION Spec
CONSTANTS
    p1 = p1
    p2 = p2
    Path <- McPath
    Value = {"one", "two"}
    Blocks <- McBlocks
    Absent = "absent"
    NoPath = "no path"
    MaxBlk = 8
    DiskEnd = 7
    BadLimit = 2
    MinPass = 3
    IndexSlots = 2
    Renames = {}
    Faults = {"reset", "write_error"}
INVARIANTS
    ReadsDurable
    LiveAfterLogStart
    LogOrdered
PROPERTY
    StoreSpec
SYMMETRY Paths
