SPECIFICATION FairSpec
CONSTANTS
    Task = {"GC", "HIGH"}
    Uses <- McUses
    Lengths = {1, 2}
    DmaMinLen = 2
    ScratchCap = 2
    FifoDepth = 2
    RingSlots = 3
    Burst = 2
    MaxPrints = 3
    MaxEchoes = 2
    MayStick = TRUE
INVARIANTS
    Accounted
    OneByteATransfer
    RoomStays
PROPERTIES
    RingEmpties
    PrintsEnd
CHECK_DEADLOCK FALSE
