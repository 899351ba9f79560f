SPECIFICATION Spec
CONSTANTS
    HeapBytes = 17
    Align = 4
    Sizes = {1, 4, 5}
    Task = {"gc", "shell"}
    Boot = "kernel_main"
    Faults = {}
INVARIANT
    RegionsDisjoint
CHECK_DEADLOCK FALSE
