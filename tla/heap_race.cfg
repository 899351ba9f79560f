SPECIFICATION Spec
CONSTANTS
    HeapBytes = 14
    Align = 4
    Sizes = {1, 5}
    Task = {"gc", "shell"}
    Boot = "kernel_main"
    Faults = {2}
INVARIANTS
    WithinHeap
    BootRegionsKept
CHECK_DEADLOCK FALSE
