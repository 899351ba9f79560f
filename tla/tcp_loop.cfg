SPECIFICATION Spec
CONSTANTS
    QueueSlots = 4
    MaxRetries = 2
    ServerIsn = 50
    ClientIsn <- McIsn
    MaxSends = 2
    MaxSessions = 2
    MaxFaults = 2
    Leftovers = {}
INVARIANTS
    DeliveredInOrder
    SeqAgree
    LastKeptUntilDelivered
    CloseAgreed
CHECK_DEADLOCK FALSE
