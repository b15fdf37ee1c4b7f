SPECIFICATION LiveSpec
CONSTANTS
    Keys = {k1, k2, k3, k4, k5}
    MaxActive = 2
    MaxWaiters = 2
INVARIANTS
    PermitInv
PROPERTIES
    FifoGrant
    WaiterServed
CHECK_DEADLOCK FALSE
