SPECIFICATION FairSpec
CONSTANTS
    X86 = X86
    BMC = BMC
    x1 = x1
    x2 = x2
    b1 = b1
    Task <- Tasks3
    HostOf <- HostOf3
    NoTask = NoTask
    Free = Free
    ExpiryPossible = TRUE
    FaultBudget = 1
    CrashBudget = 1
INVARIANTS
    Exclusive
    OwnerHoldsSem
    SemaphoreNotLeaked
    NoSelfWait
    NoStaleRequest
PROPERTIES
    ImplementsSegment
    RequestServed
    OrphanReclaimed
