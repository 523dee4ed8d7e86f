SPECIFICATION TimedSpec
CONSTANTS
    X86 = X86
    BMC = BMC
    x1 = x1
    x2 = x2
    b1 = b1
    Task <- Tasks3
    HostOf <- HostOf3
    NoTask = NoTask
    Free = Free
    ExpiryPossible = TRUE
    FaultBudget = 0
    CrashBudget = 0
    Policies <- BothPolicies
    HoldBound = 2
    LateBound = 1
INVARIANTS
    BoundedOvertaking
    WaitBounded
    ExclusiveWhenSized
    LockReturnsInTime
