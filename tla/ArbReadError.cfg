SPECIFICATION Spec
CONSTANTS
    X86 = X86
    BMC = BMC
    x1 = x1
    x2 = x2
    b1 = b1
    Task <- Tasks2
    HostOf <- HostOf2
    NoTask = NoTask
    Free = Free
    ExpiryPossible = FALSE
    FaultBudget = 1
    CrashBudget = 0
INVARIANTS
    ErrorPretendsOwnership
