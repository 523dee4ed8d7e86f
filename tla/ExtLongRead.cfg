SPECIFICATION Spec
CONSTANTS
    u1 = u1
    User = {u1}
    BufSize = 2
    Transfers <- LongRead
    Retries = 1
    FaultBudget = 0
    CrashBudget = 0
    TaintBudget = 0
INVARIANT ReadsWhole
