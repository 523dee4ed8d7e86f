SPECIFICATION FairSpec
CONSTANTS
    u1 = u1
    User = {u1}
    BufSize = 2
    Transfers <- MixedTransfers
    Retries = 1
    FaultBudget = 2
    CrashBudget = 1
    TaintBudget = 1
INVARIANTS
    SuccessMeansExecuted
    ReadsOwnData
    RepeatsBounded
    StartsOnIdle
    LeavesIdle
PROPERTIES
    CallEnds
    CallsShrink
