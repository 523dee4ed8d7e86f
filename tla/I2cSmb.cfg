SPECIFICATION FairSpec
CONSTANTS
    u1 = u1
    u2 = u2
    User = {u1, u2}
    Msgs <- SomeMsgs
    DevSel = TRUE
    BlockMax = 2
    MaxLen = 3
    MaxPre = 2
    Budget = 2
INVARIANTS
    OwnAccess
    SuccessMeansExecuted
PROPERTIES
    CallReturns
