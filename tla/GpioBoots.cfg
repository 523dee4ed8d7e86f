SPECIFICATION Spec
CONSTANTS
    b1 = b1
    b2 = b2
    Block <- Blocks
    Params <- SomeParams
    MaxLoads = 2
    FaultBudget = 1
SYMMETRY Symmetry
INVARIANTS
    OneDecision
    ColdBootInitialises
    WarmBootKeeps
    RequestIsForNextBoot
