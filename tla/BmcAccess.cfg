SPECIFICATION Spec
CONSTANTS
    a = a
    b = b
    c = c
    m1 = m1
    m2 = m2
    r1 = r1
    r2 = r2
    User <- Users
    Map <- Maps
    MapOf <- MapOf3
    RegOf <- RegOf3
    NoTask = NoTask
    FaultBudget = 1
    TaintBudget = 1
INVARIANTS
    NoLostUpdate
PROPERTIES
    OnlyOwnRegister
