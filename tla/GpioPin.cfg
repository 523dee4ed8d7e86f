SPECIFICATION Spec
CONSTANTS
    a = a
    b = b
    Gpiolib = {a}
    Irq = b
    Sysfs = {a, b}
    Triggers <- SomeTriggers
    Configs <- SomeConfigs
    Starts <- SomeStarts
    OpBudget = 4
    FaultBudget = 1
INVARIANTS
    UpdatesKept
    NoEdgeLost
