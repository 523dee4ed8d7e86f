SPECIFICATION Spec
CONSTANTS
    a1 = a1
    a2 = a2
    off = off
    cycle = cycle
    warm = warm
    restart = restart
    halt = halt
    NotPresent = NotPresent
    Admin = {a1, a2}
    Command <- Commands
    Keep = {warm}
    Mode <- Modes
    Preset <- Presets
    AtProbe <- Probed
    Triples <- Stored
    StoreOps <- ScratchOps
    Enabled = TRUE
    Notifies = TRUE
    FaultBudget = 1
SYMMETRY Administrators
INVARIANTS
    OneCommand
    PendingKept
    WholeTriple
    WideWhole
