SPECIFICATION Spec
CHECK_DEADLOCK FALSE
CONSTANTS
    info = info
    gpio = gpio
    wdt = wdt
    uio = uio
    given = given
    None = None
    AutoId = AutoId
    Blks <- SomeBlks
    Unknown <- UnknownRows
    Roms <- SomeRoms
    Firmware <- SomeFirmware
    Filters = {"pci", "regmap", "passive"}
    TableSize = 6
    CountMod = 16
    LegacyOff = 2
INVARIANTS
    CellsMatch
    BuffersFit
    IrqsAgree
