SPECIFICATION PseqSpec
CONSTANTS
    None = None
    RegBits = 2
    NumRails = {None, 0, 1, 3, 4, 5}
    Names <- SomeNames
    Entries <- SomeEntries
    Platform = {None, FALSE}
    X86 = TRUE
    PageLines = 3
INVARIANTS
    RailsShown
PROPERTIES
    NeverStartsLate
