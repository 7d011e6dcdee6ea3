SPECIFICATION Spec
CONSTANTS
    Half = 32
    Or <- MCOr
    Bases = {512, 768}
    MemWords = 24
    Instructions <- MCInstructions
    Programs <- MCPrograms
    Entries <- MCEntries
CHECK_DEADLOCK FALSE
INVARIANTS
    TypeOK
    NeverFailsHalfway
    ReportNamesCulprit
PROPERTY
    InstructionsAreWhole
