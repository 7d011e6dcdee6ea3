SPECIFICATION Spec
CONSTANTS
    N = 8
    NumGprs = 4
    Instructions <- MCInstructions
    Contexts <- MCContexts
    MemSize = 16
    MaxInstr = 1
CHECK_DEADLOCK FALSE
INVARIANTS
    TypeOK
    MeetsBook
    Restartable
