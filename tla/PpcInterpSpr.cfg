SPECIFICATION Spec
CONSTANTS
    N = 8
    NumGprs = 4
    Instructions <- SprInstructions
    Contexts <- SprContexts
    MemSize = 16
    MaxInstr = 2
CHECK_DEADLOCK FALSE
INVARIANT SprReadsBack
