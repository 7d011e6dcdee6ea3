SPECIFICATION Spec
CONSTANTS
    W = 8
    Programs <- MCPrograms
    InitGprs <- MCInitGprs
    MaxInstr = 4
CHECK_DEADLOCK FALSE
INVARIANT
    TypeOK
PROPERTIES
    InstructionsAreAtomic
    EveryInstructionCompletes
