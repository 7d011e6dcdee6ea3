SPECIFICATION Spec
CONSTANTS
    B = 8
    MemBytes = 16
    MaxInstr = 5
    Programs <- LdsSRPrograms
    InitRegs <- MCInitRegs
PROPERTY LdsIncrementsItsRegister
CHECK_DEADLOCK FALSE
