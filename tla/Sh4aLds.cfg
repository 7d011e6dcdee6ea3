SPECIFICATION Spec
CONSTANTS
    B = 8
    MemBytes = 16
    MaxInstr = 5
    Programs <- LdsPrograms
    InitRegs <- MCInitRegs
PROPERTY LdsLoadsItsRegister
CHECK_DEADLOCK FALSE
