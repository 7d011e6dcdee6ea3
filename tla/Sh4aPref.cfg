SPECIFICATION Spec
CONSTANTS
    B = 8
    MemBytes = 16
    MaxInstr = 5
    Programs <- PrefPrograms
    InitRegs <- MCInitRegs
PROPERTY PrefOfQueueStops
CHECK_DEADLOCK FALSE
