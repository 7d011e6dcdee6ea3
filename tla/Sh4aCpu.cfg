SPECIFICATION Spec
CONSTANTS
    B = 8
    MemBytes = 16
    MaxInstr = 5
    Programs <- MCPrograms
    InitRegs <- MCInitRegs
INVARIANT TypeOK
PROPERTY SlotsAndBanksAreKept
CHECK_DEADLOCK FALSE
