SPECIFICATION Spec
CONSTANTS
    Bytes <- MCBytes
    Base <- MCBase
    AreaBytes = 32
    Reg <- MCReg
    Order <- MCOrder
    KernelElfs <- MCKernelElfs
    GuestElfs <- MCGuestElfs
    GdtAt = 4
    ContextAt = 8
    EntryAt = 12
    StackAt = 4
    GuestAddrs <- MCGuestAddrs
    MaxStores = 2
CHECK_DEADLOCK FALSE
INVARIANTS
    TypeOK
    StaysInside
    SlotsCoverMemory
    ElfIntact
    OneMemory
PROPERTIES
    BootEnds
    QuitEnds
