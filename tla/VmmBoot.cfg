SPECIFICATION Spec
CONSTANTS
    HeapSizes = {1, 2, 3, 5, 8, 9, 10, 12, 13, 15, 17, 18, 21, 22, 26}
    InfoPerPage = 12
    NumPml1s = 2
CHECK_DEADLOCK FALSE
INVARIANTS
    TypeOK
    NoSharedPage
    HigherHalfIntact
    NullWritesFault
    GuestView
    NoAllocationFails
PROPERTY
    BootReachesExecute
