SPECIFICATION FairFillSpec
CONSTANTS
    NumIndexes = 1
    Pages <- MCPages
    Windows = {0, 2}
    Rpns <- MCRpns
    SetMasks <- MCSetMasks
    PageTable <- MCPageTable
INVARIANTS
    FillTypeOK
    NoStaleTranslation
    MapsGuestPageTable
    NoDuplicateEntries
    NeverRewritesValidEntry
PROPERTY
    AccessCompletes
