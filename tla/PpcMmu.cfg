SPECIFICATION Spec
CONSTANTS
    NumIndexes = 1
    Pages = {0, 1}
    Windows = {0, 2}
    Rpns <- MCRpns
    SetMasks <- MCSetMasks
CHECK_DEADLOCK FALSE
INVARIANTS
    TypeOK
    MappedIffValid
    RootMatchesMsr
    NoTranslationLeaks
PROPERTY
    NothingIsRevoked
