CONSTANTS
    Pages <- MCPages
    CorePages <- MCCore
    Gone = 2

SPECIFICATION FairSpec
INVARIANTS
    TypeOK
    VerdictIsEarned
    MemoryIsKept
PROPERTIES
    BothEnd
CHECK_DEADLOCK FALSE
