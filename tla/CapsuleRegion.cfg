SPECIFICATION FairSpec
CONSTANTS
    UnitCount = 3
    CoreCount = 1
    PagesPerUnit = 1
    Values = {v1, v2}
    Gone = gone
    Missing = missing
    Retries = FALSE
INVARIANTS
    TypeOK
    CapsuleIsSound
PROPERTIES
    KeepsContract
    CapsuleIsStable
    CallsReturn
CHECK_DEADLOCK FALSE
