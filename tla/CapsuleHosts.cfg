CONSTANTS
    Pages <- MCPages
    CorePages <- MCCore
    Values = {0, 1}
    SdkVersion = 14
    Considered <- All

SPECIFICATION FairSpec
INVARIANTS
    TypeOK
    CallsAreAccepted
    ContentIsThere
    EndIsEarned
PROPERTIES
    HostReturns
CHECK_DEADLOCK FALSE
