SPECIFICATION Spec
CONSTANTS
    Threads = {t1, t2}
    SegmentCount = 1
    PageCount = 2
    Values = {0, 1}
    Zero = 0
    BackingVersions = {0, 1}
    BackingData <- MCBackingData
    Ranges <- AllRanges
    OverlayLimit = 1
    MaxGeneration = 2
    DecommitTears = FALSE
SYMMETRY ThreadSymmetry
INVARIANTS
    TypeOK
    SegmentsAgree
    DormantIsRecoverable
PROPERTIES
    IsMemory
