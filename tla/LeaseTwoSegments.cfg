SPECIFICATION FairSpec
CONSTANTS
    Threads = {t1, t2}
    SegmentCount = 2
    PageCount = 1
    Values = {0}
    Zero = 0
    BackingVersions = {0}
    BackingData <- MCBackingData
    Ranges <- WholeObject
    OverlayLimit = 0
    MaxGeneration = 0
    DecommitTears = FALSE
INVARIANTS
    LeasesHold
PROPERTIES
    WaitsEnd
