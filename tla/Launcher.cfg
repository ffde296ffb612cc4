CONSTANTS
    Programs <- MostPrograms
    SustainedSamples = 2
    SafetyTicks = 2
    Timeout = 6
    ClockSize = 12
    BootTicks = 9
    MaxLateness = 1
    MaxRuns = 2

SPECIFICATION FairSpec
INVARIANTS
    TypeOK
    ChildIsContained
    AbortsAreEarned
    GuardTellsTheRun
PROPERTIES
    BothEnd
CHECK_DEADLOCK FALSE
