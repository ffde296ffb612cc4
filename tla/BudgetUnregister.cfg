SPECIFICATION FairSpec
CONSTANTS
    Apps = {a1, a2}
    Background = bg
    NoThread = none
    NoSegment = noseg
    Objects = {o1}
    SegmentsPerObject = 2
    Target = 1
    Hard = 1
    Burst = 0
    Word = 32
    Patience = 1
    Score <- EarlierFirst
    Incompressible <- FirstSegments
    TrimGoals = {0}
    Unregisters = {a1}
INVARIANTS
    LeasedIsMapped
PROPERTIES
    GateIsLeft
