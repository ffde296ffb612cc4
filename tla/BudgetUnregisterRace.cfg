SPECIFICATION Spec
CONSTANTS
    Apps = {a1}
    Background = bg
    NoThread = none
    NoSegment = noseg
    Objects = {o1}
    SegmentsPerObject = 1
    Target = 1
    Hard = 1
    Burst = 0
    Word = 32
    Patience = 1
    Score <- EqualScore
    Incompressible <- Nothing
    TrimGoals = {0}
    Unregisters = {a1}
INVARIANTS
    TrimTellsTheTruth
