SPECIFICATION Spec
CONSTANTS
    Apps = {a1, a2}
    Background = bg
    NoThread = none
    NoSegment = noseg
    Objects = {o1, o2, o3, o4}
    SegmentsPerObject = 1
    Target = 1
    Hard = 1
    Burst = 0
    Word = 32
    Patience = 1
    Score <- EqualScore
    Incompressible <- Nothing
    TrimGoals = {}
    Unregisters = {}
SYMMETRY Symmetry
INVARIANTS
    TypeOK
    CountersAreExact
    OvershootIsBounded
