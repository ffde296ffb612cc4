CONSTANTS
    u1 = u1
    u2 = u2
    u3 = u3
    Units <- ThreeUnits
    Written <- OneUnit
    NoUnit = NoUnit
    MinBudget = 1
    MaxBudget = 3
    QueueCap = 1
    Nothing = Nothing
    Blank = Blank

SPECIFICATION FairSpec
INVARIANTS
    TypeOK
    CountsAreExact
    BudgetIsKept
    ContentIsKept
PROPERTIES
    CallsReturn
CHECK_DEADLOCK FALSE
