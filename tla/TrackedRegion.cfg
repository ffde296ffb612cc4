SPECIFICATION FairSpec
CONSTANTS
    Apps = {a1}
    Manager = manager
    PageCount = 2
    PageSize = 2
    Values = {0, 1}
    Zero = 0
    HeaderBytes = 0
    RunBytes = 0
    Recipes <- ZeroRecipe
    Stores <- MostBytes
    NoPage = nopage
    Allowed = {}
INVARIANTS
    TypeOK
    ContentIsKept
    HandlerIsCurrent
PROPERTIES
    DirtyIsPreserved
    CallsReturn
