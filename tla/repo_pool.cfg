SPECIFICATION WalkSpec
CONSTANTS
    null_index = 5
    Values = {a, b}
    NoValue = NoValue
    InitSizes = {0, 1, 3}
    Calls = {"assign", "assign_throws", "reuse", "remove", "return"}
SYMMETRY ValueSymmetry
INVARIANTS
    RepoInv
    IterationVisitsUsedOnce
    WalkMissesNothing
PROPERTIES
    ImplementsObjectPool
    ObjectsStayPut
    WalkNeverRepeats
