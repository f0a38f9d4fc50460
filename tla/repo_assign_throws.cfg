SPECIFICATION Spec
CONSTANTS
    null_index = 5
    Values = {a}
    NoValue = NoValue
    InitSizes = {0}
    Calls = {"assign", "assign_throws", "remove"}
INVARIANTS UsedHasValue
