SPECIFICATION ListsSpec
CONSTANTS
    Heads = {h1, h2}
    MaxNodes = 4
    null_index = 9
INVARIANTS ListsTypeOK BackwardIsReverse UnlinkedIffInNoList InsertIsExact
PROPERTIES ImplementsSequences
