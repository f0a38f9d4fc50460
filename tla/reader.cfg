SPECIFICATION Spec
CONSTANTS
    Addresses = {a1, a2}
    NoReader = NoReader
    Texts <- MCTexts
    IntMin <- MCIntMin
    IntMax = 11
INVARIANTS
    ReaderTypeOK
    StringsRoundTrip
    NumbersRoundTrip
PROPERTIES
    UnboundIsFrozen
    FailedReadKeepsValue
