CONSTANTS
    Base = 5
    LenBytes = 2
    WordBytes = 2
    Composed <- MCComposed
    Presented <- MCPresented
    Arriving <- MCArriving
SPECIFICATION Spec
CHECK_DEADLOCK FALSE
INVARIANTS
    ReadAsSent
    BorshIsCanonical
    ValidatedIsSigned
