CONSTANTS
    m = m
    n = n
    here = here
    there = there
    Messages = {m, n}
    VerifierKeys = {1, 2, 3}
    VerifierSets <- SigningSets
    Payloads <- SomePayloads
    DomainSeparators = {here, there}
    DomainSeparator = here
    U16Max = 4
    SlotCount = 2
SPECIFICATION Spec
SYMMETRY Symmetry
CHECK_DEADLOCK FALSE
INVARIANTS
    AcceptedWereEncoded
    
    RootNamesOnePayload
    CountedAsIntended
