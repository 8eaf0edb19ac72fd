SPECIFICATION Spec
CONSTANTS
    Roots <- MCRoots
    VerifierLeaves <- MCVerifierLeaves
    MessageLeaves <- MCMessageLeaves
    VerifierKeys = {"k1", "k2", "k3"}
    DomainSeparators = {"solana", "other"}
    Signatures <- MCSignatures
    Weight <- MCWeight
    Submissions <- MCSubmissions
    Messages = {"m1", "m2", "m3"}
    CommandIds = {"c1", "c2"}
    CommandIdOf <- MCCommandIdOf
    Destination <- MCDestination
    Programs = {"p1", "p2"}
    NoProgram = "no program"
    NoMessage = "no message"
    NoRoot = "no root"
    Accounts = {"operator", "authority"}
    NoAccount = "no account"
    UpgradeAuthority = "authority"
    InitialVerifierSet = "v1"
    InitialOperator = "operator"
    DomainSeparator = "solana"
    PreviousVerifierSetRetention = 2
    MinimumRotationDelay = 1
    SlotCount = 2
    U128Max = 7
    MaxTime = 2
INVARIANTS
    TypeOK
    SessionAccounting
    EpochChain
    RotationRate
PROPERTIES
    ExpiryIsFinal
    ImplementsTrustedDelivery
CHECK_DEADLOCK FALSE
