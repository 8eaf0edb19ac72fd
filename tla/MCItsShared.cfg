SPECIFICATION Spec
CONSTANTS
    TokenIds = {"lnk", "alt"}
    Mints = {"usd", "lnk", "alt"}
    Accounts = {"alice"}
    NoAccount = "none"
    TokenOrigin <- MCTokenOrigin
    NativeMint <- MCNativeMint
    InitialAuthority <- MCInitialAuthority
    InitialSupply <- MCInitialSupply
    FirstHolder = "alice"
    FeeMints = {"usd"}
    MintsWithMetadata = {"usd"}
    Chains = {"axelar", "ethereum"}
    ChainName = "solana"
    HubChain = "axelar"
    HubAddress = "hub"
    Inbound <- MCSharedInbound
    MessageIds = {1, 2, 3}
    Addresses = {"hub"}
    UpgradeAuthority = "alice"
    InitialOperator = "alice"
    Amounts = {1}
    Fees = {0, 1}
    Limits <- MCNoLimits
    EpochTime = 1
    U64Max = 2
    MaxSent = 1
    MaxTime = 0
INVARIANTS
    Backing
    RolesAreUnique
PROPERTIES
    RegistrationIsFinal
    ImplementsTokenBridge
CHECK_DEADLOCK FALSE
