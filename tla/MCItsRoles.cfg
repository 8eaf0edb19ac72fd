SPECIFICATION Spec
CONSTANTS
    TokenIds = {"nat"}
    Mints = {"nat"}
    Accounts = {"alice", "bob"}
    NoAccount = "none"
    TokenOrigin <- MCTokenOrigin
    NativeMint <- MCNativeMint
    InitialAuthority <- MCInitialAuthority
    InitialSupply <- MCInitialSupply
    FirstHolder = "alice"
    FeeMints = {}
    MintsWithMetadata = {}
    Chains = {"axelar", "ethereum"}
    ChainName = "solana"
    HubChain = "axelar"
    HubAddress = "hub"
    Inbound <- MCRolesInbound
    MessageIds = {1, 2, 3}
    Addresses = {"hub"}
    UpgradeAuthority = "alice"
    InitialOperator = "alice"
    Amounts = {0, 1}
    Fees = {0}
    Limits <- MCNoLimits
    EpochTime = 1
    U64Max = 3
    MaxSent = 2
    MaxTime = 0
INVARIANTS
    Backing
    RolesAreUnique
CHECK_DEADLOCK FALSE
