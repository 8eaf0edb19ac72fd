SPECIFICATION Spec
CONSTANTS
    TokenIds = {"fee"}
    Mints = {"eur", "fee"}
    Accounts = {"alice"}
    NoAccount = "none"
    TokenOrigin <- MCTokenOrigin
    NativeMint <- MCNativeMint
    InitialAuthority <- MCInitialAuthority
    InitialSupply <- MCInitialSupply
    FirstHolder = "alice"
    FeeMints = {"eur"}
    MintsWithMetadata = {"eur"}
    Chains = {"axelar", "ethereum"}
    ChainName = "solana"
    HubChain = "axelar"
    HubAddress = "hub"
    Inbound <- MCFlowInbound
    MessageIds = {1, 2, 3}
    Addresses = {"hub", "other"}
    UpgradeAuthority = "alice"
    InitialOperator = "alice"
    Amounts = {1, 2}
    Fees = {0, 1}
    Limits <- MCLimits
    EpochTime = 2
    U64Max = 3
    MaxSent = 4
    MaxTime = 3
INVARIANTS
    TypeOK
    Backing
    FlowLimitHolds
    CreditedOnce
CHECK_DEADLOCK FALSE
