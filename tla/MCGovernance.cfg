SPECIFICATION FairSpec
CONSTANTS
    Proposals = {"call", "spend"}
    ProposalData <- MCProposalData
    Messages <- MCMessages
    MessageIds = {1, 2, 3, 4, 5, 6, 7, 8}
    Chains = {"axelar", "other"}
    Addresses = {"governance"}
    Accounts = {"alice", "bob"}
    UpgradeAuthority = "alice"
    Delays = {0, 1, 2}
    InitialChain = "axelar"
    InitialAddress = "governance"
    InitialOperator = "alice"
    MinimumDelay = 1
    MaximumDelay = 2
    ConfigRent = 2
    ProposalRent = 1
    MarkerRent = 1
    U64Max = 8
    MaxTime = 4
INVARIANTS
    TypeOK
    Settlement
    Treasury
PROPERTIES
    TimelockHolds
    PendingProposalsAreSettled
CHECK_DEADLOCK FALSE
