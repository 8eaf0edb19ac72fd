SPECIFICATION Spec
CONSTANTS
    Proposals = {"handover"}
    ProposalData <- MCProposalData
    Messages <- MCOperatorMessages
    MessageIds = {1, 2}
    Chains = {"axelar"}
    Addresses = {"governance"}
    Accounts = {"alice", "bob"}
    UpgradeAuthority = "alice"
    Delays = {0, 1, 2}
    InitialChain = "axelar"
    InitialAddress = "governance"
    InitialOperator = "alice"
    MinimumDelay = 1
    MaximumDelay = 2
    ConfigRent = 2
    ProposalRent = 1
    MarkerRent = 1
    U64Max = 8
    MaxTime = 2
INVARIANTS
    OperatorIsTheOneAppointed
CHECK_DEADLOCK FALSE
