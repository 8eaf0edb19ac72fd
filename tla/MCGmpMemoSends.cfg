CONSTANTS
    memo = memo
    its = its
    app = app
    nobody = nobody
    w1 = w1
    w2 = w2
    hub = hub
    stranger = stranger
    vault = vault
    Vault = vault
    c1 = c1
    c2 = c2
    c3 = c3
    hi = hi
    bad = bad
    ethereum = ethereum
    elsewhere = elsewhere
    CommandIds = {c1, c2, c3}
    NoMessage = nobody
    VerifierSet = hub
    Memo = memo
    ITS = its
    App = app
    NoProgram = nobody
    Wallets = {w1, w2}
    HubAddress = hub
    TrustedChains = {ethereum}
    Texts = {hi, bad}
    Utf8 = {hi}
    MetaLists <- MCMetaLists
    Messages <- MCMessages
    CommandIdOf <- MCCommandIdOf
    HubPayloads <- MCHubPayloads
    InitialBalance <- VaultOnly
    Amounts = {1}
    Chains = {ethereum, elsewhere}
    Addresses <- MCAddresses
    GasValues = {0}
    MaxOut = 1
SPECIFICATION SpecWithMemoSends
CHECK_DEADLOCK FALSE
INVARIANT
    CounterCanSend
