SPECIFICATION Spec
CONSTANTS
    Accounts = {a1, a2, a3, a4}
    NoAccount = NoAccount
    U64Max = 3
    Amounts = {0, 1, 2}
    TreasuryRent = 2
    MaxPaid = 6
SYMMETRY Symmetry
INVARIANTS
    OperatorsAreCounted
    TreasuryBalances
CHECK_DEADLOCK FALSE
