SPECIFICATION FewObjectsSpec
CONSTANTS
    alice = alice
    bot = bot
    swap = "swap"
    Users <- MCUsers
    VaultIds = {v1, v2}
    CapIds = {c1, c2}
    Actions <- MCActions
    Terms <- MCTerms
    Amounts = {0, 1, 2}
    Budgets = {1, 2}
    Purse = 1
    MaxTime = 3
    MaxU64 = 2
    NoUser = NoUser
    NoVault = NoVault
    NoTerms = NoTerms
SYMMETRY Symmetric
INVARIANTS
    TypeOK
    WithdrawalsKeepTerms
    SpendIsAccountedFor
PROPERTIES
    SpendIsDoubleEntry
    MoneyIsConserved
    RevocationIsFinal
    PausedPaysOnlyOwner
    ImplementsLedger
