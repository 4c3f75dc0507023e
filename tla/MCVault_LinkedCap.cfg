SPECIFICATION Spec
CONSTANTS
    alice = alice
    bot = bot
    swap = "swap"
    Users <- MCUsers
    VaultIds = {v1}
    CapIds = {c1, c2}
    Actions <- MCActions
    Terms <- MCTerms
    Amounts = {0, 1, 2}
    Budgets = {1, 3}
    Purse = 2
    MaxTime = 3
    MaxU64 = 3
    NoUser = NoUser
    NoVault = NoVault
    NoTerms = NoTerms
SYMMETRY Symmetric
PROPERTY DebitsNeedCap
