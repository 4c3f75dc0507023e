SPECIFICATION Spec
CONSTANTS
    alice = alice
    bot = bot
    Users <- MCUsers
    VaultIds = {v1}
    CapIds = {c1, c2}
    Actions = {"swap"}
    Terms <- MCTerms
    Amounts = {1, 2}
    Budgets = {1, 3}
    Purse = 3
    MaxTime = 2
    MaxU64 = 3
    NoUser = NoUser
    NoVault = NoVault
    NoTerms = NoTerms
    owner = alice
    agentKey = bot
    v0 = v1
    cap0 = c1
    deposit0 = 2
    budget0 = 3
    terms0 <- MCTerms0
    LocalCaps = {l1}
    Requests = {r1, r2, r3}
    MaxOtherCalls = 2
    MaxFaults = 1
SYMMETRY Symmetric
INVARIANTS
    DebitsWerePaid
    PaymentsWereAsked
    BooksMatchChain
    ChainLimitsRows
CHECK_DEADLOCK FALSE
