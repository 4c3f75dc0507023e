SPECIFICATION Spec
CONSTANTS
    Slots = {1, 2}
    None = None
    a1 = a1
    a2 = a2
    MaxFaults = 1
    Accounts <- MCAccounts
    Nonces = {1}
    MaxLoads = 2
    Agents <- MCAccounts
    DemoAgents = {1}
    MaxExecutions = 2
    Window = 1
    MaxVaults = 2
    Tokens <- MCTokens
INVARIANTS
    TypeOK
    OneTokenPerNonce
    SessionIsOne
    PagesTellTheTruth
    DetailIsBacked
    RowsMatchObjects
    TokenIsPutBack
PROPERTY PagesSettle
CHECK_DEADLOCK FALSE
