SPECIFICATION Spec
CONSTANTS
    Requests = {r1, r2, r3}
    Agents = {bot, helper}
    AgentOf <- TwoAgents
    Actions = {"swap"}
    Amounts = {2}
    CapIds = {1, 2, 3}
    InitialCaps = {1, 2}
    Allowed = {"swap"}
    MaxTx = 2
    DailyLimit = 3
    CapAllowed = {"swap"}
    MaxPerTx = 2
    CapLimit = 3
    Budget = 3
    InitialBalance = 3
    Deposits = {1}
    MaxDay = 2
    MaxInFlight = 2
    MaxOwnerCalls = 1
    MaxFaults = 1
SYMMETRY Symmetric
INVARIANTS
    TypeOK
    BooksAgree
    SpendRowsAddUp
    OutcomeMatchesMoney
    OverrunIsBounded
CHECK_DEADLOCK FALSE
