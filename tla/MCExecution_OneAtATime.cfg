SPECIFICATION FairSpec
CONSTANTS
    Requests = {r1, r2}
    Agents = {bot}
    AgentOf <- OneAgent
    Actions = {"swap"}
    Amounts <- AnyAmounts
    CapIds = {1, 2}
    InitialCaps = {1}
    Allowed = {"swap"}
    MaxTx = 2
    DailyLimit = 3
    CapAllowed = {"swap"}
    MaxPerTx = 2
    CapLimit = 2
    Budget = 3
    InitialBalance = 3
    Deposits = {1}
    MaxDay = 2
    MaxInFlight = 1
    MaxOwnerCalls = 2
    MaxFaults = 0
INVARIANT SpendRowsAddUp
PROPERTIES
    ImplementsLedger
    RequestsEnd
CHECK_DEADLOCK FALSE
