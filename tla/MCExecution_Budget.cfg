SPECIFICATION Spec
CONSTANTS
    Requests = {r1, r2}
    Agents = {bot}
    AgentOf <- OneAgent
    Actions = {"swap", "transfer"}
    Amounts = {2}
    CapIds = {1}
    InitialCaps = {1}
    Allowed = {"swap"}
    MaxTx = 2
    DailyLimit = 4
    CapAllowed = {"swap"}
    MaxPerTx = 2
    CapLimit = 4
    Budget = 3
    InitialBalance = 4
    Deposits = {1}
    MaxDay = 1
    MaxInFlight = 2
    MaxOwnerCalls = 0
    MaxFaults = 0
INVARIANT BudgetHolds
CHECK_DEADLOCK FALSE
