SPECIFICATION Spec
CONSTANTS
    agent = agent
    stranger = stranger
    c1 = c1
    c2 = c2
    c3 = c3
    c4 = c4
    Calls = {c1, c2, c3}
    Agents = {agent}
    AgentOf <- BusyAgents
    ToolOf <- BusyTools
    AmountOf <- BusyAmounts
    ToolCosts <- ToolPrices
    CapOf <- OneCap
    MaxColumn = 90
    Limits = {NoLimit}
    Admin = {"revoke"}
    Faults = {"statement", "reply", "log", "crash"}
    NoPermission = NoPermission
    NoLimit = NoLimit
SYMMETRY Twins
INVARIANTS
    SpentIsCharged
    ReservedAtMostHeld
    OneRowPerCall
    OkWithinCap
    OnlyRefundRowsErr
PROPERTIES
    WritesAreLedgers
CHECK_DEADLOCK FALSE
