SPECIFICATION Spec
CONSTANTS
    agent = agent
    stranger = stranger
    c1 = c1
    c2 = c2
    c3 = c3
    c4 = c4
    Calls = {c1, c2}
    Agents = {agent}
    AgentOf <- TwoAgents
    ToolOf <- TwoTools
    AmountOf <- NoAmounts
    ToolCosts <- ToolPrices
    CapOf <- OneCap
    MaxColumn = 90
    Limits = {NoLimit}
    Admin = {}
    Faults = {"reply"}
    NoPermission = NoPermission
    NoLimit = NoLimit
INVARIANTS
    FailedCallsAreNotCharged
CHECK_DEADLOCK FALSE
