SPECIFICATION Spec
CONSTANTS
    agent = agent
    stranger = stranger
    c1 = c1
    c2 = c2
    c3 = c3
    c4 = c4
    Calls = {c1, c2}
    Agents = {agent}
    AgentOf <- TwoAgents
    ToolOf <- TwoTools
    AmountOf <- NoAmounts
    ToolCosts <- ToolPrices
    CapOf <- OneCap
    MaxColumn = 90
    Limits = {NoPermission, NoLimit}
    Admin = {"permission"}
    Faults = {}
    NoPermission = NoPermission
    NoLimit = NoLimit
PROPERTIES
    GrantedUnderPermission
CHECK_DEADLOCK FALSE
