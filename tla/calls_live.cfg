SPECIFICATION FairSpec
CONSTANTS
    agent = agent
    stranger = stranger
    c1 = c1
    c2 = c2
    c3 = c3
    c4 = c4
    Calls = {c1, c2, c3}
    Agents = {agent}
    AgentOf <- OddAgents
    ToolOf <- OddTools
    AmountOf <- OddAmounts
    ToolCosts <- ToolPrices
    CapOf <- OneCap
    MaxColumn = 90
    Limits = {NoPermission, 14}
    Admin = {"permission"}
    Faults = {"log"}
    NoPermission = NoPermission
    NoLimit = NoLimit
INVARIANTS
    NeverStuck
    DriftIsBounded
PROPERTIES
    EveryCallReturns
    EveryHoldEnds
CHECK_DEADLOCK FALSE
