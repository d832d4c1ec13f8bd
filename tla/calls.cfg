SPECIFICATION Spec
CONSTANTS
    agent = agent
    stranger = stranger
    c1 = c1
    c2 = c2
    c3 = c3
    c4 = c4
    Calls = {c1, c2, c3, c4}
    Agents = {agent}
    AgentOf <- BusyAgents
    ToolOf <- BusyTools
    AmountOf <- BusyAmounts
    ToolCosts <- ToolPrices
    CapOf <- OneCap
    MaxColumn = 90
    Limits = {NoPermission, 20}
    Admin = {"revoke", "activate", "permission"}
    Faults = {"statement"}
    NoPermission = NoPermission
    NoLimit = NoLimit
SYMMETRY Twins
INVARIANTS
    TypeOK
    ReservedIsHeld
    HeldCallsCanFinish
    AuditMatchesMoney
    StrandedLeavesTrace
    OneRowPerCall
PROPERTIES
    ImplementsEscrow
CHECK_DEADLOCK FALSE
