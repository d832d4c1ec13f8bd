SPECIFICATION Spec
CONSTANTS
    ana = ana
    fin = fin
    l1 = l1
    l2 = l2
    l3 = l3
    l4 = l4
    Appends = {l1, l2}
    Agents = {ana, fin}
    AgentFor <- AllAna
    ContentFor <- SameTexts
    CostFor <- HalfCosts
    KeyOf <- OwnKeys
    PoolOf <- OnePool
    PoolSize = 2
    Amounts = {0, 10}
    MaxTime = 1
    Genesis = Genesis
    Digest <- PairOf
INVARIANTS
    HonestChainVerifies
CHECK_DEADLOCK FALSE
