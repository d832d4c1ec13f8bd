SPECIFICATION FairSpec
CONSTANTS
    ana = ana
    fin = fin
    l1 = l1
    l2 = l2
    l3 = l3
    l4 = l4
    Appends = {l1, l2, l3, l4}
    Agents = {ana, fin}
    AgentFor <- MostlyAna
    ContentFor <- Contents
    CostFor <- PlainCosts
    KeyOf <- OwnKeys
    PoolOf <- TwoPools
    PoolSize = 2
    Amounts = {0, 10}
    MaxTime = 1
    Genesis = Genesis
    Digest <- PairOf
INVARIANTS
    TypeOK
    ChainIntact
    StampsInOrder
    HonestChainVerifies
    WalkAgrees
    EditIsNamed
    InsertionIsNamed
    DeletionIsNamed
    TailPinsChain
PROPERTIES
    EveryAppendEnds
    ImplementsDecisionLog
CHECK_DEADLOCK FALSE
