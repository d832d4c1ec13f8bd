SPECIFICATION Spec
CONSTANTS
    Agents = {a1, a2}
    Caps <- MCCaps
    Amounts <- MCAmounts
    NoPermission = NoPermission
    NoLimit = NoLimit
INVARIANTS
    TypeOK
    ReserveNeverRaises
    OnlyOverrunRaises
    DiagnosisIsExact
    RefundUndoesReserve
