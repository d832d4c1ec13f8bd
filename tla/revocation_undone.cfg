SPECIFICATION Spec
CONSTANTS
    r1 = r1
    r2 = r2
    s1 = s1
    s2 = s2
    ghost = ghost
    Runs = {r1}
    Replays = 2
    Slots = {s1, s2}
    Strays = {ghost}
    NoCard = NoCard
    Workloads <- Intervention
PROPERTIES
    RevocationHolds
CHECK_DEADLOCK FALSE
