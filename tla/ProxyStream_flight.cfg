SPECIFICATION FairSpec
CONSTANTS
    Requests = {q1, q2}
    Replicas = {r1, r2}
    q1 = q1
    r1 = r1
    Placements <- FirstFixed
    None = None
    Advisory = TRUE
    KnownLength = TRUE
    Len = 2
    Depth = 1
    Budget = 1
    Faults = {"drop", "crash", "open", "upstream", "bypass", "hold", "storage", "badcopy", "lock", "timeout", "stall"}
CHECK_DEADLOCK FALSE
INVARIANT TypeOK
INVARIANT WholeBody
PROPERTY RequestAnswered
PROPERTY LockFreed
