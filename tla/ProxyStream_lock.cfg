SPECIFICATION Spec
CONSTANTS
    Requests = {q1, q2, q3}
    Replicas = {r1, r2}
    q1 = q1
    r1 = r1
    Placements <- FirstFixed
    None = None
    Advisory = TRUE
    KnownLength = TRUE
    Len = 1
    Depth = 1
    Budget = 1
    Faults = {"drop", "storage", "badcopy"}
SYMMETRY Symmetry
CHECK_DEADLOCK FALSE
 
INVARIANT WokenServed
