SPECIFICATION Spec
CONSTANTS
    Repos = {r1}
    Tags = {t1, t2}
    Pushers = {p1, p2}
    Sweepers = {s1}
    None = None
    Jobs = {"journal", "blob"}
    Faults = {"crash", "storage", "slow"}
SYMMETRY Symmetry
CHECK_DEADLOCK FALSE
INVARIANT TypeOK
PROPERTY ServedKept
