SPECIFICATION Spec
CONSTANTS
    Repos = {r1, r2}
    Tags = {}
    Pushers = {p1, p2}
    Sweepers = {s1, s2}
    None = None
    Jobs = {"journal"}
    Faults = {}
SYMMETRY Symmetry
CHECK_DEADLOCK FALSE
INVARIANT BlobBacked
INVARIANT DeleteUnderClaim
