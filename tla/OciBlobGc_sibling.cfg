SPECIFICATION Spec
CONSTANTS
    Repos = {r1, r2}
    Tags = {t1}
    Pushers = {p1}
    Sweepers = {s1}
    None = None
    Jobs = {"journal"}
    Faults = {"storage"}
SYMMETRY Symmetry
CHECK_DEADLOCK FALSE
INVARIANT BlobBacked
