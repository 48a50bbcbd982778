SPECIFICATION Spec
CONSTANTS
    Chunks = {k1}
    Uploaders = {u1, u2}
    Completers = {c1, c2}
    Tokens = {t1, t2, t3}
    None = None
    Replication = TRUE
    Versioned = TRUE
    MaxTries = 1
    Faults = {"stall", "upload", "discard", "bytes"}
SYMMETRY Symmetry
PROPERTY CommitFenced
INVARIANT CountExact
CHECK_DEADLOCK FALSE
