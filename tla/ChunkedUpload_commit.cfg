SPECIFICATION Spec
CONSTANTS
    Chunks = {k1, k2}
    Uploaders = {u1, u2}
    Completers = {c1, c2}
    Tokens = {t1, t2, t3}
    None = None
    Replication = TRUE
    Versioned = FALSE
    MaxTries = 1
    Faults = {"crash", "db", "storage", "refuse", "bytes"}
SYMMETRY Symmetry
INVARIANT TypeOK
INVARIANT SingleCommitter
INVARIANT CompletedWritten
PROPERTY EndedWritesNothing
CHECK_DEADLOCK FALSE
INVARIANT NoLeakedChunk
PROPERTY StagedKept
