SPECIFICATION FairSpec
CONSTANTS
    Chunks = {k1}
    Uploaders = {u1}
    Completers = {c1}
    Tokens = {t1, t2}
    None = None
    Replication = TRUE
    Versioned = FALSE
    MaxTries = 1
    Faults = {"crash", "storage", "db", "path"}
PROPERTY CommitSettles
PROPERTY StagingReclaimed
CHECK_DEADLOCK FALSE
