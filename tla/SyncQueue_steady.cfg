SPECIFICATION FairSpec
CONSTANTS
    Artifacts = {a1}
    Filtered = {}
    Replicas = {r1}
    Tokens = {t1, t2}
    None = None
    Limit = 2
    MaxRetries = 1
    ClaimTTL = 1
    Versioned = TRUE
    MaxVer = 2
    Faults = {"http", "link", "recover"}
CHECK_DEADLOCK FALSE
INVARIANT TypeOK
INVARIANT RetryBudget
INVARIANT CounterExact
INVARIANT ClaimHasWorker
INVARIANT PeerHoldsUploads
PROPERTY QueueDrains
