SPECIFICATION Spec
CONSTANTS
    Artifacts = {a1, a2}
    Filtered = {a2}
    Replicas = {r1, r2}
    Tokens = {t1, t2}
    None = None
    Limit = 1
    MaxRetries = 1
    ClaimTTL = 1
    Versioned = TRUE
    MaxVer = 1
    Faults = {"crash", "stall", "db", "init", "scored"}
CHECK_DEADLOCK FALSE
SYMMETRY Symmetry
INVARIANT CapHeld
PROPERTY LiveClaimFenced
