SPECIFICATION FairSpec
CONSTANTS
    Replicas = {r1, r2}
    Ids = {i1, i2, i3}
    Tokens = {t1, t2}
    None = None
    TTL = 3
    HbMin = 1
    HbMax = 1
    Period = 1
    MaxMisses = 0
    Renews = TRUE
PROPERTY TakenRunStops
PROPERTY JobKeepsRunning
INVARIANT OrphanExpires
PROPERTY LiveLeaseFenced
