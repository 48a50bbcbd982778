SPECIFICATION TimelySpec
CONSTANTS
    Replicas = {r1, r2, r3}
    Ids = {i1, i2, i3, i4}
    Tokens = {t1, t2, t3, t4}
    None = None
    TTL = 6
    HbMin = 1
    HbMax = 4
    Period = 2
    MaxMisses = 1
    Renews = TRUE
SYMMETRY Symmetry
INVARIANT TypeOK
INVARIANT NoOverlap
INVARIANT HolderBudget
PROPERTY ImplementsSingleton
