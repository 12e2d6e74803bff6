SPECIFICATION FairSpec
CONSTANTS
    k1 = k1
    k2 = k2
    Clients = {c1, c2}
    Keys <- MCKeys
    Values = {v1}
    Absent = Absent
    Patterns <- MCPatterns
    Matching <- MCMatching
    MaxActive = 3
    SessionMax = 1
    Repeated = {}
    RedisFails = TRUE
INVARIANTS
    TypeOK
    PoolAccounting
PROPERTIES
    RefinesCache
    EveryCallEnds
