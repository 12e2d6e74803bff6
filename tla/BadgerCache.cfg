SPECIFICATION Spec
CONSTANTS
    k1 = k1
    k2 = k2
    k3 = k3
    k4 = k4
    Clients = {c1, c2}
    Keys <- MCKeys
    Values = {v1}
    Absent = Absent
    Patterns <- MCPatterns
    Matching <- MCMatching
    Refused <- MCRefused
    CollectSize = 2
    TxnMax = 3
    DbFails = TRUE
SYMMETRY Symmetry
INVARIANTS
    TypeOK
    SweepCovers
PROPERTIES
    RefinesCache
