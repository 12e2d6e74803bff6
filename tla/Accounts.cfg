SPECIFICATION Spec
CONSTANTS
    Calls = {p1, p2}
    MaxUsers = 2
    Emails = {e1}
    Values = {v1, v2}
    Secrets = {s1, s2}
    None = None
    Receivers = {"row"}
    DbFails = TRUE
SYMMETRY Symmetry
INVARIANTS
    TypeOK
    OneTokenPerUser
    IssuedTokenWorks
    WithdrawnNotAccepted
    OnlyStaleCopiesLoseUpdates
