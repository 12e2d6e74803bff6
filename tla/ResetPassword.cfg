SPECIFICATION Spec
CONSTANTS
    Calls = {p1}
    MaxUsers = 1
    Emails = {e1}
    Values = {v1, v2}
    Secrets = {s1}
    None = None
    Receivers = {"row", "empty"}
    DbFails = FALSE
PROPERTIES
    ResetSetsPassword
