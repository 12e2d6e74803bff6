SPECIFICATION Spec
CONSTANTS
    Users = {u1}
    Browsers = {b1}
    Slots = {q1, q2}
    Tokens = {t1, t2}
    Hashes = {h1}
    None = None
    Ops = {"visit", "reset", "login", "logout"}
    Boxes = {TRUE}
    StoreFails = TRUE
    DbFails = TRUE
SYMMETRY Symmetry
CHECK_DEADLOCK FALSE
INVARIANTS
    TypeOK
    OnlyRacesRevive
    LogoutTakesEffect
    
    RememberedIsLoggedIn
    
