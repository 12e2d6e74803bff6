SPECIFICATION Spec
CONSTANTS
    Users = {u1, u2}
    Browsers = {b1, b2}
    Slots = {q1}
    Tokens = {t1, t2, t3}
    Hashes = {h1, h2}
    None = None
    Ops = {"visit", "reset", "login", "logout"}
    Boxes = {TRUE}
    StoreFails = FALSE
    DbFails = FALSE
SYMMETRY Symmetry
CHECK_DEADLOCK FALSE
INVARIANTS
    LogoutTakesEffect
    
    RememberLasts
