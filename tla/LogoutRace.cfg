SPECIFICATION Spec
CONSTANTS
    Users = {u1}
    Browsers = {b1}
    Slots = {q1, q2}
    Tokens = {t1, t2, t3}
    Hashes = {h1}
    None = None
    Ops = {"visit", "reset", "login", "logout"}
    Boxes = {FALSE}
    StoreFails = FALSE
    DbFails = FALSE
CHECK_DEADLOCK FALSE
PROPERTIES
    LoggedOutStaysOut
