SPECIFICATION SilentServerSpec
CONSTANTS
    Requests = {r1, r2}
    NoRequest = NoRequest
    JobsCap = 1
    ResultsCap = 1
    Transports = {"smtp"}
CHECK_DEADLOCK FALSE
PROPERTIES
    SendTimeoutBoundsSend
