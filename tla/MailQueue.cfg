SPECIFICATION FairSpec
CONSTANTS
    Requests = {r1, r2, r3}
    NoRequest = NoRequest
    JobsCap = 1
    ResultsCap = 1
    Transports = {"smtp", "api", "unknown"}
CHECK_DEADLOCK FALSE
INVARIANTS
    TypeOK
    Conservation
    OneResultPerMessage
    SuccessIsDelivery
    SuccessClosesConnection
    OnlySoundMailDelivered
PROPERTIES
    NeverResent
    RefinesService
    EveryoneAnswered
