SPECIFICATION Spec
CONSTANTS
    REKEY_AFTER_TIME = 2
    REJECT_AFTER_TIME = 4
    REKEY_ATTEMPT_TIME = 4
    REKEY_TIMEOUT = 1
    KEEPALIVE_TIMEOUT = 1
    COOKIE_EXPIRATION_TIME = 2
    PERSISTENT_KEEPALIVE = 6
    N_SESSIONS = 2
    HasEndpoint = FALSE
    MaxLate = 1
    MaxClock = 14
    MaxEvents = 3
INVARIANTS
    SessionsEndInTime
    HandshakesInTime
    AnswersInTime
    KeepsPathOpen
    RenewsInTime
PROPERTIES
    SessionsLastInTime
CHECK_DEADLOCK FALSE
