SPECIFICATION Spec
CONSTANTS
    A = A
    B = B
    Initiators <- MCInitiators
    LIMIT = 1
    RESET_PERIOD = 1
    COOKIE_REFRESH = 8
    COOKIE_EXPIRATION_TIME = 7
    REKEY_TIMEOUT = 1
    MaxClock = 6
    MaxLost = 1
    MaxMacs = 12
INVARIANTS
    AdmittedBounded
    CompletesInTime
CHECK_DEADLOCK FALSE
