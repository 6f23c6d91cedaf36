SPECIFICATION Spec
CONSTANTS
    WORD_SIZE = 2
    N_WORDS = 3
    MaxCounter = 13
CHECK_DEADLOCK FALSE
INVARIANTS
    NoReplay
    WindowExact
    LossInRange
    NoFalseReject
PROPERTIES
    DeliversAtMostOnce
