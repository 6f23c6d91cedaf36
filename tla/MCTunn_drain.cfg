SPECIFICATION LossySpec
CONSTANTS
    A = A
    B = B
    N_SESSIONS = 3
    N_INDICES = 9
    MAX_QUEUE_DEPTH = 1
    REJECT_AFTER = 1
    Packets = {p1}
    Talkers = {A}
    MaxEphemerals = 6
    MaxInFlight = 2
PROPERTIES
    QueueDrains
