SPECIFICATION Spec
CONSTANTS
    A = A
    B = B
    N_SESSIONS = 2
    N_INDICES = 8
    MAX_QUEUE_DEPTH = 2
    REJECT_AFTER = 1
    Packets = {p1}
    MaxEphemerals = 4
    Talkers = {A, B}
    MaxConns = 2
    MaxOnStream = 3
    MaxStops = 1
CHECK_DEADLOCK FALSE
INVARIANTS
    StreamEndKeepsDevice
