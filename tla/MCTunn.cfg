SPECIFICATION Spec
CONSTANTS
    A = A
    B = B
    N_SESSIONS = 3
    N_INDICES = 9
    MAX_QUEUE_DEPTH = 2
    REJECT_AFTER = 0
    Packets = {p1}
    Talkers = {A, B}
    MaxEphemerals = 4
    MaxInFlight = 2
SYMMETRY Symmetry
INVARIANTS
    ExpiredIsClean
    QueueHasHandshake
    KeyPairing
    CurrentIsShared
    PacketsConserved
PROPERTIES
    KeysDerivedOnce
