SPECIFICATION FairSpec
CONSTANTS
    Writers = {t1, t2}
    CookieWriters = {handler}
    BASE = 3
    BUFFER = 8
    SNDBUF = 9
    MAX_ITR = 1
    Datagrams <- ExtremePackets
    MaxFrames = 3
CHECK_DEADLOCK FALSE
INVARIANTS
    FramesAsWritten
PROPERTIES
    PacketsArrive
