SPECIFICATION FairSpec
CONSTANTS
    Threads = {t1, t2}
    Owner = owner
    Apis = {a1, a2}
    MaxRequests = 2
INVARIANTS
    LockMatchesThreads
    YieldIsAsked
    NoStaleYield
PROPERTIES
    WriteCompletes
    AllLeave
