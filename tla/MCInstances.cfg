SPECIFICATION FairSpec
CONSTANTS
    Interfaces = {neko0}
    Contents = {x, y}
    Neighbours = {k}
    Endpoints = {e1, e2}
    Callers = {udp}
    Connections = {}
    Nothing = Nothing
    MaxTasks = 3
    MaxReloads = 2
    MaxFaults = 1
INVARIANTS
    OneInstance
PROPERTIES
    StaleOnlyByRace
    Settles
CHECK_DEADLOCK FALSE
