SPECIFICATION Spec
CONSTANTS
    Nothing = Nothing
    Keys = {k1, k2}
    Secrets = {s1, s2}
    Ports = {p1, p2}
    Addrs = {a1, a2}
    Networks <- MCNetworks
    Offers <- MCOffers
    MaxIndex = 2
    MaxFd = 5
SYMMETRY Symmetry
INVARIANTS
    CryptokeyRouting
    TunnelsUseDeviceKey
    ConnSockets
    DescriptorsOwned
CHECK_DEADLOCK FALSE
