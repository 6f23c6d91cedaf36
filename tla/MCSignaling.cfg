SPECIFICATION FairSpec
CONSTANTS
    client = client
    server = server
    Hosts = {client, server}
    Clients = {client}
    Modes = {"udp", "tcp", "ip"}
    Ports = {1, 2}
    ListenPort <- MCListenPort
    Configurations <- MCConfigurations
    ProbedMtu <- MCProbedMtu
    MaxRestarts = 1
    MaxNet = 2
PROPERTIES
    Connects
    SessionsStay
    MtusAgree
CHECK_DEADLOCK FALSE
