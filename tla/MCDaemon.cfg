SPECIFICATION FairSpec
CONSTANTS
    stream = stream
    udp = udp
    Clients = {stream, udp}
    Udp = {udp}
    Socks = {1}
    Wants <- MCWants
    MaxCalls = 2
    MaxUdpCalls = 1
    MaxTraffic = 1
    MaxFaults = 1
    ReqCap = 1
    CmdCap = 2
    SockCap = 1
INVARIANTS
    OwnTraffic
    LiveIsRegistered
PROPERTIES
    RequestsEnd
CHECK_DEADLOCK FALSE
