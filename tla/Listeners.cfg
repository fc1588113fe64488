CONSTANTS
    tcp = tcp  udp = udp  a1 = a1  x1 = x1  x2 = x2
    Endpoints = {tcp, udp}
    Packet = udp
    Addrs = {a1}
    Sessions = {x1, x2}
    AddrOf <- SessionAddrs
    NoSession = NoSession
    PipeCap = 1
SPECIFICATION FairSpec
INVARIANTS RunningIsReachable
PROPERTIES ServeEnds AddressFreed
