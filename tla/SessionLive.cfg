CONSTANTS
    c1 = c1  c2 = c2  k1 = k1  k2 = k2
    Calls = {c1}
    Posts = {}
    Keys = {k1}
    KeyOf <- OneCall
    Keepalive = Keepalive
    NoCall = NoCall
    NoKey = NoKey
    Ends = {"close"}
    MaxPerKey = 2
SPECIFICATION FairSpec
INVARIANTS FullChannelIsRead
PROPERTIES CallReturns KeepaliveContinues ShutdownCompletes
