CONSTANTS
    c1 = c1  c2 = c2  k1 = k1  k2 = k2
    Calls = {c1, c2}
    Posts = {c1, c2}
    Keys = {k1}
    KeyOf <- OneKey
    Keepalive = Keepalive
    NoCall = NoCall
    NoKey = NoKey
    Ends = {"parent", "encode", "handler"}
    MaxPerKey = 1
SPECIFICATION Spec
INVARIANTS NoSendOnClosed CleanExit
SYMMETRY CallSymmetry
