CONSTANTS
    c1 = c1  c2 = c2  k1 = k1  k2 = k2
    Calls = {c1, c2}
    Posts = {}
    Keys = {k1, k2}
    KeyOf <- OwnKeys
    Keepalive = Keepalive
    NoCall = NoCall
    NoKey = NoKey
    Ends = {"handler"}
    MaxPerKey = 1
SPECIFICATION Spec
INVARIANTS NoStrandedWaiter NoSpuriousTimeout NoLeftovers RoutedByKey
SYMMETRY PairSymmetry
