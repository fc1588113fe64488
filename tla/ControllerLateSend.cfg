CONSTANTS
    w1 = w1
    Workers = {w1}
    FaultSets = {{}}
    MaxRefresh = 2
SPECIFICATION Spec
INVARIANTS LateSendIsSafe
