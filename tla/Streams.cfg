CONSTANTS
    exec = exec  logs = logs  forward = forward  s1 = s1
    Ops = {exec, logs, forward}
    NoOp = NoOp
    Sids = {s1}
    SidOf <- OneSid
    KindOf <- Kinds
    MaxSeq = 2
    PipeCap = 1
    PendingSizes = {65536, 1048576}
SPECIFICATION FairSpec
INVARIANTS OpenInputIsReachable EofIsComplete
PROPERTIES NothingDeliveredAfterEnd BlockedInputReleased
CHECK_DEADLOCK FALSE
