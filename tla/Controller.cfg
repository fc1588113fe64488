CONSTANTS
    w1 = w1
    Workers = {w1}
    FaultSets = {{"dial", "close"}, {"marshal", "cancel", "close"}}
    MaxRefresh = 3
SPECIFICATION FairSpec
INVARIANTS LiveStreamIsOpen OfferNeedsOpen OldCommandsClosed
PROPERTIES KeepsContract LateSendReturns BundleServed RefreshReturns
CHECK_DEADLOCK FALSE
