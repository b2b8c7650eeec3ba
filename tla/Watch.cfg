SPECIFICATION FeedSpec
CONSTANTS
    k1 = k1
    k2 = k2
    c1 = c1
    c2 = c2
    v1 = v1
    Empty = Empty
    Null = Null
    NoRow = NoRow
    Keys = {k1, k2}
    Vals = {v1, Empty}
    Clients = {c1, c2}
    Hooked = {}
    Requests <- WatchRequests
    MaxXid = 4
    Owned = {k1, k2}
    ChanCap = 1
    MaxFaults = 1
SYMMETRY ClientSymmetry
INVARIANTS
    HwmBelowInFlight
    Complete
    WatchInv
    FeedInv
PROPERTIES
    HwmMonotone
    ImplementsFeed
