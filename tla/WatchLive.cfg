SPECIFICATION FairSpec
CONSTANTS
    k1 = k1
    c1 = c1
    c2 = c2
    v1 = v1
    Empty = Empty
    Null = Null
    NoRow = NoRow
    Keys = {k1}
    Vals = {v1, Empty}
    Clients = {c1, c2}
    Hooked = {}
    Requests <- OneKeyRequests
    MaxXid = 4
    Owned = {k1}
    ChanCap = 1
    MaxFaults = 1
PROPERTIES
    Converges
    TransactionsEnd
