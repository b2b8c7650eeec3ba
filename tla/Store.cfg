SPECIFICATION StoreSpec
CONSTANTS
    k1 = k1
    k2 = k2
    c1 = c1
    c2 = c2
    c3 = c3
    v1 = v1
    v2 = v2
    Empty = Empty
    Null = Null
    NoRow = NoRow
    Keys = {k1, k2}
    Vals = {v1, v2, Empty}
    Clients = {c1, c2, c3}
    Hooked = {c3}
    Requests <- StoreRequests
    MaxXid = 4
SYMMETRY ClientSymmetry
INVARIANTS
    StoreTypeOK
    CallIsAtomic
PROPERTIES
    RowStep
    NoLateStamp
    HorizonNeverLags
CHECK_DEADLOCK FALSE
