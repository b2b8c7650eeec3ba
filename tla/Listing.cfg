SPECIFICATION Spec
CONSTANTS
    k1 = k1
    k2 = k2
    k3 = k3
    k4 = k4
    c1 = c1
    c2 = c2
    v1 = v1
    v2 = v2
    v3 = v3
    Empty = Empty
    Null = Null
    NoRow = NoRow
    Keys = {k1, k2, k3, k4}
    Vals = {v1, v2, v3, Empty}
    Clients = {c1, c2}
    Hooked = {}
    Requests <- ListingRequests
    MaxXid = 7
    InNamespace = {k1, k2, k3, k4}
    Requirements <- NotV3
    Labels = {v1, v3}
    Limit = 1
    Seeds <- ListingSeeds
    HashBits = 3
    Hash <- ThreeBitHash
    Replicas <- TwoReplicas
SYMMETRY ClientSymmetry
INVARIANTS
    SkipsExplained
    RepeatsExplained
    FirstPageCovers
    ShardsPartition
    ListingInv
CHECK_DEADLOCK FALSE
