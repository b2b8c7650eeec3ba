SPECIFICATION Spec
CONSTANTS
    a1 = a1
    a2 = a2
    Key = Key
    Keys = {Key}
    Vals <- AllVals
    Empty = 0
    Null = Null
    NoRow = NoRow
    Actors = {a1, a2}
    MaxCalls = 3
    RepliesLost = TRUE
    MaxIncarnations = 1
SYMMETRY ActorSymmetry
INVARIANT
    AmbiguityResolved
CHECK_DEADLOCK FALSE
