SPECIFICATION Spec
CONSTANTS
    a1 = a1
    a2 = a2
    Key = Key
    Keys = {Key}
    Vals <- AllVals
    Empty = 0
    Null = Null
    NoRow = NoRow
    Actors = {a1, a2}
    MaxCalls = 6
    RepliesLost = FALSE
    MaxIncarnations = 2
SYMMETRY ActorSymmetry
PROPERTY
    WritesOwnObject
CHECK_DEADLOCK FALSE
