SPECIFICATION Spec
CONSTANTS
    Others = {o1}
    RingSize = 1
    ChanCap = 1
    MaxXid = 4
    MaxRestarts = 1
INVARIANTS
    Accounted
    CanaryOnItsWay
    VerifierInv
PROPERTIES
    CanaryArrives
CHECK_DEADLOCK FALSE
