SPECIFICATION FairSpec
CONSTANTS
    Window = 2
    Floor = 3
    Baseline = 5
    PollTime = 1
    Factory = TRUE
INVARIANTS
    TypeOK
    DoorbellOnItsWay
    PolledPromptly
    PolledEventually

PROPERTIES
    Stops
