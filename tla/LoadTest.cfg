SPECIFICATION Spec
CONSTANTS
    Workers = {w1, w2}
    QueueCap = 1
    NumToKill = 1
    MaxNames = 2
    MaxJobs = 2
    MaxErrors = 1
    v1 = v1
    v2 = v2
    ChanCap = 1
    MaxPins = 1
    SweepRuns = 2
    Configs <- AllConfigs
INVARIANTS
    Tally
    DrillSound
    CheckpointSound
PROPERTIES
    RunEnds
CHECK_DEADLOCK FALSE
