SPECIFICATION FairSpec
CONSTANTS
    GVKs = {g1, g2}
    Runnables = {r1, r2}
    Probes = TRUE
INVARIANTS
    RunOnce
    SyncedFirst
    PoolOutlivesUsers
    LifecycleInv
PROPERTIES
    StartGoesOn
    ShutsDown
CHECK_DEADLOCK FALSE
