SPECIFICATION FairSpec
CONSTANTS
    Host = {m, w}
    Master = {m}
CHECK_DEADLOCK FALSE
INVARIANTS
    NoOrphans
PROPERTIES
    WorkerFollowsCoordinator
    SignalEnds
