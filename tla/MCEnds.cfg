SPECIFICATION FairSpec
CONSTANTS
    n1 = n1
    n2 = n2
    j1 = j1
    j2 = j2
    l1 = l1
    l2 = l2
    l3 = l3
    NoLease = NoLease
    Lease <- NoneLeased
    NoTask = NoTask
    NoHandle = NoHandle
    Node <- OneNode
    Sessions = 1
    Job <- OneJob
    Killable <- OneJob
    Timed <- OneJob
    Chatty <- OneJob
    Waits <- OneJob
    Breaks <- Closed
    ClientLeaves = FALSE
    ChanCap = 1
    EventCap = 2
CHECK_DEADLOCK FALSE
INVARIANT
    SuccessIsReal
PROPERTIES
    RunEnds
    JobSettles
    KillEnds
    LostNodeIsDropped
