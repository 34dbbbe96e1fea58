SPECIFICATION FairSpec
CONSTANTS
    n1 = n1
    n2 = n2
    j1 = j1
    j2 = j2
    l1 = l1
    l2 = l2
    l3 = l3
    NoLease = NoLease
    Lease <- NoneLeased
    NoTask = NoTask
    NoHandle = NoHandle
    Node <- OneNode
    Sessions = 1
    Job <- OneJob
    Killable <- NoJob
    Timed <- NoJob
    Chatty <- NoJob
    Waits <- OneJob
    Breaks <- Reset
    ClientLeaves = FALSE
    ChanCap = 2
    EventCap = 8
CHECK_DEADLOCK FALSE
PROPERTY LostNodeIsDropped
