SPECIFICATION Spec
CONSTANTS
    n1 = n1
    n2 = n2
    j1 = j1
    j2 = j2
    l1 = l1
    l2 = l2
    l3 = l3
    NoLease = NoLease
    Lease <- ThreeLeases
    NoTask = NoTask
    NoHandle = NoHandle
    Node <- TwoNodes
    Sessions = 1
    Job <- TwoJobs
    Killable <- NoJob
    Timed <- NoJob
    Chatty <- NoJob
    Waits <- NoJob
    Breaks <- NoBreak
    ClientLeaves = TRUE
    ChanCap = 2
    EventCap = 8
CHECK_DEADLOCK FALSE
CONSTRAINT UpToSelection
INVARIANTS
    ExclusiveLeases
    RunStaysInLease
    LeasedRunsAreApart
