SPECIFICATION Spec
CONSTANTS
    n1 = n1
    n2 = n2
    j1 = j1
    j2 = j2
    l1 = l1
    l2 = l2
    l3 = l3
    NoLease = NoLease
    Lease <- NoneLeased
    NoTask = NoTask
    NoHandle = NoHandle
    Node <- TwoNodes
    Sessions = 1
    Job <- OneJob
    Killable <- NoJob
    Timed <- NoJob
    Chatty <- NoJob
    Waits <- OneJob
    Breaks <- AnyBreak
    ClientLeaves = TRUE
    ChanCap = 2
    EventCap = 12
CHECK_DEADLOCK FALSE
INVARIANTS
    SuccessIsReal
    FinishedIsRecorded
    LedgerAgrees
    ReportAgrees
PROPERTIES
    OutcomeIsFinal
    ImplementsJobs
