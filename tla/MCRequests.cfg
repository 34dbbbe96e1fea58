SPECIFICATION FairSpec
CONSTANTS
    torch = torch
    lease = lease
    n1 = n1
    n2 = n2
    NoClient = NoClient
    Client <- TwoClients
    Leasing <- LeaseClient
    Ranked <- TorchClient
    Node <- TwoNodes
    Names <- UserLists
    Leases <- OneNodeLeases
    SockCap = 1
    Errors = 1
CHECK_DEADLOCK FALSE
INVARIANTS
    TypeOK
    ExitZeroIsReal
    RanksAreSound
PROPERTIES
    LockReturns
    RequestEnds
