SPECIFICATION FairSpec
CONSTANTS
    a = a
    b = b
    Token <- TwoTokens
    Bad = Bad
    Unset = Unset
    Down = Down
    Command <- Commands
    NameOf <- FileNames
    Policy <- Policies
    Edits = 1
CHECK_DEADLOCK FALSE
INVARIANTS
    TypeOK
    SessionsAreEntitled
    ProcessesArePermitted
PROPERTIES
    ReadyWorkerListens
