SPECIFICATION Spec
CONSTANTS
    Worker = {1, 2}
    Client = {1, 2, 3}
    Requests <- MCRequests
    MaxFd = 3
    FileSize = 2
    MaxRequests <- MCAsked
    HangUps = {1, 2}
    MaxPid = 3
    MaxFaults = 1
INVARIANTS ServedByOne ChildrenAwaited LengthAnnounced
PROPERTY Responsive
