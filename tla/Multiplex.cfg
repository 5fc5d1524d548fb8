CONSTANTS
    a = a
    b = b
    d = d
    echo = echo
    other = other
    missing = missing
    NoCall = NoCall
    Calls <- ThreeCalls
    IdSpace = 5
    BufferSize = 1
    WireCapacity = 1
    ReqLen <- TwoFrames
    ResLen <- TwoThree
    Unsendable <- OnlyD
    Cancellable <- NoCalls
    ServerTasks = 3
    EndpointOf <- TwoEndpoints
    Endpoints <- Registered
    Outcomes <- OkOnly
    MayDisconnect = FALSE
SPECIFICATION FairSpec
INVARIANTS
    PendingMapped
    ResponseMatches
    IdsReleased
    AnsweredMeansQuiet
PROPERTY EveryCallReturns
CHECK_DEADLOCK FALSE
