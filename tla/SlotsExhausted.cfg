CONSTANTS
    a = a
    b = b
    d = d
    echo = echo
    other = other
    missing = missing
    NoCall = NoCall
    Calls <- TwoCalls
    IdSpace = 4
    BufferSize = 1
    WireCapacity = 1
    ReqLen <- TwoFrames
    ResLen <- OneFrame
    Unsendable <- NoCalls
    Cancellable <- NoCalls
    ServerTasks = 2
    EndpointOf <- TwoEndpoints
    Endpoints <- Registered
    Outcomes <- OkOnly
    MayDisconnect = FALSE
SPECIFICATION FairSpec
PROPERTY EveryCallReturns
CHECK_DEADLOCK FALSE
