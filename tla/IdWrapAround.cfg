CONSTANTS
    a = a
    b = b
    d = d
    echo = echo
    other = other
    missing = missing
    NoCall = NoCall
    Calls <- ThreeCalls
    IdSpace = 2
    BufferSize = 1
    WireCapacity = 1
    ReqLen <- OneFrame
    ResLen <- OneFrame
    Unsendable <- NoCalls
    Cancellable <- NoCalls
    ServerTasks = 0
    EndpointOf <- SameEndpoint
    Endpoints <- Registered
    Outcomes <- OkOnly
    MayDisconnect = FALSE
SPECIFICATION Spec
INVARIANT PendingMapped
CHECK_DEADLOCK FALSE
