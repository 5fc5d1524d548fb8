CONSTANTS
    a = a
    b = b
    d = d
    echo = echo
    other = other
    missing = missing
    NoCall = NoCall
    Calls <- TwoCalls
    IdSpace = 4
    BufferSize = 1
    WireCapacity = 1
    ReqLen <- TwoFrames
    ResLen <- TwoFrames
    Unsendable <- NoCalls
    Cancellable <- AllCalls
    ServerTasks = 0
    EndpointOf <- SameEndpoint
    Endpoints <- Registered
    Outcomes <- AnyReply
    MayDisconnect = TRUE
SPECIFICATION Spec
INVARIANTS
    PendingMapped
    ResponseMatches
    RequestIntact
    IdsReleased
PROPERTY ImplementsService
CHECK_DEADLOCK FALSE
