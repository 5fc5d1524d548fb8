CONSTANTS
    a = a
    b = b
    d = d
    echo = echo
    other = other
    missing = missing
    NoCall = NoCall
    Calls <- ThreeCalls
    IdSpace = 2
    BufferSize = 1
    WireCapacity = 1
    ReqLen <- TwoFrames
    ResLen <- TwoFrames
    Unsendable <- NoCalls
    Cancellable <- OnlyA
    ServerTasks = 0
    EndpointOf <- OneMissing
    Endpoints <- Registered
    Outcomes <- OkOnly
    MayDisconnect = FALSE
SPECIFICATION Spec
INVARIANTS
    TypeOK
    SameIdOnly
    ReadOnce
CHECK_DEADLOCK FALSE
