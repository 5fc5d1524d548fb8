\* This crate on both sides, with and without connection tests.  The network
\* does not break; a handler may return an error.
CONSTANTS
    a = a
    b = b
    NoSend = NoSend
    Sends <- TwoSends
    Cancellable <- Nothing
    MaxConns = 1
    MaxConnections = 1
    MaxServers = 1
    Settings <- RustPeer
    Breakable <- Nothing
    MayFail = "yes"
SPECIFICATION NetFairSpec
PROPERTY LostAnswersAreErrors
CHECK_DEADLOCK FALSE
