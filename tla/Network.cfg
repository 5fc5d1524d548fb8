\* Two sends over a pool of one connection, at most two opened; the server is
\* started up to twice.
CONSTANTS
    a = a
    b = b
    NoSend = NoSend
    Sends <- TwoSends
    Cancellable <- OnlyA
    MaxConns = 2
    MaxConnections = 1
    MaxServers = 2
    Settings <- AllSettings
    Breakable <- First
    MayFail = "yes"
SPECIFICATION NetFairSpec
INVARIANTS
    NetTypeOK
    VerifiedBeforeUse
    NoOrphanServer
PROPERTIES
    SendsReturn
    SocketsReleased
    AddressReleased
CHECK_DEADLOCK FALSE
