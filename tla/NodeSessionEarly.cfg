SPECIFICATION Spec
CONSTANTS
    Connections <- AnyConnection
    Transports <- Plain
    Conforming = FALSE
    PeerMessages <- HandshakeAndRequest
    kMaxMessagesPerRead = 2
    MaxReceived = 3
    MaxPings = 1
INVARIANTS VersionsExchangedFirst
CHECK_DEADLOCK FALSE
