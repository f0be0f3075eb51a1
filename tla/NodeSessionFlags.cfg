SPECIFICATION Spec
CONSTANTS
    Connections <- AnyConnection
    Transports <- Plain
    Conforming = TRUE
    PeerMessages <- HandshakeAndRequest
    kMaxMessagesPerRead = 2
    MaxReceived = 3
    MaxPings = 1
INVARIANTS FlagsKept
CHECK_DEADLOCK FALSE
