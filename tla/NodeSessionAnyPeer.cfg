SPECIFICATION Spec
CONSTANTS
    Connections <- AnyConnection
    Transports <- Plain
    Conforming = FALSE
    PeerMessages <- AnyHandshake
    kMaxMessagesPerRead = 2
    MaxReceived = 3
    MaxPings = 2
INVARIANTS TypeOK OneOperationEach WakeupPending EndsOnce CompletedOnce
CHECK_DEADLOCK FALSE
