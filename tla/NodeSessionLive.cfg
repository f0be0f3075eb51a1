SPECIFICATION FairSpec
CONSTANTS
    Connections <- AnyConnection
    Transports <- AnyTransport
    Conforming = TRUE
    PeerMessages <- AllMessages
    kMaxMessagesPerRead = 3
    MaxReceived = 3
    MaxPings = 1
INVARIANTS VersionGoesFirst HandshakeRespected
PROPERTIES StopCompletes QueueDrains 
CHECK_DEADLOCK FALSE
