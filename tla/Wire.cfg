CONSTANTS
    Base = 5
    kMaxStreamSize = 400
    kMaxSerializedCompactSize = 300
    kMaxProtocolMessageLength = 170
    kMaxInvItems = 2
    kMaxAddrItems = 2
    kMaxGetHeadersItems = 2
    kMaxHeadersItems = 1
    kMaxReasonSize = 4
    ProtocolVersion = 17
    RejectionCodes = {0, 2}
    network_magic <- MCMagic
    Digest <- MCDigest
    ChunkSizes = {1, 500}
    Pushed <- MCPushed
    Crafted <- MCCrafted
    Following <- MCFollowing
    MaxBuffer = 4
    MaxBytes = 5
    Samples <- MCSamples
    V4Bits = 4
    ByteBits = 2
    V6Bytes = 3
    Loopback <- MCLoopback
    V4GroupPrefix = 2
    V6GroupPrefix = 3
    HexBase = 3
    Base58 = 5
    kMaxInput = 8
    kCheckSumLength = 1
    Sha256 <- MCSha256
    kCoinMaxDecimals = 2
    kCoinMaxSupply = 12
    UINT16_MAX = 16
SPECIFICATION SpecWire
INVARIANTS FramingIsExact  CompactIsCanonical AddressesPartitioned 
 
CHECK_DEADLOCK FALSE
