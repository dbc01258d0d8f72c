CONSTANTS
    None = None
    Buffers <- MCBuffers
    Samples <- MCSamples
    Limit = 2
    MaxSeen = 6
    MayFail <- Calls
SPECIFICATION Spec
INVARIANTS
    FlippedScanoutKept
    LitWhenAwake
PROPERTIES
    PickupIsExact
    KeyBringsPicture
CHECK_DEADLOCK FALSE
