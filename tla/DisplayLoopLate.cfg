CONSTANTS
    None = None
    Buffers <- MCBuffers
    Samples <- MCSamples
    Limit = 1
    MaxSeen = 6
    MayFail <- MCLate
SPECIFICATION Spec
INVARIANT
    ScanoutKept
CHECK_DEADLOCK FALSE
