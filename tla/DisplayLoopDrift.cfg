CONSTANTS
    None = None
    Buffers <- MCBuffers
    Samples <- MCDrift
    Limit = 1
    MaxSeen = 6
    MayFail <- MCNone
SPECIFICATION Spec
INVARIANT
    ArmedMeansStill
CHECK_DEADLOCK FALSE
