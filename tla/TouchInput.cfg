CONSTANTS
    i1 = i1
    i2 = i2
    Slots <- MCSlots
    BadSlot = 9
    Ids <- MCIds
    NoId = NoId
    MaxFrame = 2
    MaxReady = 1
    Redropped = FALSE
    MidDiscardCalls = FALSE
SPECIFICATION FairSpec
INVARIANTS
    TypeOK
    StreamAlternates
    AnnouncedIsVisible
    DecoderIsExact
PROPERTIES
    CancelAllReachesEveryContact
    SilentContactEnds
