CONSTANTS
    i1 = i1
    i2 = i2
    Slots <- MCSlots
    BadSlot = 9
    Ids <- MCOneId
    NoId = NoId
    MaxFrame = 2
    MaxReady = 2
    Redropped = TRUE
    MidDiscardCalls = FALSE
SPECIFICATION Spec
INVARIANTS
    AnnouncedIsVisible
