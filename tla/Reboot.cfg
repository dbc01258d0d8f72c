CONSTANTS
    v1 = v1
    v2 = v2
    v3 = v3
    Settings <- MCSettings
    Defaults = v1
    Torn = Torn
    NoFile = NoFile
SPECIFICATION RebootSpec
INVARIANTS
    TypeOK
    FileIsWhole
    SavedSurvives
    UnsavedIsKnown
    RebootKeepsAll
