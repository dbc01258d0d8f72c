CONSTANTS
    s1 = s1
    s2 = s2
    Slots <- MCSlots
    NoSlot = NoSlot
    Tiles <- RebootingTiles
    Timers <- NoTimers
    Levels <- MCLevel
    Minutes <- MCMinutes
    SlideTicks = 1
    TapTicks = 2
    ArmTicks = 2
    InitialLevel = 8
    InitialMinutes = 5
    InitialAuto = {FALSE}
    WifiReadings = {"off"}
SPECIFICATION Spec
SYMMETRY SlotSymmetry
INVARIANTS
    TypeOK
    RouterTracksContacts
    RebootIsConfirmed
PROPERTIES
    OwnerKeepsContact
    VisiblePanelTakesContacts
