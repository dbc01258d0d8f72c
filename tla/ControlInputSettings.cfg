CONSTANTS
    s1 = s1
    s2 = s2
    Slots <- MCSlot
    NoSlot = NoSlot
    Tiles <- SettingTiles
    Timers <- OneTimer
    Levels <- MCLevels
    Minutes <- MCMinutes
    SlideTicks = 2
    TapTicks = 2
    ArmTicks = 2
    InitialLevel = 8
    InitialMinutes = 5
    InitialAuto = {TRUE}
    WifiReadings = {"off", "up"}
SPECIFICATION FairSpec
INVARIANTS
    CancelActsOnNothing
    DarkIsQuiet
PROPERTIES
    ClosedPanelHides
