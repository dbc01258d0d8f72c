CONSTANTS
    usb = usb
    Battery = Battery
    Nothing = Nothing
    Sources <- MCSources
    Currents <- MCCurrents
    MaxLevel = 80
    WindowTicks = 3
    UpTicks = 6
    RetryTicks = 15
SPECIFICATION Spec
INVARIANT
    TypeOK
PROPERTIES
    ThreeReadingsAgree
    DecisionsPaced
    FailedLevelRests
