CONSTANTS
    None = None
    Stored <- MCStored
    MaxLevel = 9
    Timers <- MCTimers
    MaxQuiet = 1
SPECIFICATION Spec
INVARIANTS
    TypeOK
    
    
    ChangesAreMarked
PROPERTIES
    TimerIsPatient
