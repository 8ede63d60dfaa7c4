SPECIFICATION LiveSpec
CONSTANTS
    Room = 2
    OutCap = 1
    InCap = 1
    KeyBytes = 2
    MaxOutput = 2
    MaxEvents = 2
    MaxStops = 1
INVARIANTS
    TypeOK
    SleepsOnlyIdle
    OutputAccounted
    KeysWhole
PROPERTIES
    OutputDrawn
    KeysArrive
    CloseExits
    ChildReaped
CHECK_DEADLOCK FALSE
