SPECIFICATION Spec
CONSTANTS
    Room = 2
    OutCap = 1
    InCap = 1
    KeyBytes = 1
    MaxOutput = 1
    MaxEvents = 1
    MaxStops = 0
INVARIANT DieEndsProgram
CHECK_DEADLOCK FALSE
