SPECIFICATION Spec
CONSTANTS
    DataSize = 5
    MaxFilled = 17
INVARIANTS
    TypeOK
    WindowIntact
    ReadBack
    PointersMapped
