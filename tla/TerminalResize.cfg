SPECIFICATION LiveSpec
CONSTANTS
    DataSize = 3
    MaxFilled = 4
    Chunks <- ByteChunks
    Sizes <- ThreeSizes
    GlyphW = 8
    GlyphH = 16
    BorderPx = 4
INVARIANTS
    TypeOK
    CursorInScreen
    NothingUndrawn
PROPERTY ReadsReachScreen
