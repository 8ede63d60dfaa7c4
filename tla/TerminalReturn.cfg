SPECIFICATION Spec
CONSTANTS
    DataSize = 4
    MaxFilled = 4
    Chunks <- ByteChunks
    Sizes <- TallSize
    GlyphW = 8
    GlyphH = 16
    BorderPx = 4
INVARIANT EmptyGroupEndsLine
