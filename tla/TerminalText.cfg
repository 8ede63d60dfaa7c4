SPECIFICATION Spec
CONSTANTS
    DataSize = 6
    MaxFilled = 8
    Chunks <- TextChunks
    Sizes <- OneSize
    GlyphW = 8
    GlyphH = 16
    BorderPx = 4
INVARIANTS
    CursorMatchesStream
    SegmentsCoverStream
    SegmentsReadBack
    ProcessesCommitted
    ScreenShowsStream
