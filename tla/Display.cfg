SPECIFICATION LiveSpec
CONSTANTS
    Ascent = 4
    Descent = 1
    Advance = 5
    Bitmap <- SmallFont
    Sizes <- SomeSizes
    Texts <- SomeTexts
    MaxResizes = 2
    MaxExposures = 1
INVARIANTS
    TypeOK
    TexturesInStep
    CellsWhole
    FrameShowsText
PROPERTY
    WindowCatchesUp
