SPECIFICATION ShapeSpec
CONSTANTS
    Levels <- TwoLevels
    Scripts <- TwoScripts
    Common = Common
    Texts <- BoundedTexts
    GlyphNum = 4
    Wide <- WideSigns
    Marks <- SomeMarks
INVARIANTS
    RunsTile
    RunsUniform
    RunsOfOneKind
    DrawnAtTakenPlaces
    ClusterOwnsPlace
    EveryCodepointDrawn
CHECK_DEADLOCK FALSE
