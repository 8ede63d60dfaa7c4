SPECIFICATION Spec
CONSTANTS
    Hashes <- FourHashes
    HashCount = 2
    EntryCount = 4
    Layouts <- TwoLayouts
    Fills <- OneFill
    Memory <- Zeroed
    MaxCalls = 1
INVARIANTS
    TypeOK
    LRUListSound
    ListsPartitionEntries
    FreeEntryClean
    TilesApart
PROPERTIES
    GlyphKeepsEntry
    CacheSpec
