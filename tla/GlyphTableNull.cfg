SPECIFICATION Spec
CONSTANTS
    Hashes <- FourHashes
    HashCount = 2
    EntryCount = 4
    Layouts <- OneLayout
    Fills <- OneFill
    Memory <- Zeroed
    MaxCalls = 4
INVARIANTS
    NullTileUnused
