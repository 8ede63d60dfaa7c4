SPECIFICATION Spec
CONSTANTS
    Hashes <- FourHashes
    HashCount = 2
    EntryCount = 4
    Layouts <- OneLayout
    Fills <- OneFill
    Memory <- Used
    MaxCalls = 4
INVARIANTS
    FreeEntryClean
