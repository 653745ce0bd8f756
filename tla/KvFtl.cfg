\* Three keys in two chains that meet, a table of four slots, one iterator,
\* four stores, batches and deletes; the storage holds three small values
\* with the bitmap and six with the append-only allocator.
SPECIFICATION Spec
CHECK_DEADLOCK FALSE
CONSTANTS
    KeyA = KeyA
    KeyB = KeyB
    KeyC = KeyC
    None = None
    Keys = {KeyA, KeyB, KeyC}
    Home <- TwoChains
    Slots = 4
    Cells = 12
    Small = 2
    Large = 4
    Lens = {1, 2}
    Allocators = {"BITMAP", "APPEND_ONLY"}
    Handles = 1
    PerRead = 1
    Filters <- FilterSets
    MaxChanges = 4
INVARIANTS
    ChainsEnd
    IterComplete

    
